-------------------------- MODULE UdpSystemProofs --------------------------
(***************************************************************************)
(* Proofs about the UDP pair, for every number of clients, ports and       *)
(* messages, every queue length, buffer size and limit.                    *)
(***************************************************************************)
EXTENDS UdpSystem, FiniteSetTheorems, TLAPS

-----------------------------------------------------------------------------
(***************************************************************************)
(* Messages, records and the client's list.                                *)
(***************************************************************************)

\* A member of Msg is the record of its two fields.
LEMMA MsgFields ==
  ASSUME NEW m \in Msg
  PROVE  /\ m.from \in Clients
         /\ m.num \in Nat
         /\ m.num \in LineNumbers(m.from)
         /\ m = [from |-> m.from, num |-> m.num]
BY NetworkAssumption DEF Msg, LineNumbers

\* Conversely, a client and the number of one of its lines make a message.
LEMMA MsgMade ==
  ASSUME NEW c \in Clients, NEW n \in LineNumbers(c)
  PROVE  [from |-> c, num |-> n] \in Msg
BY DEF Msg

\* The record a message should leave is one of the file's.
LEMMA LineIsRecord ==
  ASSUME NEW m \in Msg
  PROVE  Line(m) \in Records /\ Line(m).msg = m /\ Line(m).ip \notin OwnHosts
BY MsgFields, NetworkAssumption, ServerAssumption DEF Line, Records, Hosts

\* A client has as many line numbers as lines.
LEMMA LinesCounted ==
  ASSUME NEW c \in Clients
  PROVE  IsFiniteSet(LineNumbers(c)) /\ Cardinality(LineNumbers(c)) = Lines[c]
<1>1. Lines[c] \in Nat
  BY NetworkAssumption
<1> DEFINE last == Lines[c] - 1
<1>2. last \in Int /\ (IF 0 > last THEN 0 ELSE last - 0 + 1) = Lines[c]
  BY <1>1
<1> HIDE DEF last
<1>3. IsFiniteSet(0 .. last) /\ Cardinality(0 .. last) = Lines[c]
  BY <1>2, FS_Interval
<1> QED BY <1>3 DEF LineNumbers, last

\* A client's list is finite, and striking numbers out does not lengthen it.
LEMMA ListFinite ==
  ASSUME NEW c \in Clients, NEW S \in SUBSET LineNumbers(c), NEW T \in SUBSET S
  PROVE  /\ IsFiniteSet(S) /\ IsFiniteSet(T)
         /\ Cardinality(S) \in Nat /\ Cardinality(T) \in Nat
         /\ Cardinality(T) <= Cardinality(S)
<1>1. IsFiniteSet(S) /\ IsFiniteSet(T)
  BY LinesCounted, FS_Subset
<1> QED BY <1>1, FS_Subset, FS_CardinalityType

\* The bytes of a reply end up in the slots they fill, and zeros in the others.
LEMMA ResponseSlots ==
  ASSUME NEW n, NEW i \in 1 .. Slots
  PROVE  /\ Response(<<n>>)[i] \in {n, 0}
         /\ Response(<<>>)[i] = 0
BY DEF Response

-----------------------------------------------------------------------------
(***************************************************************************)
(* The client's own variables.                                             *)
(***************************************************************************)

\* The loop head keeps the types, whatever list and count it is given.
LEMMA LoopHeadTypes ==
  ASSUME CliTypeOK, NEW c \in Clients, NEW list \in SUBSET LineNumbers(c),
         NEW count \in Nat,
         datagrams' = [datagrams EXCEPT ![c] = list],
         sent_msgs' = [sent_msgs EXCEPT ![c] = count],
         LoopHead(c, list, count)
  PROVE  CliTypeOK'
<1>1. list \subseteq Nat
  BY NetworkAssumption DEF LineNumbers
<1> QED
  BY <1>1 DEF CliTypeOK, LoopHead

\* So does striking out, whose count is a natural number because the list
\* only becomes shorter.
LEMMA StrikeOutTypes ==
  ASSUME CliTypeOK, NEW c \in Clients, NEW buffer, StrikeOut(c, buffer)
  PROVE  CliTypeOK'
<1> DEFINE list  == MissedMsgs(datagrams[c], buffer)
           count == sent_msgs[c] + Cardinality(datagrams[c]) - Cardinality(list)
<1>1. datagrams[c] \in SUBSET LineNumbers(c) /\ list \in SUBSET datagrams[c]
  BY DEF CliTypeOK, MissedMsgs
<1>2. count \in Nat
  <2>1. sent_msgs[c] \in Nat
    BY DEF CliTypeOK
  <2> HIDE DEF list
  <2> QED BY <1>1, <2>1, ListFinite
<1>3. list \in SUBSET LineNumbers(c)
  BY <1>1
<1> QED
  BY <1>2, <1>3, LoopHeadTypes DEF StrikeOut

-----------------------------------------------------------------------------
(***************************************************************************)
(* Types.  Nothing but the server's steps depends on more than the types.  *)
(***************************************************************************)

\* A client sends numbers of its own list and takes replies from its queue.
LEMMA ClientTypes ==
  ASSUME NetTypeOK, CliTypeOK, NEW c \in Clients, ClientStep(c)
  PROVE  NetTypeOK' /\ CliTypeOK'
<1>1. CASE SendMsg(c)
  <2> PICK n \in unsent[c] :
         /\ toServer' = toServer \cup {[from |-> c, num |-> n]}
         /\ unsent' = [unsent EXCEPT ![c] = @ \ {n}]
    BY <1>1 DEF SendMsg
  <2>1. [from |-> c, num |-> n] \in Msg
    BY MsgMade DEF CliTypeOK
  <2>2. NetTypeOK'
    BY <1>1, <2>1 DEF SendMsg, NetTypeOK
  <2>3. CliTypeOK'
    BY <1>1 DEF SendMsg, CliTypeOK
  <2> QED BY <2>2, <2>3
<1>2. CASE (\E r \in answers : RecvResponse(c, r)) \/ RecvError(c)
  <2>1. NetTypeOK'
    BY <1>2 DEF RecvResponse, RecvError, NetTypeOK
  <2>2. CliTypeOK'
    BY <1>2, StrikeOutTypes DEF RecvResponse, RecvError
  <2> QED BY <2>1, <2>2
<1>3. CASE RecvTimeout(c)
  <2>1. datagrams[c] \in SUBSET LineNumbers(c) /\ sent_msgs[c] \in Nat
    BY DEF CliTypeOK
  <2>2. /\ datagrams' = [datagrams EXCEPT ![c] = datagrams[c]]
        /\ sent_msgs' = [sent_msgs EXCEPT ![c] = sent_msgs[c]]
    BY <1>3 DEF RecvTimeout, CliTypeOK
  <2>3. CliTypeOK'
    BY <1>3, <2>1, <2>2, LoopHeadTypes DEF RecvTimeout
  <2>4. NetTypeOK'
    BY <1>3 DEF RecvTimeout, netVars, NetTypeOK
  <2> QED BY <2>3, <2>4
<1> QED BY <1>1, <1>2, <1>3 DEF ClientStep

\* The network only moves, copies and loses what is already in it.
LEMMA NetworkMoves ==
  ASSUME NetTypeOK, Network
  PROVE  NetTypeOK' /\ (replies \cup answers)' \subseteq replies \cup answers
<1>1. ASSUME NEW m \in toServer, Deliver(m) \/ Refuse(m) \/ Lose(m)
      PROVE  NetTypeOK' /\ (replies \cup answers)' \subseteq replies \cup answers
  BY <1>1, MsgFields DEF Deliver, Refuse, Lose, NetTypeOK
<1>2. ASSUME NEW r \in replies, LoseReply(r) \/ DeliverReply(r)
      PROVE  NetTypeOK' /\ (replies \cup answers)' \subseteq replies \cup answers
  BY <1>2 DEF LoseReply, DeliverReply, NetTypeOK
<1> QED BY <1>1, <1>2 DEF Network, Arrive

-----------------------------------------------------------------------------
(***************************************************************************)
(* SInv: the server, on any number of ports and with a recvfrom that may   *)
(* fail on each of them.                                                   *)
(***************************************************************************)

\* What is said of the server alone survives a step of another.
LEMMA ServerFrame ==
  ASSUME UNCHANGED srvVars
  PROVE  /\ SrvTypeOK <=> SrvTypeOK'
         /\ PeersOnTheirPort <=> PeersOnTheirPort'
         /\ HandlerOnPort <=> HandlerOnPort'
         /\ EchoesOnPort <=> EchoesOnPort'
         /\ BufferWritten <=> BufferWritten'
         /\ NoNumberRecorded <=> NoNumberRecorded'
         /\ StopIsRemembered <=> StopIsRemembered'
         /\ RecordsFromPort <=> RecordsFromPort'
         /\ WrongAddressRepeats <=> WrongAddressRepeats'
         /\ HInv <=> HInv'
         /\ NothingBeforeStart <=> NothingBeforeStart'
         /\ \A m \in Msg : Accepted(m)' <=> Accepted(m)
<1> USE DEF srvVars
<1>1. (SrvTypeOK <=> SrvTypeOK') /\ (PeersOnTheirPort <=> PeersOnTheirPort')
  BY DEF SrvTypeOK, PeersOnTheirPort
<1>2. (HandlerOnPort <=> HandlerOnPort') /\ (EchoesOnPort <=> EchoesOnPort')
  BY DEF HandlerOnPort, EchoesOnPort
<1>7. (BufferWritten <=> BufferWritten') /\ (WrongAddressRepeats <=> WrongAddressRepeats')
  BY DEF BufferWritten, WrongAddressRepeats, Written, Record
<1>8. NoNumberRecorded <=> NoNumberRecorded'
  BY DEF NoNumberRecorded
<1>3. StopIsRemembered <=> StopIsRemembered'
  BY DEF StopIsRemembered, StopWritten
<1>4. (RecordsFromPort <=> RecordsFromPort') /\ (NothingBeforeStart <=> NothingBeforeStart')
  BY DEF RecordsFromPort, NothingBeforeStart
<1>5. HInv <=> HInv'
  BY DEF HInv, BufferMatchesPeer, HandlerMatchesBuffer, RecordNamesSender
<1>6. \A m \in Msg : Accepted(m)' <=> Accepted(m)
  BY DEF Accepted, Written, Record
<1> QED BY <1>1, <1>2, <1>3, <1>4, <1>5, <1>6, <1>7, <1>8

\* A client's address is never one of the server's own host.
LEMMA AddressOfPeer ==
  ASSUME NEW who \in Clients \cup OwnHosts
  PROVE  /\ AddressOf(who) \in Hosts
         /\ who \in Clients => AddressOf(who) = HostOf[who] /\ AddressOf(who) \notin OwnHosts
         /\ who \notin Clients => AddressOf(who) \in OwnHosts
BY ServerAssumption DEF AddressOf, Hosts

\* What the handler works on makes one of the file's records, which stands under
\* the port of a client, and under the host of one that was given that port or,
\* where recvfrom may fail, of the server.
LEMMA HandlerRuns ==
  ASSUME SInv, phase \in {"reply", "write"}
  PROVE  /\ raw_msg \in Msg \cup {None} /\ raw_numb \in Nat
         /\ idx \in Ports /\ peer[idx] \in Clients \cup OwnHosts
         /\ \E c \in Clients : PortOf[c] = idx
         /\ \/ peer[idx] \in Clients /\ PortOf[peer[idx]] = idx /\ raw_msg \in Msg
            \/ peer[idx] \notin Clients /\ idx \in FailingPorts
         /\ Record(idx, raw_msg) \in Records
         /\ Record(idx, raw_msg).msg = raw_msg
         /\ Record(idx, raw_msg).port = idx
         /\ Record(idx, raw_msg).ip = AddressOf(peer[idx])
<1>1. \E c \in Clients : PortOf[c] = idx
  BY DEF SInv, HandlerOnPort
<1>2. /\ raw_msg \in Msg \cup {None} /\ raw_numb \in Nat
      /\ idx \in Ports /\ peer[idx] \in Clients \cup OwnHosts
  BY <1>1, NetworkAssumption DEF SInv, TypeOK, SrvTypeOK
<1>3. \/ peer[idx] \in Clients /\ PortOf[peer[idx]] = idx /\ raw_msg \in Msg
      \/ peer[idx] \notin Clients /\ idx \in FailingPorts
  BY <1>2 DEF SInv, PeersOnTheirPort, HandlerOnPort
<1>4. AddressOf(peer[idx]) \in Hosts
  BY <1>2, AddressOfPeer
<1> QED BY <1>1, <1>2, <1>3, <1>4 DEF Record, Records

\* Start, StartFails and EpollWait move only the server's phase and batch, and
\* may truncate the file.
LEMMA WaitMoves ==
  ASSUME SInv, Start \/ StartFails \/ EpollWait
  PROVE  /\ \/ phase = "off" /\ phase' \in {"wait", "failed"}
            \/ phase = "wait" /\ phase' = "recv"
         /\ phase' = "wait" => file' = EmptyFile
         /\ file' # file => phase = "off" /\ file' = EmptyFile
         /\ events' \subseteq Ports
         /\ UNCHANGED <<idx, raw_numb, raw_msg, peer, echoes, client_database,
                        stop_received, netVars>>
BY NetworkAssumption DEF SInv, TypeOK, SrvTypeOK, Start, StartFails, EpollWait, Readable,
       Queued

\* An empty file is a file, and there is no record in it.
LEMMA NothingInEmptyFile ==
  /\ EmptyFile \in [Records -> 0 .. MaxCopies]
  /\ \A q \in Records : ~(EmptyFile[q] > 0)
<1>1. 0 \in 0 .. MaxCopies
  BY ServerAssumption
<1> QED BY <1>1 DEF EmptyFile

LEMMA WaitServes ==
  ASSUME SInv, Start \/ StartFails \/ EpollWait, UNCHANGED cliVars
  PROVE  SInv'
<1>1. /\ \/ phase = "off" /\ phase' \in {"wait", "failed"}
         \/ phase = "wait" /\ phase' = "recv"
      /\ phase' = "wait" => file' = EmptyFile
      /\ file' # file => phase = "off" /\ file' = EmptyFile
      /\ events' \subseteq Ports
      /\ UNCHANGED <<idx, raw_numb, raw_msg, peer, echoes, client_database,
                     stop_received, netVars>>
  BY WaitMoves
<1>2. file' \in [Records -> 0 .. MaxCopies]
  BY <1>1, NothingInEmptyFile DEF SInv, TypeOK, SrvTypeOK
<1>3. TypeOK'
  BY <1>1, <1>2 DEF SInv, TypeOK, netVars, NetTypeOK, SrvTypeOK, cliVars, CliTypeOK
<1>4. PeersOnTheirPort' /\ HandlerOnPort' /\ EchoesOnPort' /\ NoNumberRecorded'
  BY <1>1 DEF SInv, PeersOnTheirPort, HandlerOnPort, EchoesOnPort, NoNumberRecorded
<1>7. BufferWritten' /\ WrongAddressRepeats'
  <2>1. CASE phase = "off"
    <3>1. raw_msg' = None
      BY <1>1, <2>1 DEF SInv, BufferWritten
    <3>2. phase' = "wait" => \A q \in Records : ~(file'[q] > 0)
      BY <1>1, NothingInEmptyFile
    <3> QED BY <1>1, <2>1, <3>1, <3>2 DEF BufferWritten, WrongAddressRepeats
  <2>2. CASE phase = "wait"
    BY <1>1, <2>2 DEF SInv, BufferWritten, WrongAddressRepeats, Written
  <2> QED BY <1>1, <2>1, <2>2
<1>5. RecordsFromPort'
  <2>1. ASSUME NEW q \in Records, file'[q] > 0 PROVE file[q] > 0
    BY <1>1, <2>1, NothingInEmptyFile
  <2> QED BY <2>1 DEF SInv, RecordsFromPort
<1>6. StopIsRemembered'
  <2>1. CASE phase = "off"
    <3>1. ~stop_received /\ stop_received' = stop_received
      BY <1>1, <2>1 DEF SInv, StopIsRemembered
    <3>2. phase' = "wait" => ~StopWritten'
      BY <1>1, NothingInEmptyFile DEF StopWritten
    <3> QED BY <1>1, <2>1, <3>1, <3>2 DEF StopIsRemembered
  <2>2. CASE phase = "wait"
    BY <1>1, <2>2 DEF SInv, StopIsRemembered, StopWritten
  <2> QED BY <1>1, <2>1, <2>2
<1> QED BY <1>3, <1>4, <1>5, <1>6, <1>7 DEF SInv

\* RecvMsg sets buffer, address and port, RecvEcho the number and the address;
\* RecvFails takes what it finds.
LEMMA RecvMoves ==
  ASSUME SInv, \/ \E m \in inbox : RecvMsg(m) \/ RecvFails(m)
               \/ \E e \in echoes : RecvEcho(e)
  PROVE  /\ phase = "recv" /\ phase' = "reply" /\ inbox' \subseteq inbox
         /\ echoes' \subseteq echoes
         /\ UNCHANGED <<events, client_database, stop_received, file, toServer,
                        replies, answers, unreachable>>
         /\ idx' \in Ports /\ \E c \in Clients : PortOf[c] = idx'
         /\ \/ /\ raw_msg' \in Msg /\ raw_numb' = raw_msg'.num
               /\ idx' = PortOf[raw_msg'.from]
               /\ peer' = [peer EXCEPT ![idx'] = raw_msg'.from]
            \/ /\ idx' \in FailingPorts /\ raw_msg' = raw_msg /\ raw_numb' \in Nat
               /\ peer' = [peer EXCEPT ![idx'] = OwnHost]
            \/ idx' \in FailingPorts /\ UNCHANGED <<raw_msg, raw_numb, peer>>
<1>1. ASSUME NEW m \in inbox
      PROVE  m \in Msg /\ m.from \in Clients /\ PortOf[m.from] \in Ports
  BY MsgFields, NetworkAssumption DEF SInv, TypeOK, NetTypeOK
<1>2. ASSUME NEW e \in echoes
      PROVE  /\ e.port \in FailingPorts /\ e.port \in Ports /\ e.num \in Nat
             /\ \E c \in Clients : PortOf[c] = e.port
  BY DEF SInv, TypeOK, SrvTypeOK, EchoesOnPort
<1>3. ASSUME NEW m \in inbox, RecvMsg(m)
      PROVE  /\ raw_msg' = m /\ raw_numb' = m.num /\ idx' = PortOf[m.from]
             /\ peer' = [peer EXCEPT ![PortOf[m.from]] = m.from]
             /\ phase = "recv" /\ phase' = "reply" /\ inbox' \subseteq inbox
             /\ UNCHANGED <<events, echoes, client_database, stop_received, file,
                            toServer, replies, answers, unreachable>>
  BY <1>3 DEF RecvMsg, PeerAfter
<1>4. ASSUME NEW m \in inbox, RecvFails(m)
      PROVE  /\ idx' = PortOf[m.from] /\ idx' \in FailingPorts
             /\ phase = "recv" /\ phase' = "reply" /\ inbox' \subseteq inbox
             /\ UNCHANGED <<events, raw_msg, raw_numb, peer, echoes, client_database,
                            stop_received, file, toServer, replies, answers,
                            unreachable>>
  BY <1>4 DEF RecvFails
<1>5. ASSUME NEW e \in echoes, RecvEcho(e)
      PROVE  /\ idx' = e.port /\ raw_msg' = raw_msg /\ raw_numb' = e.num
             /\ peer' = [peer EXCEPT ![e.port] = OwnHost]
             /\ phase = "recv" /\ phase' = "reply" /\ echoes' \subseteq echoes
             /\ UNCHANGED <<events, client_database, stop_received, file, netVars>>
  BY <1>5 DEF RecvEcho, PeerAfter
<1>6. CASE \E m \in inbox : RecvMsg(m)
  BY <1>1, <1>3, <1>6
<1>7. CASE \E m \in inbox : RecvFails(m)
  BY <1>1, <1>4, <1>7
<1>8. CASE \E e \in echoes : RecvEcho(e)
  BY <1>2, <1>5, <1>8 DEF netVars
<1> QED BY <1>6, <1>7, <1>8

\* So what is said of the server survives whatever recvfrom does.
LEMMA RecvServes ==
  ASSUME SInv, UNCHANGED cliVars,
         \/ \E m \in inbox : RecvMsg(m) \/ RecvFails(m)
         \/ \E e \in echoes : RecvEcho(e)
  PROVE  SInv'
<1>1. /\ phase = "recv" /\ phase' = "reply" /\ inbox' \subseteq inbox
      /\ echoes' \subseteq echoes
      /\ UNCHANGED <<events, client_database, stop_received, file, toServer,
                     replies, answers, unreachable>>
      /\ idx' \in Ports /\ \E c \in Clients : PortOf[c] = idx'
  BY RecvMoves
<1>2. \/ /\ raw_msg' \in Msg /\ raw_numb' = raw_msg'.num
         /\ idx' = PortOf[raw_msg'.from]
         /\ peer' = [peer EXCEPT ![idx'] = raw_msg'.from]
      \/ /\ idx' \in FailingPorts /\ raw_msg' = raw_msg /\ raw_numb' \in Nat
         /\ peer' = [peer EXCEPT ![idx'] = OwnHost]
      \/ idx' \in FailingPorts /\ UNCHANGED <<raw_msg, raw_numb, peer>>
  BY RecvMoves
<1>3. /\ peer \in [Ports -> Clients \cup OwnHosts]
      /\ raw_msg \in Msg \cup {None} /\ raw_numb \in Nat
  BY DEF SInv, TypeOK, SrvTypeOK
<1>4. OwnHost \in OwnHosts /\ OwnHost \notin Clients /\ None \notin Msg
  BY ServerAssumption DEF OwnHosts
<1>5. raw_msg' \in Msg => raw_msg'.from \in Clients /\ raw_msg'.num \in Nat
  BY MsgFields
<1>6. /\ peer' \in [Ports -> Clients \cup OwnHosts]
      /\ raw_msg' \in Msg \cup {None} /\ raw_numb' \in Nat
  <2>1. CASE raw_msg' \in Msg /\ raw_numb' = raw_msg'.num
             /\ peer' = [peer EXCEPT ![idx'] = raw_msg'.from]
    BY <1>1, <1>3, <1>5, <2>1
  <2>2. CASE raw_msg' = raw_msg /\ raw_numb' \in Nat
             /\ peer' = [peer EXCEPT ![idx'] = OwnHost]
    BY <1>1, <1>3, <1>4, <2>2
  <2>3. CASE UNCHANGED <<raw_msg, raw_numb, peer>>
    BY <1>3, <2>3
  <2> QED BY <1>2, <2>1, <2>2, <2>3
<1>7. TypeOK'
  <2>1. NetTypeOK' /\ CliTypeOK'
    BY <1>1 DEF SInv, TypeOK, NetTypeOK, cliVars, CliTypeOK
  <2>2. SrvTypeOK'
    BY <1>1, <1>6 DEF SInv, TypeOK, SrvTypeOK
  <2> QED BY <2>1, <2>2 DEF TypeOK
<1>8. PeersOnTheirPort' /\ HandlerOnPort'
  <2>1. \A p \in Ports : peer[p] \in Clients => PortOf[peer[p]] = p /\ raw_msg # None
    BY DEF SInv, PeersOnTheirPort
  <2>2. CASE /\ raw_msg' \in Msg /\ idx' = PortOf[raw_msg'.from]
             /\ peer' = [peer EXCEPT ![idx'] = raw_msg'.from]
    <3>1. peer'[idx'] = raw_msg'.from /\ \A p \in Ports \ {idx'} : peer'[p] = peer[p]
      BY <1>1, <1>3, <2>2
    <3> QED
      BY <1>1, <1>4, <1>5, <2>1, <2>2, <3>1 DEF PeersOnTheirPort, HandlerOnPort
  <2>3. CASE /\ idx' \in FailingPorts /\ raw_msg' = raw_msg
             /\ peer' = [peer EXCEPT ![idx'] = OwnHost]
    <3>1. peer'[idx'] = OwnHost /\ \A p \in Ports \ {idx'} : peer'[p] = peer[p]
      BY <1>1, <1>3, <2>3
    <3> QED BY <1>1, <1>4, <2>1, <2>3, <3>1 DEF PeersOnTheirPort, HandlerOnPort
  <2>4. CASE idx' \in FailingPorts /\ UNCHANGED <<raw_msg, peer>>
    BY <1>1, <2>1, <2>4 DEF PeersOnTheirPort, HandlerOnPort
  <2> QED BY <1>2, <2>2, <2>3, <2>4
<1>9. EchoesOnPort' /\ NoNumberRecorded'
  BY <1>1 DEF SInv, EchoesOnPort, NoNumberRecorded
<1>10. BufferWritten'
  <2>1. CASE /\ raw_msg' \in Msg /\ idx' = PortOf[raw_msg'.from]
             /\ peer' = [peer EXCEPT ![idx'] = raw_msg'.from]
    <3>1. peer'[idx'] = raw_msg'.from
      BY <1>1, <1>3, <2>1
    <3>2. Record(idx, raw_msg)' = Line(raw_msg')
      BY <1>5, <2>1, <3>1 DEF Record, Line, AddressOf
    <3>3. Line(raw_msg)' = Line(raw_msg')
      BY DEF Line
    <3> QED BY <1>1, <3>2, <3>3 DEF BufferWritten
  <2>2. CASE raw_msg' = raw_msg
    BY <1>1, <2>2 DEF SInv, BufferWritten, Written, Line
  <2> QED BY <1>2, <2>1, <2>2
<1>11. RecordsFromPort' /\ StopIsRemembered' /\ WrongAddressRepeats'
  BY <1>1 DEF SInv, RecordsFromPort, StopIsRemembered, StopWritten,
              WrongAddressRepeats, Written
<1> QED BY <1>7, <1>8, <1>9, <1>10, <1>11 DEF SInv

\* No message is old.
LEMMA NothingIsOld ==
  ASSUME SInv, NEW key, NEW n
  PROVE  ~IfOldMsg(key, n)
BY DEF SInv, NoNumberRecorded, IfOldMsg, Entry

\* So every message that is answered is also written.
LEMMA ReplyMoves ==
  ASSUME SInv, Reply
  PROVE  /\ phase = "reply" /\ phase' = "write"
         /\ \E new : /\ client_database' \subseteq client_database \cup {new}
                     /\ new = [ip |-> AddressOf(peer[idx]), port |-> idx,
                               recv_msg_numb |-> {}]
         /\ \/ /\ peer[idx] \in Clients /\ echoes' = echoes
               /\ replies' = replies \cup {[to |-> peer[idx], num |-> raw_numb]}
            \/ /\ peer[idx] \notin Clients /\ replies' = replies
               /\ echoes' \subseteq echoes \cup {[port |-> idx, num |-> raw_numb]}
         /\ UNCHANGED <<events, idx, raw_numb, raw_msg, peer, stop_received, file,
                        toServer, inbox, answers, unreachable>>
BY NothingIsOld DEF Reply, TempClient, SendMsgNumber

LEMMA ReplyServes ==
  ASSUME SInv, Reply, UNCHANGED cliVars
  PROVE  SInv'
<1>1. PICK new :
      /\ phase = "reply" /\ phase' = "write"
      /\ client_database' \subseteq client_database \cup {new}
      /\ new = [ip |-> AddressOf(peer[idx]), port |-> idx, recv_msg_numb |-> {}]
      /\ \/ /\ peer[idx] \in Clients /\ echoes' = echoes
            /\ replies' = replies \cup {[to |-> peer[idx], num |-> raw_numb]}
         \/ /\ peer[idx] \notin Clients /\ replies' = replies
            /\ echoes' \subseteq echoes \cup {[port |-> idx, num |-> raw_numb]}
      /\ UNCHANGED <<events, idx, raw_numb, raw_msg, peer, stop_received, file,
                     toServer, inbox, answers, unreachable>>
  BY ReplyMoves
<1>2. /\ raw_numb \in Nat /\ idx \in Ports /\ AddressOf(peer[idx]) \in Hosts
      /\ peer[idx] \notin Clients => idx \in FailingPorts
      /\ \E c \in Clients : PortOf[c] = idx
  BY <1>1, HandlerRuns, AddressOfPeer
<1>3. TypeOK'
  <2>1. new \in Keys
    BY <1>1, <1>2 DEF Keys
  <2>2. replies' \subseteq [to : Clients, num : Nat]
    BY <1>1, <1>2 DEF SInv, TypeOK, NetTypeOK
  <2>3. echoes' \subseteq [port : Ports, num : Nat]
    BY <1>1, <1>2 DEF SInv, TypeOK, SrvTypeOK
  <2>4. NetTypeOK' /\ CliTypeOK'
    BY <1>1, <2>2 DEF SInv, TypeOK, NetTypeOK, cliVars, CliTypeOK
  <2>5. SrvTypeOK'
    BY <1>1, <2>1, <2>3 DEF SInv, TypeOK, SrvTypeOK
  <2> QED BY <2>4, <2>5 DEF TypeOK
<1>4. PeersOnTheirPort' /\ HandlerOnPort' /\ NoNumberRecorded'
  BY <1>1 DEF SInv, PeersOnTheirPort, HandlerOnPort, NoNumberRecorded
<1>5. StopIsRemembered' /\ RecordsFromPort'
  BY <1>1 DEF SInv, StopIsRemembered, StopWritten, RecordsFromPort
<1>6. EchoesOnPort'
  <2>1. \A e \in echoes' : e \in echoes \/ (e.port = idx /\ peer[idx] \notin Clients)
    BY <1>1
  <2> QED BY <1>2, <2>1 DEF SInv, EchoesOnPort
<1>7. BufferWritten' /\ WrongAddressRepeats'
  BY <1>1 DEF SInv, BufferWritten, WrongAddressRepeats, Written, Record, Line
<1> QED BY <1>3, <1>4, <1>5, <1>6, <1>7 DEF SInv

\* After WriteMsg the file holds the handler's record besides what it held, and
\* stop_received decides where the server goes.
LEMMA WriteMoves ==
  ASSUME SInv, WriteMsg
  PROVE  /\ phase = "write" /\ phase' \in {"recv", "closed", "wait"}
         /\ phase' = "closed" => stop_received'
         /\ phase' = "wait" => ~stop_received'
         /\ events' = events \ {idx}
         /\ stop_received' = (stop_received \/ IsStop(raw_msg))
         /\ UNCHANGED <<idx, raw_numb, raw_msg, peer, echoes, client_database,
                        netVars>>
         /\ file' \in [Records -> 0 .. MaxCopies]
         /\ \A q \in Records :
              file'[q] > 0 <=> file[q] > 0 \/ q = Record(idx, raw_msg)
<1>1. file' = [file EXCEPT ![Record(idx, raw_msg)] =
                 IF @ < MaxCopies THEN @ + 1 ELSE @]
  BY DEF WriteMsg
<1>2. Record(idx, raw_msg) \in Records
  BY HandlerRuns DEF WriteMsg
<1>3. file \in [Records -> 0 .. MaxCopies]
  BY DEF SInv, TypeOK, SrvTypeOK
<1>4. /\ file' \in [Records -> 0 .. MaxCopies]
      /\ \A q \in Records :
           file'[q] > 0 <=> file[q] > 0 \/ q = Record(idx, raw_msg)
  <2> DEFINE rec == Record(idx, raw_msg)
  <2> HIDE DEF rec
  <2>1. file' = [file EXCEPT ![rec] = IF @ < MaxCopies THEN @ + 1 ELSE @]
    BY <1>1 DEF rec
  <2>2. rec \in Records
    BY <1>2 DEF rec
  <2>3. /\ file' \in [Records -> 0 .. MaxCopies]
        /\ \A q \in Records : file'[q] > 0 <=> file[q] > 0 \/ q = rec
    BY <1>3, <2>1, <2>2, ServerAssumption
  <2> QED BY <2>3 DEF rec
<1> QED BY <1>4 DEF WriteMsg, NextEvent, StopAfter

LEMMA WriteServes ==
  ASSUME SInv, WriteMsg, UNCHANGED cliVars
  PROVE  SInv'
<1>1. /\ phase = "write" /\ phase' \in {"recv", "closed", "wait"}
      /\ phase' = "closed" => stop_received'
      /\ phase' = "wait" => ~stop_received'
      /\ events' = events \ {idx}
      /\ stop_received' = (stop_received \/ IsStop(raw_msg))
      /\ UNCHANGED <<idx, raw_numb, raw_msg, peer, echoes, client_database, netVars>>
      /\ file' \in [Records -> 0 .. MaxCopies]
  BY WriteMoves
<1>2. \A q \in Records : file'[q] > 0 <=> file[q] > 0 \/ q = Record(idx, raw_msg)
  BY WriteMoves
<1> DEFINE rec == Record(idx, raw_msg)
<1>3. /\ \E c \in Clients : PortOf[c] = idx
      /\ peer[idx] \in Clients \cup OwnHosts /\ raw_msg \in Msg \cup {None}
      /\ \/ peer[idx] \in Clients /\ PortOf[peer[idx]] = idx
         \/ peer[idx] \notin Clients /\ idx \in FailingPorts
      /\ rec \in Records /\ rec.msg = raw_msg /\ rec.port = idx
      /\ rec.ip = AddressOf(peer[idx])
  BY <1>1, HandlerRuns
<1>4. TypeOK'
  BY <1>1
     DEF SInv, TypeOK, netVars, NetTypeOK, SrvTypeOK, cliVars, CliTypeOK, IsStop
<1>5. PeersOnTheirPort' /\ HandlerOnPort' /\ EchoesOnPort' /\ NoNumberRecorded'
  BY <1>1 DEF SInv, PeersOnTheirPort, HandlerOnPort, EchoesOnPort, NoNumberRecorded
<1>6. RecordsFromPort'
  <2>1. \E c \in Clients : PortOf[c] = rec.port /\ (HostOf[c] = rec.ip \/ UnderOwnAddress(rec))
    <3>1. CASE peer[idx] \in Clients /\ PortOf[peer[idx]] = idx
      BY <1>3, <3>1, AddressOfPeer
    <3>2. CASE peer[idx] \notin Clients /\ idx \in FailingPorts
      BY <1>3, <3>2, AddressOfPeer DEF UnderOwnAddress
    <3> QED BY <1>3, <3>1, <3>2
  <2> HIDE DEF rec
  <2>2. \A q \in Records : file'[q] > 0 => file[q] > 0 \/ q = rec
    BY <1>2 DEF rec
  <2> QED BY <2>1, <2>2 DEF SInv, RecordsFromPort
<1>8. BufferWritten' /\ WrongAddressRepeats'
  <2>1. raw_msg # None => Written(raw_msg)'
    <3>1. ASSUME raw_msg # None PROVE Line(raw_msg) \in Records
      BY <1>3, <3>1, LineIsRecord
    <3>2. raw_msg # None => Written(raw_msg) \/ rec = Line(raw_msg)
      BY DEF SInv, BufferWritten
    <3>3. raw_msg # None => file'[Line(raw_msg)] > 0
      BY <1>2, <3>1, <3>2 DEF Written
    <3> QED BY <1>1, <3>3 DEF Written, Line
  <2>2. BufferWritten'
    BY <1>1, <2>1 DEF BufferWritten, Written, Line
  <2>3. ASSUME NEW q \in Records, file'[q] > 0, q.msg # None
        PROVE  file'[Line(q.msg)] > 0
    <3>1. CASE q = rec
      <4>1. raw_msg # None /\ raw_msg' = raw_msg /\ q.msg = raw_msg
        BY <1>1, <1>3, <2>3, <3>1
      <4>2. file'[Line(raw_msg)] > 0
        BY <2>1, <4>1 DEF Written, Line
      <4> QED BY <4>1, <4>2
    <3>2. CASE file[q] > 0
      <4>1. q.msg \in Msg /\ Line(q.msg) \in Records
        BY <2>3, LineIsRecord DEF Records
      <4>2. file[Line(q.msg)] > 0
        BY <1>1, <2>3, <3>2 DEF SInv, WrongAddressRepeats, Written
      <4> QED BY <1>2, <4>1, <4>2
    <3> QED BY <1>2, <2>3, <3>1, <3>2
  <2> QED BY <2>2, <2>3 DEF WrongAddressRepeats, Written, Line
<1>7. StopIsRemembered'
  <2>1. StopWritten' <=> StopWritten \/ IsStop(raw_msg)
    BY <1>2, <1>3 DEF StopWritten, IsStop
  <2>2. stop_received' <=> StopWritten'
    BY <1>1, <2>1 DEF SInv, StopIsRemembered
  <2> QED BY <1>1, <2>2 DEF StopIsRemembered
<1> QED BY <1>4, <1>5, <1>6, <1>7, <1>8 DEF SInv

\* Initially nothing is under way, received or written.
LEMMA InitServes ==
  ASSUME Init
  PROVE  SInv /\ NothingBeforeStart
<1> USE DEF Init, NetInit, CliInit, SrvInit
<1>1. NetTypeOK
  BY DEF NetTypeOK
<1>2. CliTypeOK
  BY NetworkAssumption DEF CliTypeOK, LineNumbers
<1>3. SrvTypeOK
  BY NothingInEmptyFile DEF SrvTypeOK, OwnHosts
<1>6. BufferWritten /\ WrongAddressRepeats
  BY DEF BufferWritten, WrongAddressRepeats
<1>4. PeersOnTheirPort /\ HandlerOnPort /\ EchoesOnPort /\ NoNumberRecorded
  BY ServerAssumption
     DEF PeersOnTheirPort, HandlerOnPort, EchoesOnPort, NoNumberRecorded, OwnHosts
<1>5. StopIsRemembered /\ RecordsFromPort /\ NothingBeforeStart
  BY NothingInEmptyFile
     DEF StopIsRemembered, RecordsFromPort, NothingBeforeStart
<1> QED BY <1>1, <1>2, <1>3, <1>4, <1>5, <1>6 DEF SInv, TypeOK

\* Every step keeps what is said of the server.
LEMMA NextServes ==
  ASSUME SInv, [Next]_vars
  PROVE  SInv'
<1>1. CASE UNCHANGED srvVars /\ (NetTypeOK /\ CliTypeOK)'
  BY <1>1, ServerFrame DEF SInv, TypeOK
<1>2. ASSUME NEW c \in Clients, ClientStep(c), UNCHANGED srvVars PROVE SInv'
  BY <1>1, <1>2, ClientTypes DEF SInv, TypeOK
<1>3. CASE ServerStep /\ UNCHANGED cliVars
  BY <1>3, WaitServes, RecvServes, ReplyServes, WriteServes DEF ServerStep
<1>4. CASE Network /\ UNCHANGED <<cliVars, srvVars>>
  <2>1. NetTypeOK' /\ CliTypeOK'
    BY <1>4, NetworkMoves DEF SInv, TypeOK, cliVars, CliTypeOK
  <2> QED BY <1>1, <1>4, <2>1
<1>5. CASE UNCHANGED vars
  <2>1. NetTypeOK' /\ CliTypeOK'
    BY <1>5 DEF SInv, TypeOK, vars, netVars, cliVars, NetTypeOK, CliTypeOK
  <2> QED BY <1>1, <1>5, <2>1 DEF vars
<1> QED BY <1>2, <1>3, <1>4, <1>5 DEF Next

\* A server that never ran has never written: it is started once.
LEMMA NothingBeforeStartKept ==
  ASSUME SInv, NothingBeforeStart, [Next]_vars
  PROVE  NothingBeforeStart'
<1>1. CASE UNCHANGED srvVars
  BY <1>1, ServerFrame
<1>2. CASE ServerStep
  <2>1. CASE Start \/ StartFails \/ EpollWait
    BY <2>1, WaitMoves DEF NothingBeforeStart
  <2>2. CASE phase' \in {"reply", "write", "recv", "closed", "wait"}
    BY <2>2 DEF NothingBeforeStart
  <2> QED
    BY <1>2, <2>1, <2>2, RecvMoves, ReplyMoves, WriteMoves DEF ServerStep
<1> QED BY <1>1, <1>2 DEF Next, vars

-----------------------------------------------------------------------------
(***************************************************************************)
(* HInv: buffer, address and port belong to one datagram, as long as the   *)
(* address is a client's.  Only a failing recvfrom needs OneBufferOnePort  *)
(* for that.                                                               *)
(***************************************************************************)

\* So where the handler answers a client it is the sender of its message, and
\* the record is that of this message.
LEMMA HandlerFacts ==
  ASSUME SInv, HInv, phase \in {"reply", "write"}, peer[idx] \in Clients
  PROVE  /\ raw_msg \in Msg /\ idx = PortOf[raw_msg.from] /\ peer[idx] = raw_msg.from
         /\ [from |-> peer[idx], num |-> raw_numb] = raw_msg
         /\ Record(idx, raw_msg) = Line(raw_msg)
<1>1. raw_msg \in Msg /\ idx = PortOf[raw_msg.from]
  BY HandlerRuns DEF HInv, HandlerMatchesBuffer
<1>2. peer[idx] = raw_msg.from /\ raw_numb = raw_msg.num
  BY <1>1, ServerAssumption DEF HInv, BufferMatchesPeer
<1> QED
  BY <1>1, <1>2, MsgFields DEF Record, Line, AddressOf

\* And where it does not, the record is that of no message.
LEMMA OwnRecord ==
  ASSUME SInv, phase \in {"reply", "write"}, peer[idx] \notin Clients
  PROVE  /\ UnderOwnAddress(Record(idx, raw_msg))
         /\ \A m \in Msg : Record(idx, raw_msg) # Line(m)
<1>1. /\ idx \in FailingPorts /\ Record(idx, raw_msg).port = idx
      /\ Record(idx, raw_msg).ip \in OwnHosts
  BY HandlerRuns, AddressOfPeer
<1> QED BY <1>1, LineIsRecord DEF UnderOwnAddress

\* The stale buffer of a failed receive is used with the address of the failing
\* port.  They belong together because all clients use that port.
LEMMA RecvMatches ==
  ASSUME SInv, HInv, OneBufferOnePort,
         \/ \E m \in inbox : RecvMsg(m) \/ RecvFails(m)
         \/ \E e \in echoes : RecvEcho(e)
  PROVE  HInv'
<1>1. /\ phase' = "reply" /\ file' = file
      /\ idx' \in Ports /\ \E c \in Clients : PortOf[c] = idx'
  BY RecvMoves
<1>2. /\ peer \in [Ports -> Clients \cup OwnHosts]
      /\ raw_msg \in Msg \cup {None}
      /\ OwnHost \notin Clients /\ None \notin Msg
  BY ServerAssumption DEF SInv, TypeOK, SrvTypeOK, OwnHosts
<1>3. RecordNamesSender'
  BY <1>1 DEF HInv, RecordNamesSender
<1>4. CASE /\ raw_msg' \in Msg /\ raw_numb' = raw_msg'.num
           /\ idx' = PortOf[raw_msg'.from]
           /\ peer' = [peer EXCEPT ![idx'] = raw_msg'.from]
  <2>1. peer'[idx'] = raw_msg'.from
    BY <1>1, <1>2, <1>4
  <2>2. BufferMatchesPeer' /\ HandlerMatchesBuffer'
    BY <1>4, <2>1 DEF BufferMatchesPeer, HandlerMatchesBuffer
  <2> QED BY <1>3, <2>2 DEF HInv
<1>5. ASSUME raw_msg # None, idx' \in FailingPorts
      PROVE  idx' = PortOf[raw_msg.from]
  <2>1. raw_msg.from \in Clients
    BY <1>2, <1>5, MsgFields
  <2> QED BY <1>1, <1>5, <2>1 DEF OneBufferOnePort
<1>6. CASE /\ idx' \in FailingPorts /\ raw_msg' = raw_msg
           /\ peer' = [peer EXCEPT ![idx'] = OwnHost]
  <2>1. peer'[idx'] = OwnHost
    BY <1>1, <1>2, <1>6
  <2>2. BufferMatchesPeer' /\ HandlerMatchesBuffer'
    BY <1>2, <1>5, <1>6, <2>1 DEF BufferMatchesPeer, HandlerMatchesBuffer
  <2> QED BY <1>3, <2>2 DEF HInv
<1>7. CASE idx' \in FailingPorts /\ UNCHANGED <<raw_msg, raw_numb, peer>>
  <2>1. BufferMatchesPeer'
    BY <1>7 DEF HInv, BufferMatchesPeer
  <2>2. HandlerMatchesBuffer'
    <3>1. peer[idx'] \in Clients => raw_msg # None
      BY <1>1 DEF SInv, PeersOnTheirPort
    <3> QED BY <1>5, <1>7, <3>1 DEF HandlerMatchesBuffer
  <2> QED BY <1>3, <2>1, <2>2 DEF HInv
<1> QED BY <1>4, <1>6, <1>7, RecvMoves

\* Every step keeps buffer, address and port together.
LEMMA NextMatches ==
  ASSUME SInv, HInv, OneBufferOnePort, [Next]_vars
  PROVE  HInv'
<1>1. CASE UNCHANGED srvVars
  BY <1>1, ServerFrame
<1>2. CASE Start \/ StartFails \/ EpollWait
  <2>1. /\ phase' \in {"wait", "failed", "recv"}
        /\ file' # file => file' = EmptyFile
        /\ UNCHANGED <<idx, raw_numb, raw_msg, peer>>
    BY <1>2, WaitMoves
  <2>2. RecordNamesSender'
    <3>1. ASSUME NEW q \in Records, file'[q] > 0 PROVE file[q] > 0
      BY <2>1, <3>1, NothingInEmptyFile
    <3> QED BY <3>1 DEF HInv, RecordNamesSender
  <2> QED
    BY <2>1, <2>2 DEF HInv, BufferMatchesPeer, HandlerMatchesBuffer
<1>3. CASE Reply
  <2>1. phase = "reply" /\ UNCHANGED <<idx, raw_numb, raw_msg, peer, file>>
    BY <1>3, ReplyMoves
  <2> QED
    BY <2>1
       DEF HInv, BufferMatchesPeer, HandlerMatchesBuffer, RecordNamesSender
<1>4. CASE WriteMsg
  <2>1. /\ phase = "write" /\ phase' \in {"recv", "closed", "wait"}
        /\ UNCHANGED <<idx, raw_numb, raw_msg, peer>>
    BY <1>4, WriteMoves
  <2>2. RecordNamesSender'
    <3>1. \/ UnderOwnAddress(Record(idx, raw_msg))
          \/ /\ Record(idx, raw_msg).msg # None
             /\ Record(idx, raw_msg) = Line(Record(idx, raw_msg).msg)
      BY <2>1, HandlerFacts, OwnRecord, HandlerRuns, ServerAssumption
    <3>2. \A q \in Records :
            file'[q] > 0 <=> file[q] > 0 \/ q = Record(idx, raw_msg)
      BY <1>4, WriteMoves
    <3>3. /\ \A q \in Records : UnderOwnAddress(q)' <=> UnderOwnAddress(q)
          /\ \A q \in Records : Line(q.msg)' = Line(q.msg)
      BY DEF UnderOwnAddress, Line
    <3> QED BY <3>1, <3>2, <3>3 DEF HInv, RecordNamesSender
  <2> QED
    BY <2>1, <2>2 DEF HInv, BufferMatchesPeer, HandlerMatchesBuffer
<1> QED
  BY <1>1, <1>2, <1>3, <1>4, RecvMatches DEF Next, ServerStep, vars

-----------------------------------------------------------------------------
(***************************************************************************)
(* AInv: acknowledgements and drops are true of this server or of those    *)
(* before it.  What those had accepted, the set before, does not change    *)
(* while one server runs.                                                  *)
(***************************************************************************)

\* What has been accepted, now or before.
Held(before) == {m \in Msg : Accepted(m)} \cup before

\* Whatever is struck out was named by a filled slot of the buffer, or is 0.
LEMMA StruckOut ==
  ASSUME CliTypeOK, NEW c \in Clients, NEW buffer, StrikeOut(c, buffer),
         NEW m \in Msg, Dropped(m)', ~Dropped(m)
  PROVE  m.from = c /\ \E i \in 1 .. Slots : buffer[i] = m.num
<1>1. datagrams' = [datagrams EXCEPT ![c] = MissedMsgs(datagrams[c], buffer)]
  BY DEF StrikeOut
<1>2. m.from = c
  BY <1>1, MsgFields DEF Dropped, CliTypeOK
<1>3. m.num \in datagrams[c] /\ m.num \notin MissedMsgs(datagrams[c], buffer)
  BY <1>1, <1>2 DEF Dropped, CliTypeOK
<1> QED BY <1>2, <1>3 DEF MissedMsgs

\* Only RecvResponse and RecvError drop messages: the first drops what a true
\* reply names, the second number 0.
LEMMA ClientAcks ==
  ASSUME NEW before, SInv, AInv(before),
         NEW c \in Clients, ClientStep(c), UNCHANGED srvVars
  PROVE  AInv(before)'
<1>1. /\ \A m \in Msg : Accepted(m)' <=> Accepted(m)
      /\ phase' = phase /\ CliTypeOK
  BY ServerFrame DEF srvVars, SInv, TypeOK
<1>2. OldFile(before)'
  BY <1>1 DEF AInv, OldFile
<1>3. replies' = replies /\ answers' \subseteq answers
  BY DEF ClientStep, SendMsg, RecvResponse, RecvError, RecvTimeout, netVars
<1>4. RepliesAreTrue(before)'
  BY <1>1, <1>3 DEF AInv, RepliesAreTrue
<1>5. ASSUME NEW m \in Msg, Dropped(m)', m.num # 0
      PROVE  Accepted(m) \/ m \in before
  <2>1. CASE Dropped(m)
    BY <1>5, <2>1 DEF AInv, DropsAreTrue
  <2>2. ASSUME NEW r \in answers, RecvResponse(c, r), ~Dropped(m)
        PROVE  Accepted(m) \/ m \in before
    <3>1. r.to = c /\ StrikeOut(c, Response(<<r.num>>))
      BY <2>2 DEF RecvResponse, QueuedFor
    <3>2. m.from = c /\ m.num = r.num
      BY <1>1, <1>5, <2>2, <3>1, StruckOut, ResponseSlots
    <3>3. m = [from |-> r.to, num |-> r.num]
      BY <3>1, <3>2, MsgFields
    <3> QED BY <3>3 DEF AInv, RepliesAreTrue
  <2>3. ASSUME RecvError(c), ~Dropped(m) PROVE FALSE
    <3>1. StrikeOut(c, Response(<<>>))
      BY <2>3 DEF RecvError
    <3> QED BY <1>1, <1>5, <2>3, <3>1, StruckOut, ResponseSlots
  <2>4. CASE SendMsg(c) \/ RecvTimeout(c)
    <3>1. Dropped(m)
      BY <1>5, <2>4 DEF SendMsg, RecvTimeout, Dropped
    <3> QED BY <2>1, <3>1
  <2> QED BY <2>1, <2>2, <2>3, <2>4 DEF ClientStep
<1>6. DropsAreTrue(before)'
  BY <1>1, <1>5 DEF DropsAreTrue
<1> QED BY <1>2, <1>4, <1>6 DEF AInv

\* A step that leaves the clients alone, sends nothing, and accepts again or
\* keeps among those before whatever was accepted.
LEMMA AcksFrame ==
  ASSUME NEW before, AInv(before), UNCHANGED cliVars,
         (replies \cup answers)' \subseteq replies \cup answers,
         \A m \in Msg : Accepted(m) => Accepted(m)' \/ m \in before,
         OldFile(before)'
  PROVE  AInv(before)'
<1>1. RepliesAreTrue(before)'
  BY DEF AInv, RepliesAreTrue
<1>2. DropsAreTrue(before)'
  BY DEF AInv, DropsAreTrue, cliVars, Dropped
<1> QED BY <1>1, <1>2 DEF AInv

\* Start forgets what is in the file, which is true of the servers before.
LEMMA WaitAcks ==
  ASSUME NEW before, SInv, AInv(before), Start \/ StartFails \/ EpollWait,
         UNCHANGED cliVars
  PROVE  AInv(before)'
<1>1. /\ phase \in {"off", "wait"} /\ phase' \in {"wait", "failed", "recv"}
      /\ file' # file => phase = "off" /\ file' = EmptyFile
      /\ replies' = replies /\ answers' = answers
  BY WaitMoves DEF netVars
<1>2. ASSUME NEW m \in Msg, Accepted(m) PROVE Accepted(m)' \/ m \in before
  <2>1. CASE file' = file
    BY <1>1, <1>2, <2>1 DEF Accepted, Written
  <2>2. CASE phase = "off"
    BY <1>2, <2>2 DEF AInv, OldFile
  <2> QED BY <1>1, <2>1, <2>2
<1>3. OldFile(before)'
  BY <1>1 DEF OldFile
<1> QED BY <1>1, <1>2, <1>3, AcksFrame

\* Receiving says nothing to anyone.
LEMMA RecvAcks ==
  ASSUME NEW before, SInv, AInv(before), UNCHANGED cliVars,
         \/ \E m \in inbox : RecvMsg(m) \/ RecvFails(m)
         \/ \E e \in echoes : RecvEcho(e)
  PROVE  AInv(before)'
<1>1. /\ phase = "recv" /\ phase' = "reply" /\ file' = file
      /\ replies' = replies /\ answers' = answers
  BY RecvMoves
<1>2. \A k \in Msg : Accepted(k) => Accepted(k)'
  BY <1>1 DEF Accepted, Written
<1>3. OldFile(before)'
  BY <1>1 DEF OldFile
<1> QED BY <1>1, <1>2, <1>3, AcksFrame

\* From Reply to a client on its message is accepted: it is not an old one, so it
\* will be written, and that is what makes the reply true before the record is
\* there.
LEMMA ReplyAccepts ==
  ASSUME SInv, HInv, Reply
  PROVE  \A m \in Msg :
           Accepted(m)' <=> Accepted(m) \/ (peer[idx] \in Clients /\ m = raw_msg)
<1>1. /\ phase = "reply" /\ phase' = "write"
      /\ UNCHANGED <<idx, raw_msg, peer, file>>
  BY ReplyMoves
<1>2. \A m \in Msg : Accepted(m)' <=> Written(m) \/ Record(idx, raw_msg) = Line(m)
  BY <1>1 DEF Accepted, Written, Record, Line
<1>3. \A m \in Msg : Accepted(m) <=> Written(m)
  BY <1>1 DEF Accepted
<1>4. \A m \in Msg :
        Record(idx, raw_msg) = Line(m) <=> peer[idx] \in Clients /\ m = raw_msg
  <2>1. CASE peer[idx] \in Clients
    BY <1>1, <2>1, HandlerFacts DEF Line
  <2>2. CASE peer[idx] \notin Clients
    BY <1>1, <2>2, OwnRecord
  <2> QED BY <2>1, <2>2
<1> QED BY <1>2, <1>3, <1>4

LEMMA ReplyAcks ==
  ASSUME NEW before, SInv, HInv, AInv(before), Reply, UNCHANGED cliVars
  PROVE  AInv(before)'
<1>1. /\ phase = "reply" /\ phase' = "write" /\ answers' = answers
      /\ \/ replies' = replies
         \/ /\ peer[idx] \in Clients
            /\ replies' = replies \cup {[to |-> peer[idx], num |-> raw_numb]}
  BY ReplyMoves
<1>2. peer[idx] \in Clients =>
        raw_msg \in Msg /\ [from |-> peer[idx], num |-> raw_numb] = raw_msg
  BY <1>1, HandlerFacts
<1>3. \A m \in Msg :
        Accepted(m)' <=> Accepted(m) \/ (peer[idx] \in Clients /\ m = raw_msg)
  BY ReplyAccepts
<1>4. ASSUME NEW r \in (replies \cup answers)'
      PROVE  LET m == [from |-> r.to, num |-> r.num]
             IN  m \in Msg /\ (Accepted(m)' \/ m \in before)
  <2>1. CASE r \in replies \cup answers
    BY <1>3, <2>1 DEF AInv, RepliesAreTrue
  <2>2. CASE peer[idx] \in Clients /\ r = [to |-> peer[idx], num |-> raw_numb]
    <3> DEFINE m == [from |-> r.to, num |-> r.num]
    <3>1. m \in Msg /\ m = raw_msg
      BY <1>2, <2>2
    <3> HIDE DEF m
    <3>2. m \in Msg /\ Accepted(m)'
      BY <1>3, <2>2, <3>1
    <3> QED BY <3>2 DEF m
  <2> QED BY <1>1, <2>1, <2>2
<1>5. DropsAreTrue(before)' /\ OldFile(before)'
  BY <1>1, <1>3 DEF AInv, DropsAreTrue, OldFile, cliVars, Dropped
<1>6. RepliesAreTrue(before)'
  BY <1>4 DEF RepliesAreTrue
<1> QED BY <1>5, <1>6 DEF AInv

\* WriteMsg only makes true what Reply promised.
LEMMA WriteKeepsPromise ==
  ASSUME SInv, HInv, WriteMsg
  PROVE  \A m \in Msg : Accepted(m)' <=> Accepted(m)
<1> SUFFICES ASSUME NEW m \in Msg PROVE Accepted(m)' <=> Accepted(m)
  OBVIOUS
<1>1. phase = "write" /\ phase' # "write"
  BY WriteMoves
<1>2. Line(m) \in Records
  BY LineIsRecord
<1>3. file'[Line(m)] > 0 <=> file[Line(m)] > 0 \/ Line(m) = Record(idx, raw_msg)
  BY <1>2, WriteMoves
<1> QED BY <1>1, <1>3 DEF Accepted, Written, Line

LEMMA WriteAcks ==
  ASSUME NEW before, SInv, HInv, AInv(before), WriteMsg, UNCHANGED cliVars
  PROVE  AInv(before)'
<1>1. phase' # "off" /\ replies' = replies /\ answers' = answers
  BY WriteMoves DEF netVars
<1>2. \A m \in Msg : Accepted(m) => Accepted(m)'
  BY WriteKeepsPromise
<1>3. OldFile(before)'
  BY <1>1 DEF OldFile
<1> QED BY <1>1, <1>2, <1>3, AcksFrame

\* Every step keeps the acknowledgements true.
LEMMA NextAcks ==
  ASSUME NEW before, SInv, HInv, AInv(before), [Next]_vars
  PROVE  AInv(before)'
<1>1. CASE UNCHANGED <<cliVars, srvVars>>
           /\ (replies \cup answers)' \subseteq replies \cup answers
  <2>1. \A m \in Msg : Accepted(m) <=> Accepted(m)'
    BY <1>1, ServerFrame
  <2>2. OldFile(before)'
    BY <1>1, <2>1 DEF AInv, OldFile, srvVars
  <2> QED BY <1>1, <2>1, <2>2, AcksFrame
<1>2. ASSUME NEW c \in Clients, ClientStep(c), UNCHANGED srvVars
      PROVE  AInv(before)'
  BY <1>2, ClientAcks
<1>3. CASE ServerStep /\ UNCHANGED cliVars
  BY <1>3, WaitAcks, RecvAcks, ReplyAcks, WriteAcks DEF ServerStep
<1>4. CASE Network /\ UNCHANGED <<cliVars, srvVars>>
  BY <1>1, <1>4, NetworkMoves DEF SInv, TypeOK
<1>5. CASE UNCHANGED vars
  BY <1>1, <1>5 DEF vars, netVars
<1> QED BY <1>2, <1>3, <1>4, <1>5 DEF Next

-----------------------------------------------------------------------------
(***************************************************************************)
(* The theorems about the server alone, on whatever ports recvfrom fails.  *)
(***************************************************************************)

\* What is said of the server holds in every reachable state.
LEMMA ServerInvariance == Spec => [](SInv /\ NothingBeforeStart)
<1>1. Init => SInv /\ NothingBeforeStart
  BY InitServes
<1>2. SInv /\ NothingBeforeStart /\ [Next]_vars => (SInv /\ NothingBeforeStart)'
  BY NextServes, NothingBeforeStartKept
<1> QED BY <1>1, <1>2, PTL DEF Spec

\* The variables keep their types, also where recvfrom fails on a port before it
\* has received anything and the server answers itself.
THEOREM TypeCorrect == Spec => []TypeOK
<1>1. SInv => TypeOK
  BY DEF SInv
<1> QED BY <1>1, ServerInvariance, PTL

\* The port in front of a record in msg.txt is one that a client was given, and
\* the address that of such a client or, where recvfrom may fail on this port,
\* of the server's own host.
THEOREM RecordsAreFromPort == Spec => []RecordsFromPort
<1>1. SInv => RecordsFromPort
  BY DEF SInv
<1> QED BY <1>1, ServerInvariance, PTL

\* No message is in the file of a running server under a wrong address only, on
\* whatever ports recvfrom fails.
THEOREM NothingUnderWrongAddressOnly == Spec => []WrongAddressRepeats
<1>1. SInv => WrongAddressRepeats
  BY DEF SInv
<1> QED BY <1>1, ServerInvariance, PTL

\* The server closes after a "stop" and only then.
THEOREM StopIsHonoured == Spec => []StopHonoured
<1>1. SInv /\ NothingBeforeStart => StopHonoured
  <2> SUFFICES ASSUME SInv, NothingBeforeStart PROVE StopHonoured
    OBVIOUS
  <2>1. phase \in {"off", "failed"} => ~StopWritten
    BY NothingInEmptyFile DEF NothingBeforeStart, StopWritten
  <2> QED BY <2>1 DEF SInv, StopIsRemembered, StopHonoured
<1> QED BY <1>1, ServerInvariance, PTL

-----------------------------------------------------------------------------
(***************************************************************************)
(* The theorems about acknowledgements.                                    *)
(***************************************************************************)

\* Initially no client has dropped anything.
LEMMA InitAcks ==
  ASSUME Init, NEW before
  PROVE  HInv /\ AInv(before)
<1> USE DEF Init, NetInit, CliInit, SrvInit
<1>1. \A m \in Msg : ~Dropped(m) /\ ~Accepted(m)
  BY MsgFields, LineIsRecord, NothingInEmptyFile
     DEF Dropped, Accepted, Written
<1>2. RepliesAreTrue(before) /\ DropsAreTrue(before) /\ OldFile(before)
  BY <1>1 DEF RepliesAreTrue, DropsAreTrue, OldFile
<1>3. HInv
  BY NothingInEmptyFile
     DEF HInv, BufferMatchesPeer, HandlerMatchesBuffer, RecordNamesSender
<1> QED BY <1>2, <1>3 DEF AInv

\* The invariant holds for any number of clients, ports and messages, provided
\* that recvfrom never fails or one port is shared by all clients.
THEOREM Invariance ==
  ASSUME OneBufferOnePort
  PROVE  Spec => []IInv
<1>1. Init => IInv
  BY InitServes, InitAcks DEF IInv
<1>2. IInv /\ [Next]_vars => IInv'
  BY NextServes, NothingBeforeStartKept, NextMatches, NextAcks DEF IInv
<1> QED BY <1>1, <1>2, PTL DEF Spec

\* No late, repeated or stray reply makes a client drop a message, other than
\* number 0, that the server did not accept.
THEOREM NothingElseLost ==
  ASSUME OneBufferOnePort
  PROVE  Spec => []AckedWritten
<1>1. IInv => AckedWritten
  BY DEF IInv, AInv, DropsAreTrue, AckedWritten
<1> QED BY <1>1, Invariance, PTL

\* Every record in msg.txt that stands under the address of a client names the
\* client that sent it and its port; under an address of the server's own host
\* are records of ports on which recvfrom may fail.
THEOREM RecordsNameSenders ==
  ASSUME OneBufferOnePort
  PROVE  Spec => []RecordNamesSender
<1>1. IInv => RecordNamesSender
  BY DEF IInv, HInv
<1> QED BY <1>1, Invariance, PTL

-----------------------------------------------------------------------------
(***************************************************************************)
(* The counter of the client's loop.                                       *)
(***************************************************************************)

\* What is struck out of the list is added to the counter.
LEMMA StrikeOutCounts ==
  ASSUME CliTypeOK, CountsAgree, NEW c \in Clients, NEW buffer,
         StrikeOut(c, buffer)
  PROVE  CountsAgree'
<1> DEFINE list  == MissedMsgs(datagrams[c], buffer)
           count == sent_msgs[c] + Cardinality(datagrams[c]) - Cardinality(list)
<1>1. datagrams[c] \in SUBSET LineNumbers(c) /\ list \in SUBSET datagrams[c]
  BY DEF CliTypeOK, MissedMsgs
<1>2. Cardinality(list) \in Nat /\ Cardinality(datagrams[c]) \in Nat
  <2> HIDE DEF list
  <2> QED BY <1>1, ListFinite
<1>3. /\ pc \in [Clients -> {"send", "recv", "done"}]
      /\ sent_msgs \in [Clients -> Nat] /\ DOMAIN datagrams = Clients
  BY DEF CliTypeOK
<1>4. /\ datagrams' = [datagrams EXCEPT ![c] = list]
      /\ sent_msgs' = [sent_msgs EXCEPT ![c] = count]
      /\ LoopHead(c, list, count)
  BY DEF StrikeOut
<1> HIDE DEF list
<1>5. count + Cardinality(list) = Lines[c] /\ count \in Int
  BY <1>2, <1>3, NetworkAssumption DEF CountsAgree
<1> HIDE DEF count
<1>6. pc' = [pc EXCEPT ![c] = IF list # {} /\ count < AckLimit
                              THEN "send" ELSE "done"]
  BY <1>4 DEF LoopHead
<1>7. ASSUME NEW d \in Clients, d # c
      PROVE  /\ datagrams'[d] = datagrams[d] /\ sent_msgs'[d] = sent_msgs[d]
             /\ pc'[d] = pc[d]
  BY <1>3, <1>4, <1>6, <1>7
<1>8. /\ datagrams'[c] = list /\ sent_msgs'[c] = count
      /\ pc'[c] = "done" => list = {} \/ count >= AckLimit
  BY <1>3, <1>4, <1>5, <1>6, ClientAssumption
<1> QED BY <1>5, <1>7, <1>8 DEF CountsAgree

\* No other step changes the counter or the list.
LEMMA CountsKept ==
  ASSUME TypeOK, CountsAgree, [Next]_vars
  PROVE  CountsAgree'
<1> USE DEF TypeOK
<1>1. ASSUME NEW c \in Clients, ClientStep(c) PROVE CountsAgree'
  <2>1. CASE SendMsg(c)
    BY <2>1 DEF SendMsg, CountsAgree, CliTypeOK
  <2>2. CASE (\E r \in answers : RecvResponse(c, r)) \/ RecvError(c)
    BY <2>2, StrikeOutCounts DEF RecvResponse, RecvError
  <2>3. CASE RecvTimeout(c)
    <3>1. UNCHANGED <<datagrams, sent_msgs>> /\ LoopHead(c, datagrams[c], sent_msgs[c])
      BY <2>3 DEF RecvTimeout
    <3>2. sent_msgs[c] \in Nat
      BY DEF CliTypeOK
    <3> QED BY <3>1, <3>2, ClientAssumption DEF LoopHead, CountsAgree, CliTypeOK
  <2> QED BY <1>1, <2>1, <2>2, <2>3 DEF ClientStep
<1>2. CASE UNCHANGED cliVars
  BY <1>2 DEF cliVars, CountsAgree
<1> QED BY <1>1, <1>2 DEF Next, vars

\* The counter and the list never drift apart, and the loop ends for one of its
\* two reasons.
THEOREM CountersAgree == Spec => []CountsAgree
<1>1. Init => CountsAgree
  <2> SUFFICES ASSUME Init, NEW c \in Clients
               PROVE  /\ sent_msgs[c] + Cardinality(datagrams[c]) = Lines[c]
                      /\ pc[c] = "done" => datagrams[c] = {}
    BY DEF CountsAgree
  <2>1. datagrams[c] = LineNumbers(c) /\ sent_msgs[c] = 0
    BY DEF Init, CliInit
  <2>2. Lines[c] \in Nat /\ sent_msgs[c] + Cardinality(datagrams[c]) = Lines[c]
    BY <2>1, LinesCounted, NetworkAssumption
  <2>3. pc[c] = "done" => Lines[c] = 0
    BY DEF Init, CliInit
  <2>4. Lines[c] = 0 => datagrams[c] = {}
    BY <2>1 DEF LineNumbers
  <2> QED BY <2>2, <2>3, <2>4
<1>2. TypeOK /\ CountsAgree /\ [Next]_vars => CountsAgree'
  BY CountsKept
<1> QED BY <1>1, <1>2, TypeCorrect, PTL DEF Spec

\* Of the messages a client has dropped, all but one were accepted: the numbers
\* struck out, 0 aside, are mapped one to one to accepted messages.
LEMMA DroppedAreAccepted ==
  ASSUME TypeOK, AckedWritten, CountsAgree, NEW c \in Clients
  PROVE  LET A == {m \in Msg : m.from = c /\ Accepted(m)}
         IN  Cardinality(A) \in Nat /\ Cardinality(A) >= sent_msgs[c] - 1
<1> DEFINE N == LineNumbers(c)
           G == N \ datagrams[c]
           M == {m \in Msg : m.from = c}
           A == {m \in Msg : m.from = c /\ Accepted(m)}
           f == [n \in N |-> [from |-> c, num |-> n]]
           g == [n \in G \ {0} |-> [from |-> c, num |-> n]]
<1>1. Lines[c] \in Nat /\ sent_msgs[c] \in Nat /\ datagrams[c] \subseteq N
  BY NetworkAssumption DEF TypeOK, CliTypeOK
<1>2. IsFiniteSet(N) /\ Cardinality(N) = Lines[c]
  BY LinesCounted
<1>3. IsFiniteSet(G \ {0}) /\ Cardinality(G \ {0}) >= sent_msgs[c] - 1
  <2>1. IsFiniteSet(G) /\ Cardinality(G) = Cardinality(N) - Cardinality(datagrams[c])
    <3>1. N \cap datagrams[c] = datagrams[c]
      BY <1>1
    <3> HIDE DEF N
    <3>2. /\ IsFiniteSet(N \ datagrams[c])
          /\ Cardinality(N \ datagrams[c])
               = Cardinality(N) - Cardinality(N \cap datagrams[c])
      BY <1>2, FS_Difference, Zenon
    <3> QED BY <3>1, <3>2
  <2>2. Cardinality(datagrams[c]) \in Nat
    BY <1>1, <1>2, FS_Subset, FS_CardinalityType
  <2>3. Cardinality(G) = sent_msgs[c]
    BY <1>1, <1>2, <2>1, <2>2 DEF CountsAgree
  <2> HIDE DEF G
  <2>4. /\ IsFiniteSet(G \ {0})
        /\ Cardinality(G \ {0}) = IF 0 \in G THEN Cardinality(G) - 1
                                             ELSE Cardinality(G)
    BY <2>1, FS_RemoveElement, Zenon
  <2> QED BY <1>1, <2>3, <2>4
<1>4. IsFiniteSet(A)
  <2>1. f \in Surjection(N, M)
    <3>1. f \in [N -> M]
      BY MsgMade
    <3>2. ASSUME NEW m \in M PROVE \E n \in N : f[n] = m
      BY MsgFields
    <3> QED BY <3>1, <3>2 DEF Surjection
  <2>2. IsFiniteSet(M)
    BY <1>2, <2>1, FS_Surjection
  <2> QED BY <2>2, FS_Subset
<1>5. g \in Injection(G \ {0}, A)
  <2>1. ASSUME NEW n \in G \ {0} PROVE g[n] \in A
    <3>1. g[n] = [from |-> c, num |-> n] /\ g[n] \in Msg
      BY MsgMade
    <3>2. Dropped(g[n]) /\ g[n].num # 0
      BY <3>1 DEF Dropped
    <3> QED BY <3>1, <3>2 DEF AckedWritten
  <2>2. ASSUME NEW k \in G \ {0}, NEW n \in G \ {0}, g[k] = g[n] PROVE k = n
    BY <2>2
  <2> QED BY <2>1, <2>2 DEF Injection, IsInjective
<1>6. Cardinality(G \ {0}) <= Cardinality(A)
  BY <1>4, <1>5, FS_Injection
<1>7. Cardinality(A) \in Nat /\ Cardinality(G \ {0}) \in Nat
  BY <1>3, <1>4, FS_CardinalityType
<1> HIDE DEF A, G
<1>8. Cardinality(A) >= sent_msgs[c] - 1
  BY <1>1, <1>3, <1>6, <1>7
<1> QED BY <1>7, <1>8 DEF A

\* A client that stops with messages in its list has had at least AckLimit - 1
\* of its messages accepted.
THEOREM LeavingHasAReason ==
  ASSUME OneBufferOnePort
  PROVE  Spec => []LeavesForAReason
<1>1. TypeOK /\ AckedWritten /\ CountsAgree => LeavesForAReason
  <2> SUFFICES ASSUME TypeOK, AckedWritten, CountsAgree, NEW c \in Clients,
                      pc[c] = "done", datagrams[c] # {}
               PROVE  Cardinality({m \in Msg : m.from = c /\ Accepted(m)})
                        >= AckLimit - 1
    BY DEF LeavesForAReason
  <2> DEFINE A == {m \in Msg : m.from = c /\ Accepted(m)}
  <2>1. sent_msgs[c] \in Nat /\ sent_msgs[c] >= AckLimit
    BY DEF TypeOK, CliTypeOK, CountsAgree
  <2>2. Cardinality(A) \in Nat /\ Cardinality(A) >= sent_msgs[c] - 1
    BY DroppedAreAccepted
  <2> HIDE DEF A
  <2>3. Cardinality(A) >= AckLimit - 1
    BY <2>1, <2>2, ClientAssumption
  <2> QED BY <2>3 DEF A
<1> QED BY <1>1, TypeCorrect, NothingElseLost, CountersAgree, PTL

-----------------------------------------------------------------------------
(***************************************************************************)
(* The pair implements the acknowledged transfer.                          *)
(***************************************************************************)

\* A client step touches no list but its own, and only shortens that.
LEMMA ListShrinks ==
  ASSUME CliTypeOK, NEW c \in Clients, ClientStep(c)
  PROVE  \E S \in SUBSET datagrams[c] :
           datagrams' = [datagrams EXCEPT ![c] = @ \ S]
<1>1. ASSUME NEW buffer, StrikeOut(c, buffer)
      PROVE  \E S \in SUBSET datagrams[c] :
               datagrams' = [datagrams EXCEPT ![c] = @ \ S]
  <2>1. datagrams' = [datagrams EXCEPT ![c] = MissedMsgs(datagrams[c], buffer)]
    BY <1>1 DEF StrikeOut
  <2>2. MissedMsgs(datagrams[c], buffer) \subseteq datagrams[c]
    BY DEF MissedMsgs
  <2> WITNESS datagrams[c] \ MissedMsgs(datagrams[c], buffer) \in SUBSET datagrams[c]
  <2> QED BY <2>1, <2>2
<1>2. CASE UNCHANGED datagrams
  <2> WITNESS {} \in SUBSET datagrams[c]
  <2> QED BY <1>2 DEF CliTypeOK
<1> QED
  BY <1>1, <1>2 DEF ClientStep, SendMsg, RecvResponse, RecvError, RecvTimeout

\* A client step drops from one list what was accepted, or number 0.
LEMMA ClientDrops ==
  ASSUME NEW before, SInv, AInv(before), AInv(before)',
         NEW c \in Clients, ClientStep(c), UNCHANGED srvVars
  PROVE  /\ Held(before)' = Held(before)
         /\ \E S \in SUBSET datagrams[c] :
              /\ \A n \in S \ {0} : [from |-> c, num |-> n] \in Held(before)
              /\ datagrams' = [datagrams EXCEPT ![c] = @ \ S]
<1>1. \A m \in Msg : Accepted(m)' <=> Accepted(m)
  BY ServerFrame
<1>2. Held(before)' = Held(before)
  BY <1>1 DEF Held
<1>3. PICK S \in SUBSET datagrams[c] :
        datagrams' = [datagrams EXCEPT ![c] = @ \ S]
  BY ListShrinks DEF SInv, TypeOK
<1>4. ASSUME NEW n \in S \ {0} PROVE [from |-> c, num |-> n] \in Held(before)
  <2> DEFINE m == [from |-> c, num |-> n]
  <2>1. m \in Msg
    BY MsgMade DEF SInv, TypeOK, CliTypeOK
  <2>2. Dropped(m)' /\ m.num # 0
    BY <1>3 DEF Dropped, SInv, TypeOK, CliTypeOK
  <2> HIDE DEF m
  <2>3. Accepted(m) \/ m \in before
    BY <1>1, <2>1, <2>2 DEF AInv, DropsAreTrue
  <2>4. m \in Held(before)
    BY <2>1, <2>3 DEF Held
  <2> QED BY <2>4 DEF m
<1> QED BY <1>2, <1>3, <1>4

\* Of the server's steps, Reply to a client accepts the message in the buffer, and
\* no other changes what is held: Start truncates what is held from before.
LEMMA ServerHolds ==
  ASSUME NEW before, SInv, HInv, AInv(before), ServerStep
  PROVE  \/ Held(before)' = Held(before)
         \/ \E m \in Msg : Held(before)' = Held(before) \cup {m}
<1>1. CASE Start \/ StartFails \/ EpollWait
  <2>1. /\ phase \in {"off", "wait"} /\ phase' \in {"wait", "failed", "recv"}
        /\ file' # file => phase = "off" /\ file' = EmptyFile
    BY <1>1, WaitMoves
  <2>2. CASE file' = file
    <3>1. \A m \in Msg : Accepted(m)' <=> Accepted(m)
      BY <2>1, <2>2 DEF Accepted, Written
    <3> QED BY <3>1 DEF Held
  <2>3. CASE phase = "off" /\ file' = EmptyFile
    <3>1. ASSUME NEW m \in Msg PROVE ~Accepted(m)' /\ (Accepted(m) => m \in before)
      BY <2>1, <2>3, LineIsRecord, NothingInEmptyFile
         DEF Accepted, Written, Line, AInv, OldFile
    <3> QED BY <3>1 DEF Held
  <2> QED BY <2>1, <2>2, <2>3
<1>2. CASE \/ \E m \in inbox : RecvMsg(m) \/ RecvFails(m)
           \/ \E e \in echoes : RecvEcho(e)
  <2>1. phase = "recv" /\ phase' = "reply" /\ file' = file
    BY <1>2, RecvMoves
  <2>2. \A k \in Msg : Accepted(k)' <=> Accepted(k)
    BY <2>1 DEF Accepted, Written
  <2> QED BY <2>2 DEF Held
<1>3. CASE Reply
  <2>1. peer[idx] \in Clients => raw_msg \in Msg
    BY <1>3, HandlerFacts DEF Reply
  <2>2. \A m \in Msg :
          Accepted(m)' <=> Accepted(m) \/ (peer[idx] \in Clients /\ m = raw_msg)
    BY <1>3, ReplyAccepts
  <2>3. CASE peer[idx] \in Clients
    <3>1. Held(before)' = Held(before) \cup {raw_msg}
      BY <2>1, <2>2, <2>3 DEF Held
    <3> QED BY <2>1, <2>3, <3>1
  <2>4. CASE peer[idx] \notin Clients
    BY <2>2, <2>4 DEF Held
  <2> QED BY <2>3, <2>4
<1>4. CASE WriteMsg
  <2>1. \A m \in Msg : Accepted(m)' <=> Accepted(m)
    BY <1>4, WriteKeepsPromise
  <2> QED BY <2>1 DEF Held
<1> QED BY <1>1, <1>2, <1>3, <1>4 DEF ServerStep

\* So every step of the pair drops what is held, or accepts one message, or
\* leaves lists and accepted messages as they are.
LEMMA StepTransfers ==
  ASSUME NEW before, SInv, HInv, AInv(before), [Next]_vars
  PROVE  \/ /\ Held(before)' = Held(before)
            /\ \E c \in Clients : \E S \in SUBSET datagrams[c] :
                 /\ \A n \in S \ {0} : [from |-> c, num |-> n] \in Held(before)
                 /\ datagrams' = [datagrams EXCEPT ![c] = @ \ S]
         \/ /\ datagrams' = datagrams
            /\ \E m \in Msg : Held(before)' = Held(before) \cup {m}
         \/ datagrams' = datagrams /\ Held(before)' = Held(before)
<1>1. ASSUME NEW c \in Clients, ClientStep(c), UNCHANGED srvVars
      PROVE  /\ Held(before)' = Held(before)
             /\ \E S \in SUBSET datagrams[c] :
                  /\ \A n \in S \ {0} : [from |-> c, num |-> n] \in Held(before)
                  /\ datagrams' = [datagrams EXCEPT ![c] = @ \ S]
  <2>1. AInv(before)'
    BY <1>1, ClientAcks
  <2> QED BY <1>1, <2>1, ClientDrops
<1>2. CASE ServerStep /\ UNCHANGED cliVars
  <2>1. datagrams' = datagrams
    BY <1>2 DEF cliVars
  <2> QED BY <1>2, <2>1, ServerHolds
<1>3. CASE UNCHANGED <<cliVars, srvVars>>
  <2>1. \A m \in Msg : Accepted(m)' <=> Accepted(m)
    BY <1>3, ServerFrame
  <2>2. datagrams' = datagrams /\ Held(before)' = Held(before)
    BY <1>3, <2>1 DEF cliVars, Held
  <2> QED BY <2>2
<1> QED BY <1>1, <1>2, <1>3 DEF Next, vars

\* Every behaviour of the pair is one of the acknowledged transfer.
THEOREM Refinement ==
  ASSUME OneBufferOnePort
  PROVE  Spec => ImplementsTransfer
<1>1. Init => Transfer!Init
  <2> SUFFICES ASSUME Init PROVE Transfer!Init
    OBVIOUS
  <2>1. datagrams = [c \in Clients |-> 0 .. (Lines[c] - 1)]
    BY DEF Init, CliInit, LineNumbers
  <2>2. ASSUME NEW m \in Msg PROVE ~Accepted(m)
    BY LineIsRecord, NothingInEmptyFile DEF Init, SrvInit, Accepted, Written
  <2> QED BY <2>1, <2>2 DEF Transfer!Init
<1>2. IInv /\ [Next]_vars => [Transfer!Next]_(Transfer!vars)
  <2> SUFFICES ASSUME IInv, [Next]_vars
               PROVE  Transfer!Next \/ UNCHANGED Transfer!vars
    OBVIOUS
  <2> DEFINE accepted == {m \in Msg : Accepted(m)}
  <2>1. Held({}) = accepted /\ Held({})' = accepted'
    BY DEF Held
  <2>2. CASE \E c \in Clients : \E S \in SUBSET datagrams[c] :
               /\ accepted' = accepted
               /\ \A n \in S \ {0} : [from |-> c, num |-> n] \in accepted
               /\ datagrams' = [datagrams EXCEPT ![c] = @ \ S]
    BY <2>2 DEF Transfer!Next, Transfer!Drop
  <2>3. ASSUME NEW m \in Msg, datagrams' = datagrams,
               accepted' = accepted \cup {m}
        PROVE  Transfer!Next
    <3>1. Transfer!Accept(m.from, m.num)
      BY <2>3, MsgFields DEF Transfer!Accept, LineNumbers
    <3> QED BY <3>1, MsgFields DEF Transfer!Next, LineNumbers
  <2>4. CASE datagrams' = datagrams /\ accepted' = accepted
    BY <2>4 DEF Transfer!vars
  <2> HIDE DEF accepted
  <2>5. SInv /\ HInv /\ AInv({})
    BY DEF IInv
  <2> QED BY <2>1, <2>2, <2>3, <2>4, <2>5, StepTransfers
<1> QED
  BY <1>1, <1>2, Invariance, PTL DEF Spec, ImplementsTransfer, Transfer!Spec
=============================================================================
