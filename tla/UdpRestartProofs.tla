-------------------------- MODULE UdpRestartProofs --------------------------
(***************************************************************************)
(* Proofs about the UDP pair whose server is killed, or has ended, and is  *)
(* started again, for every number of restarts.  The steps of the pair     *)
(* itself are those of UdpSystemProofs, with the messages that servers     *)
(* before this one had accepted for the set before.                        *)
(***************************************************************************)
EXTENDS UdpRestart, UdpSystemProofs

-----------------------------------------------------------------------------
(***************************************************************************)
(* The end of a process.                                                   *)
(***************************************************************************)

\* What is left of the file is a file, with no record that was not in it.
LEMMA FlushedIsPart ==
  ASSUME SInv, ProcessEnds
  PROVE  /\ file' \in [Records -> 0 .. MaxCopies]
         /\ \A q \in Records : file'[q] > 0 => file[q] > 0
<1>1. file \in [Records -> 0 .. MaxCopies]
  BY DEF SInv, TypeOK, SrvTypeOK
<1>2. file' \in Flushed
  BY DEF ProcessEnds
<1> DEFINE written == {r \in Records : file[r] > 0}
<1>3. PICK f \in [written -> 0 .. MaxCopies] :
        file' = [r \in Records |-> IF r \in written THEN f[r] ELSE 0]
  BY <1>2 DEF Flushed
<1>4. ASSUME NEW q \in Records
      PROVE  file'[q] \in 0 .. MaxCopies /\ (file'[q] > 0 => q \in written)
  <2> HIDE DEF written
  <2>1. 0 \in 0 .. MaxCopies
    BY ServerAssumption
  <2> QED BY <1>3, <2>1
<1> QED BY <1>3, <1>4

\* The next server has accepted nothing that this one had not.
LEMMA EndAccepts ==
  ASSUME SInv, ProcessEnds
  PROVE  \A m \in Msg : Accepted(m)' => Accepted(m)
<1> SUFFICES ASSUME NEW m \in Msg, Accepted(m)' PROVE Accepted(m)
  OBVIOUS
<1>1. phase' # "write"
  BY DEF ProcessEnds
<1>2. Line(m) \in Records /\ file'[Line(m)] > 0
  BY <1>1, LineIsRecord DEF Accepted, Written, Line
<1> QED BY <1>2, FlushedIsPart DEF Accepted, Written

\* The new process knows nothing of the old one's ports, buffer and "stop".
LEMMA EndServes ==
  ASSUME SInv, ProcessEnds
  PROVE  SInv'
<1>1. /\ phase' = "off" /\ events' = {} /\ idx' = None
      /\ raw_numb' = 0 /\ raw_msg' = None
      /\ peer' = [p \in Ports |-> AnyHost] /\ echoes' = {} /\ client_database' = {}
      /\ stop_received' = FALSE /\ inbox' = {}
      /\ UNCHANGED <<cliVars, toServer, replies, answers, unreachable>>
  BY DEF ProcessEnds
<1>2. NetTypeOK' /\ CliTypeOK'
  BY <1>1 DEF SInv, TypeOK, NetTypeOK, cliVars, CliTypeOK
<1>3. SrvTypeOK'
  BY <1>1, FlushedIsPart DEF SrvTypeOK, OwnHosts
<1>4. /\ PeersOnTheirPort' /\ HandlerOnPort' /\ EchoesOnPort' /\ BufferWritten'
      /\ NoNumberRecorded' /\ StopIsRemembered' /\ WrongAddressRepeats'
  BY <1>1, ServerAssumption
     DEF PeersOnTheirPort, HandlerOnPort, EchoesOnPort, BufferWritten,
         NoNumberRecorded, StopIsRemembered, WrongAddressRepeats, OwnHosts
<1>5. RecordsFromPort'
  BY FlushedIsPart DEF SInv, RecordsFromPort, UnderOwnAddress
<1> QED BY <1>2, <1>3, <1>4, <1>5 DEF SInv, TypeOK

\* Nothing is in the buffer, and what is left in the file names its sender.
LEMMA EndMatches ==
  ASSUME SInv, HInv, ProcessEnds
  PROVE  HInv'
<1>1. phase' = "off" /\ raw_msg' = None
  BY DEF ProcessEnds
<1>2. RecordNamesSender'
  BY FlushedIsPart DEF HInv, RecordNamesSender, UnderOwnAddress, Line
<1> QED BY <1>1, <1>2 DEF HInv, BufferMatchesPeer, HandlerMatchesBuffer

\* The acknowledgements of the server that is gone stay true of those before the
\* next.
LEMMA EndAcks ==
  ASSUME SInv, AInv(lost), ProcessEnds
  PROVE  AInv(lost)'
<1>1. /\ lost' = lost \cup {m \in Msg : Accepted(m)}
      /\ replies' = replies /\ answers' = answers /\ datagrams' = datagrams
  BY DEF ProcessEnds, cliVars
<1>2. RepliesAreTrue(lost)'
  BY <1>1 DEF AInv, RepliesAreTrue
<1>3. DropsAreTrue(lost)'
  BY <1>1 DEF AInv, DropsAreTrue, Dropped
<1>4. OldFile(lost)'
  BY <1>1, EndAccepts DEF OldFile
<1> QED BY <1>2, <1>3, <1>4 DEF AInv

-----------------------------------------------------------------------------
(***************************************************************************)
(* The theorems about the server alone, on whatever ports recvfrom fails.  *)
(***************************************************************************)

\* Types are kept by the end of a process as by every other step.
LEMMA TypesKept ==
  ASSUME RestartTypeOK, [NextR]_vars_r
  PROVE  RestartTypeOK'
<1>1. CASE ProcessEnds
  BY <1>1, RestartAssumption DEF RestartTypeOK, ProcessEnds
<1>2. CASE UNCHANGED restartVars
  BY <1>2 DEF RestartTypeOK, restartVars
<1> QED BY <1>1, <1>2 DEF NextR, vars_r

\* What the server relies on alone survives any number of restarts, on any number of
\* ports, those included on which recvfrom fails first of all.
THEOREM ServerInvarianceR == SpecR => [](RestartTypeOK /\ SInv)
<1>1. InitR => RestartTypeOK /\ SInv
  BY InitServes, RestartAssumption DEF InitR, RestartTypeOK, SInv
<1>2. RestartTypeOK /\ SInv /\ [NextR]_vars_r => (RestartTypeOK /\ SInv)'
  <2> SUFFICES ASSUME RestartTypeOK, SInv, [NextR]_vars_r PROVE RestartTypeOK' /\ SInv'
    OBVIOUS
  <2>1. SInv'
    BY NextServes, EndServes DEF NextR, vars_r
  <2> QED BY <2>1, TypesKept
<1> QED BY <1>1, <1>2, PTL DEF SpecR

\* However often the server is restarted, it closes for a "stop" of its own
\* file and does not wait when there is one.
THEOREM StopIsHonouredR == SpecR => []StopHonouredR
<1>1. SInv => StopHonouredR
  BY DEF SInv, StopIsRemembered, StopHonouredR
<1> QED BY <1>1, ServerInvarianceR, PTL

\* And the records in its file stand under a port that a client was given, and
\* under the address of such a client or, where recvfrom may fail on this port,
\* of the server's own host.
THEOREM RecordsAreFromPortR == SpecR => []RecordsFromPort
<1>1. SInv => RecordsFromPort
  BY DEF SInv
<1> QED BY <1>1, ServerInvarianceR, PTL

-----------------------------------------------------------------------------
(***************************************************************************)
(* The theorems about acknowledgements.                                    *)
(***************************************************************************)

\* The invariant holds through restarts, provided that recvfrom never
\* fails or one port is shared by all clients.
THEOREM InvarianceR ==
  ASSUME OneBufferOnePort
  PROVE  SpecR => []RInv
<1>1. InitR => RInv
  <2> SUFFICES ASSUME InitR PROVE RInv
    OBVIOUS
  <2>1. HInv /\ AInv(lost)
    BY InitAcks DEF InitR
  <2> QED BY <2>1, InitServes, RestartAssumption DEF InitR, RInv, RestartTypeOK, SInv
<1>2. RInv /\ [NextR]_vars_r => RInv'
  <2> SUFFICES ASSUME RInv, [NextR]_vars_r PROVE RInv'
    OBVIOUS
  <2>1. RestartTypeOK /\ SInv /\ HInv /\ AInv(lost)
    BY DEF RInv
  <2>2. CASE ProcessEnds
    <3>1. SInv' /\ HInv' /\ AInv(lost)'
      BY <2>1, <2>2, EndServes, EndMatches, EndAcks
    <3> QED BY <2>1, <3>1, TypesKept DEF RInv
  <2>3. CASE [Next]_vars /\ UNCHANGED restartVars
    <3>1. SInv' /\ HInv'
      BY <2>1, <2>3, NextServes, NextMatches
    <3>2. AInv(lost)'
      <4> PICK before : before = lost
        OBVIOUS
      <4>1. AInv(before)
        BY <2>1
      <4>2. AInv(before)'
        BY <2>1, <2>3, <4>1, NextAcks
      <4> QED
        BY <2>3, <4>2
           DEF restartVars, AInv, RepliesAreTrue, DropsAreTrue, OldFile
    <3> QED BY <2>1, <3>1, <3>2, TypesKept DEF RInv
  <2> QED BY <2>2, <2>3 DEF NextR, vars_r
<1> QED BY <1>1, <1>2, PTL DEF SpecR

\* Acknowledgements of servers that are gone make no client drop a message,
\* other than number 0, that no server had.
THEOREM NothingElseLostR ==
  ASSUME OneBufferOnePort
  PROVE  SpecR => []LossOnlyByRestart
<1>1. RInv => LossOnlyByRestart
  BY DEF RInv, AInv, DropsAreTrue, LossOnlyByRestart
<1> QED BY <1>1, InvarianceR, PTL

-----------------------------------------------------------------------------
(***************************************************************************)
(* The pair still implements the acknowledged transfer.                    *)
(***************************************************************************)

\* To the abstract receiver the end of a process is nothing: what it held is remembered.
LEMMA EndHolds ==
  ASSUME SInv, ProcessEnds
  PROVE  datagrams' = datagrams /\ Held(lost)' = Held(lost)
<1>1. lost' = lost \cup {m \in Msg : Accepted(m)} /\ datagrams' = datagrams
  BY DEF ProcessEnds, cliVars
<1>2. {m \in Msg : Accepted(m)}' \subseteq {m \in Msg : Accepted(m)}
  BY EndAccepts
<1> QED BY <1>1, <1>2 DEF Held

\* Every behaviour with restarts is one of the acknowledged transfer,
\* whose receiver has accepted what any of the servers had.
THEOREM RefinementR ==
  ASSUME OneBufferOnePort
  PROVE  SpecR => ImplementsTransferR
<1>1. InitR => TransferR!Init
  <2> SUFFICES ASSUME InitR PROVE TransferR!Init
    OBVIOUS
  <2>1. datagrams = [c \in Clients |-> 0 .. (Lines[c] - 1)]
    BY DEF InitR, Init, CliInit, LineNumbers
  <2>2. ASSUME NEW m \in Msg PROVE ~Accepted(m)
    BY LineIsRecord, NothingInEmptyFile
       DEF InitR, Init, SrvInit, Accepted, Written
  <2>3. lost = {}
    BY DEF InitR
  <2> QED BY <2>1, <2>2, <2>3 DEF TransferR!Init
<1>2. RInv /\ [NextR]_vars_r => [TransferR!Next]_(TransferR!vars)
  <2> SUFFICES ASSUME RInv, [NextR]_vars_r
               PROVE  TransferR!Next \/ UNCHANGED TransferR!vars
    OBVIOUS
  <2> DEFINE accepted == {m \in Msg : Accepted(m)} \cup lost
  <2>1. CASE ProcessEnds
    <3>1. datagrams' = datagrams /\ accepted' = accepted
      BY <2>1, EndHolds DEF RInv, Held
    <3> QED BY <3>1 DEF TransferR!vars
  <2>2. CASE [Next]_vars /\ UNCHANGED restartVars
    <3> PICK before : before = lost
      OBVIOUS
    <3>1. Held(before) = accepted /\ Held(before)' = accepted'
      BY <2>2 DEF Held, restartVars
    <3>2. CASE \E c \in Clients : \E S \in SUBSET datagrams[c] :
                 /\ accepted' = accepted
                 /\ \A n \in S \ {0} : [from |-> c, num |-> n] \in accepted
                 /\ datagrams' = [datagrams EXCEPT ![c] = @ \ S]
      BY <3>2 DEF TransferR!Next, TransferR!Drop
    <3>3. ASSUME NEW m \in Msg, datagrams' = datagrams,
                 accepted' = accepted \cup {m}
          PROVE  TransferR!Next
      <4>1. TransferR!Accept(m.from, m.num)
        BY <3>3, MsgFields DEF TransferR!Accept, LineNumbers
      <4> QED BY <4>1, MsgFields DEF TransferR!Next, LineNumbers
    <3>4. CASE datagrams' = datagrams /\ accepted' = accepted
      BY <3>4 DEF TransferR!vars
    <3> HIDE DEF accepted
    <3>5. SInv /\ HInv /\ AInv(before)
      BY DEF RInv
    <3> QED BY <2>2, <3>1, <3>2, <3>3, <3>4, <3>5, StepTransfers
  <2> QED BY <2>1, <2>2 DEF NextR, vars_r
<1> QED
  BY <1>1, <1>2, InvarianceR, PTL
     DEF SpecR, ImplementsTransferR, TransferR!Spec
=============================================================================
