------------------------------ MODULE UdpClient ------------------------------
(***************************************************************************)
(* The UDP client, windows_udp_client: one process per member of Clients.  *)
(*                                                                         *)
(* A client numbers the lines of its file from 0 and then loops: it sends  *)
(* every datagram it still holds, waits at most 100 ms for ONE reply, and  *)
(* drops from its list the message numbers it finds in the reply.  It      *)
(* leaves the loop when the list is empty or AckLimit numbers were dropped.*)
(*                                                                         *)
(* The reply is read into a buffer of Slots four-byte numbers that was     *)
(* cleared with zeros, and every slot is then taken for an acknowledged    *)
(* number, also those the reply did not fill.                              *)
(***************************************************************************)
EXTENDS UdpNetwork, Sequences

CONSTANTS
  AckLimit,   \* 20 in main.cpp: leave the loop after this many
  Slots       \* SERVER_DATAGRAM_SZ / 4: numbers in the receive buffer

ASSUME ClientAssumption ==
  /\ AckLimit \in Nat \ {0}
  /\ Slots \in Nat \ {0, 1}

VARIABLES
  pc,          \* where each client is in the loop of main
  datagrams,   \* message numbers not yet seen in a reply
  unsent,      \* those of them the current sending round has still to send
  sent_msgs    \* how many numbers replies have removed

cliVars == <<pc, datagrams, unsent, sent_msgs>>

CliTypeOK ==
  /\ pc \in [Clients -> {"send", "recv", "done"}]
  /\ datagrams \in [Clients -> SUBSET Nat]
  /\ unsent \in [Clients -> SUBSET Nat]
  /\ sent_msgs \in [Clients -> Nat]
  /\ \A c \in Clients :
       /\ datagrams[c] \subseteq LineNumbers(c)
       /\ unsent[c] \subseteq datagrams[c]

\* get_datagrams has read the file; the loop is entered if there is a message.
CliInit ==
  /\ datagrams = [c \in Clients |-> LineNumbers(c)]
  /\ unsent = datagrams
  /\ sent_msgs = [c \in Clients |-> 0]
  /\ pc = [c \in Clients |-> IF Lines[c] = 0 THEN "done" ELSE "send"]

-----------------------------------------------------------------------------
\* Mutant: the last number of the datagram is not copied.
ResponseShort(nums) == [i \in 1 .. Slots |-> IF i < Len(nums) THEN nums[i] ELSE 0]

\* The receive buffer after a datagram of the given numbers arrived in it.
Response(nums) == [i \in 1 .. Slots |-> IF i <= Len(nums) THEN nums[i] ELSE 0]

\* Mutant: a number acknowledges all the numbers below it.
MissedMsgsCumulative(list, buffer) ==
  {n \in list : \A i \in 1 .. Slots : n > buffer[i]}

\* What get_missed_msgs leaves of the list.
MissedMsgs(list, buffer) == {n \in list : \A i \in 1 .. Slots : buffer[i] # n}

\* Mutants: the loop is left one message early; a round sends the whole file.
LoopHeadEarly(c, list, count) ==
  IF list # {} /\ count + 1 < AckLimit
  THEN /\ pc' = [pc EXCEPT ![c] = "send"]
       /\ unsent' = [unsent EXCEPT ![c] = list]
  ELSE /\ pc' = [pc EXCEPT ![c] = "done"]
       /\ unsent' = [unsent EXCEPT ![c] = {}]
LoopHeadResendsAll(c, list, count) ==
  /\ pc' = [pc EXCEPT ![c] = IF list # {} /\ count < AckLimit
                             THEN "send" ELSE "done"]
  /\ unsent' = [unsent EXCEPT ![c] = LineNumbers(c)]

\* The test at the head of the loop, with the list and the counter it sees.
LoopHead(c, list, count) ==
  IF list # {} /\ count < AckLimit
  THEN /\ pc' = [pc EXCEPT ![c] = "send"]
       /\ unsent' = [unsent EXCEPT ![c] = list]
  ELSE /\ pc' = [pc EXCEPT ![c] = "done"]
       /\ unsent' = [unsent EXCEPT ![c] = {}]

\* Mutant: every reply counts for one message.
StrikeOutCountsReplies(c, buffer) ==
  LET list == MissedMsgs(datagrams[c], buffer)
  IN  /\ datagrams' = [datagrams EXCEPT ![c] = list]
      /\ sent_msgs' = [sent_msgs EXCEPT ![c] = @ + 1]
      /\ LoopHead(c, list, sent_msgs[c] + 1)

\* recv_response returned a non-zero value: strike out what the buffer holds.
StrikeOut(c, buffer) ==
  LET list  == MissedMsgs(datagrams[c], buffer)
      count == sent_msgs[c] + Cardinality(datagrams[c]) - Cardinality(list)
  IN  /\ datagrams' = [datagrams EXCEPT ![c] = list]
      /\ sent_msgs' = [sent_msgs EXCEPT ![c] = count]
      /\ LoopHead(c, list, count)

\* One iteration of the sending loop, in the order of the list.
SendMsg(c) ==
  /\ pc[c] = "send"
  /\ \E n \in unsent[c] :
       /\ \A k \in unsent[c] : n <= k
       /\ toServer' = toServer \cup {[from |-> c, num |-> n]}
       /\ unsent' = [unsent EXCEPT ![c] = @ \ {n}]
  /\ pc' = [pc EXCEPT ![c] = IF unsent'[c] = {} THEN "recv" ELSE "send"]
  /\ UNCHANGED <<datagrams, sent_msgs, inbox, replies, answers, unreachable>>

\* select reports data and recvfrom returns a reply.
RecvResponse(c, r) ==
  /\ pc[c] = "recv"
  /\ r \in QueuedFor(c)
  /\ answers' = answers \ {r}
  /\ StrikeOut(c, Response(<<r.num>>))
  /\ UNCHANGED <<toServer, inbox, replies, unreachable>>

\* recvfrom fails: -1 returned as an unsigned int is a non-zero value, and the
\* buffer holds nothing but the zeros it was cleared with.
RecvError(c) ==
  /\ pc[c] = "recv"
  /\ c \in unreachable
  /\ unreachable' = unreachable \ {c}
  /\ StrikeOut(c, Response(<<>>))
  /\ UNCHANGED <<toServer, inbox, replies, answers>>

\* select times out: nothing is struck out and the whole list is sent again.
RecvTimeout(c) ==
  /\ pc[c] = "recv"
  /\ QueuedFor(c) = {} /\ c \notin unreachable
  /\ LoopHead(c, datagrams[c], sent_msgs[c])
  /\ UNCHANGED <<datagrams, sent_msgs, netVars>>

ClientStep(c) ==
  \/ SendMsg(c)
  \/ \E r \in answers : RecvResponse(c, r)
  \/ RecvError(c)
  \/ RecvTimeout(c)
=============================================================================
