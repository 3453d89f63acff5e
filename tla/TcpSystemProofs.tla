-------------------------- MODULE TcpSystemProofs --------------------------
(***************************************************************************)
(* Proofs about the TCP pair, for every number of clients and lines, every *)
(* cut of the stream, every buffer and table size and every limit.         *)
(***************************************************************************)
EXTENDS TcpSystem, SequenceTheorems, TLAPS

-----------------------------------------------------------------------------
(***************************************************************************)
(* The stream of a client and what one recv takes from it.                 *)
(***************************************************************************)

\* The stream is "put" and the messages; as many pieces as the messages have,
\* so many records are kept.
LEMMA StreamShape ==
  ASSUME NEW c \in Clients
  PROVE  /\ Lines[c] \in Nat /\ MsgSize(c) \in Nat /\ MsgSize(c) >= 2
         /\ Pieces(c) \in Nat /\ Pieces(c) >= 1
         /\ Pieces(c) - 1 <= MaxRecords
         /\ \A m \in Int : HeadOf(c, m) \in Int
<1>1. Lines[c] \in Nat /\ MsgSize(c) \in Nat /\ MsgSize(c) >= 2
  BY ConnectionAssumption DEF MsgSize
<1>2. Lines[c] * MsgSize(c) \in Nat /\ Lines[c] * MsgSize(c) <= MaxRecords
  BY <1>1, TcpServerAssumption
<1>3. \A m \in Int : HeadOf(c, m) \in Int
  BY <1>1 DEF HeadOf
<1> QED BY <1>1, <1>2, <1>3, TcpServerAssumption DEF Pieces

\* The later a message, the later its first piece.
LEMMA HeadsInOrder ==
  ASSUME NEW c \in Clients, NEW m \in Int, NEW n \in Int,
         HeadOf(c, m) < HeadOf(c, n)
  PROVE  m < n
<1> DEFINE s == MsgSize(c)
<1>1. s \in Nat /\ 2 + m * s < 2 + n * s
  BY StreamShape DEF HeadOf
<1> HIDE DEF s
<1>2. (m - n) * s = m * s - n * s
  BY <1>1
<1>3. m - n \in Nat => (m - n) * s \in Nat
  BY <1>1
<1> QED BY <1>1, <1>2, <1>3

\* A piece is the first one of one message at most.
LEMMA OneHead ==
  ASSUME NEW c \in Clients, NEW k, NEW m \in Heads(c, k), NEW n \in Heads(c, k)
  PROVE  m = n
<1> DEFINE s == MsgSize(c)
<1>1. /\ m \in Int /\ n \in Int /\ s \in Nat /\ s >= 2
      /\ 2 + m * s = 2 + n * s
  BY StreamShape DEF Heads, HeadOf
<1> HIDE DEF s
<1>2. (m - n) * s = 0
  BY <1>1
<1>3. m - n > 0 => (m - n) * s > 0
  BY <1>1
<1>4. n - m > 0 => (n - m) * s > 0
  BY <1>1
<1>5. (n - m) * s = 0
  BY <1>1
<1> QED BY <1>1, <1>2, <1>3, <1>4, <1>5

\* The types of what is under way for one client.
LEMMA StreamTypes ==
  ASSUME NetTypeOK, NEW c \in Clients
  PROVE  /\ sent[c] \in Nat /\ arrived[c] \in Nat /\ taken[c] \in Nat
         /\ taken[c] <= arrived[c] /\ arrived[c] <= sent[c]
         /\ sent[c] <= Pieces(c)
         /\ oks[c] \in Nat /\ Available(c) \in Nat
         /\ Available(c) = arrived[c] - taken[c]
BY DEF NetTypeOK, Available

\* A recv that finds something takes a piece at least and no more than is
\* there.
LEMMA TakenIsThere ==
  ASSUME NetTypeOK, NEW c \in Clients, Available(c) > 0
  PROVE  TakenBy(c) \in 1 .. Available(c)
BY StreamTypes, TcpServerAssumption DEF TakenBy, Received

\* The number of a record is Junk, or that of the message that begins with the
\* next piece.  When "stop" was read it is the message that says so, or Junk
\* where the stream was cut behind these letters.
LEMMA NumberOfRecord ==
  ASSUME NetTypeOK, NEW c \in Clients, NEW n \in Numbers(c)
  PROVE  /\ n \in Nat \cup {Junk}
         /\ n # Junk => n \in Nat /\ HeadOf(c, n) = taken[c] + 1
         /\ IsStop(c) =>
              \/ n # Junk /\ n \in Stops[c]
              \/ n = Junk /\ <<taken[c] + 1, TakenBy(c)>> \in StopCuts[c]
<1>1. n \in Heads(c, taken[c] + 1) \/ n = Junk
  BY DEF Numbers, Whole, LongWhole
<1>2. ASSUME NEW m \in Heads(c, taken[c] + 1)
      PROVE  m \in Nat /\ HeadOf(c, m) = taken[c] + 1
  BY StreamShape DEF Heads
<1>3. ASSUME IsStop(c)
      PROVE  \/ n # Junk /\ n \in Stops[c]
             \/ n = Junk /\ <<taken[c] + 1, TakenBy(c)>> \in StopCuts[c]
  <2>1. TakenBy(c) = Received(c) /\ TakenBy(c) \in Nat /\ TakenBy(c) <= BufPieces
    BY <1>3, StreamTypes, TcpServerAssumption DEF TakenBy, Received
  <2>2. CASE Whole(c) \cap Stops[c] # {}
    <3>1. n \in Whole(c) /\ Whole(c) \subseteq Heads(c, taken[c] + 1)
      BY <2>1, <2>2 DEF Numbers, Whole
    <3>2. PICK m \in Whole(c) : m \in Stops[c]
      BY <2>2
    <3>3. m = n
      BY <3>1, <3>2, OneHead
    <3> QED BY <1>2, <3>1, <3>2, <3>3 DEF Junk
  <2>3. CASE Whole(c) \cap Stops[c] = {}
    <3>1. <<taken[c] + 1, Received(c)>> \in StopCuts[c]
      BY <1>3, <2>3 DEF IsStop
    <3>2. Whole(c) = {}
      BY <3>1, TcpServerAssumption DEF Whole
    <3>3. LongWhole(c) = {}
      BY <2>1, StreamShape, TcpServerAssumption DEF LongWhole
    <3> QED BY <2>1, <3>1, <3>2, <3>3 DEF Numbers
  <2> QED BY <2>2, <2>3
<1> QED BY <1>1, <1>2, <1>3 DEF Junk

-----------------------------------------------------------------------------
(***************************************************************************)
(* The table of sockets, the queue of accept and the file.                 *)
(***************************************************************************)

\* The places of a sequence after Append.
LEMMA Appended ==
  ASSUME NEW S, NEW s \in Seq(S), NEW e \in S
  PROVE  /\ Append(s, e) \in Seq(S)
         /\ DOMAIN s = 1 .. Len(s) /\ Len(s) \in Nat
         /\ DOMAIN Append(s, e) = 1 .. Len(s) + 1
         /\ Len(Append(s, e)) = Len(s) + 1
         /\ \A i \in DOMAIN s : Append(s, e)[i] = s[i]
         /\ Append(s, e)[Len(s) + 1] = e
BY AppendProperties, LenProperties

\* The entries of the table and of the queue.
LEMMA TableTypes ==
  ASSUME NetTypeOK, SrvTypeOK
  PROVE  /\ DOMAIN plugged = 1 .. Len(plugged) /\ Len(plugged) \in Nat
         /\ ready \subseteq DOMAIN plugged
         /\ \A i \in DOMAIN plugged :
              /\ plugged[i] \in Entry /\ plugged[i].client \in Clients
              /\ plugged[i].connected \in BOOLEAN /\ plugged[i].open \in BOOLEAN
         /\ DOMAIN pending = 1 .. Len(pending) /\ Len(pending) \in Nat
         /\ \A k \in DOMAIN pending : pending[k] \in Clients
<1>1. /\ DOMAIN plugged = 1 .. Len(plugged) /\ Len(plugged) \in Nat
      /\ \A i \in DOMAIN plugged : plugged[i] \in Entry
  BY LenProperties, ElementOfSeq DEF SrvTypeOK
<1>2. /\ DOMAIN pending = 1 .. Len(pending) /\ Len(pending) \in Nat
      /\ \A k \in DOMAIN pending : pending[k] \in Clients
  BY LenProperties, ElementOfSeq DEF NetTypeOK
<1> QED BY <1>1, <1>2 DEF Entry, SrvTypeOK

\* The records of a client in the file.
LEMMA FileTypes ==
  ASSUME SrvTypeOK, NEW c \in Clients
  PROVE  /\ file[c] \in Seq([num : Nat \cup {Junk}, name : Clients])
         /\ DOMAIN file[c] = 1 .. Len(file[c]) /\ Len(file[c]) \in Nat
         /\ \A k \in DOMAIN file[c] :
              file[c][k].num \in Nat \cup {Junk} /\ file[c][k].name \in Clients
         /\ \A k \in Recorded(c) : k \in DOMAIN file[c] /\ file[c][k].num \in Nat
<1>1. file[c] \in Seq([num : Nat \cup {Junk}, name : Clients])
  BY DEF SrvTypeOK
<1>2. /\ DOMAIN file[c] = 1 .. Len(file[c]) /\ Len(file[c]) \in Nat
      /\ \A k \in DOMAIN file[c] :
           file[c][k] \in [num : Nat \cup {Junk}, name : Clients]
  BY <1>1, LenProperties, ElementOfSeq
<1> QED BY <1>1, <1>2 DEF Recorded

\* Whatever becomes of an entry, the table keeps its entries and their clients.
LEMMA EntryChanged ==
  ASSUME NetTypeOK, SrvTypeOK, NEW i \in DOMAIN plugged,
         \/ plugged' = [plugged EXCEPT ![i].open = FALSE]
         \/ plugged' = [plugged EXCEPT ![i].connected = TRUE]
         \/ plugged' = [j \in DOMAIN plugged |-> [plugged[j] EXCEPT !.open = FALSE]]
         \/ plugged' = plugged
  PROVE  /\ plugged' \in Seq(Entry)
         /\ DOMAIN plugged' = DOMAIN plugged /\ Len(plugged') = Len(plugged)
         /\ \A j \in DOMAIN plugged :
              /\ plugged'[j].client = plugged[j].client
              /\ plugged'[j].open => plugged[j].open
              /\ j # i => plugged'[j].connected = plugged[j].connected
<1>1. /\ DOMAIN plugged = 1 .. Len(plugged) /\ Len(plugged) \in Nat
      /\ \A j \in DOMAIN plugged : plugged[j] \in Entry
  BY TableTypes
<1>2. /\ plugged' \in [1 .. Len(plugged) -> Entry]
      /\ \A j \in DOMAIN plugged :
           /\ plugged'[j].client = plugged[j].client
           /\ plugged'[j].open => plugged[j].open
           /\ j # i => plugged'[j].connected = plugged[j].connected
  <2> USE <1>1 DEF Entry
  <2>1. CASE plugged' = [plugged EXCEPT ![i].open = FALSE]
    BY <2>1
  <2>2. CASE plugged' = [plugged EXCEPT ![i].connected = TRUE]
    BY <2>2
  <2>3. CASE plugged' = [j \in DOMAIN plugged |-> [plugged[j] EXCEPT !.open = FALSE]]
    BY <2>3
  <2>4. CASE plugged' = plugged
    <3>1. plugged \in [1 .. Len(plugged) -> Entry]
      BY SeqDef, LenProperties DEF SrvTypeOK
    <3> QED BY <2>4, <3>1
  <2> QED BY <2>1, <2>2, <2>3, <2>4
<1>3. plugged' \in Seq(Entry)
  BY <1>1, <1>2, SeqDef
<1>4. DOMAIN plugged' = 1 .. Len(plugged)
  BY <1>2
<1>5. Len(plugged') = Len(plugged)
  BY <1>1, <1>3, <1>4, LenProperties
<1> QED BY <1>1, <1>2, <1>3, <1>4, <1>5

\* A record is added behind the others, or, at the bound, the file is as it was.
LEMMA Written ==
  ASSUME SrvTypeOK, NEW c \in Clients,
         NEW r \in [num : Nat \cup {Junk}, name : Clients], Write(c, r)
  PROVE  /\ file' \in [Clients -> Seq([num : Nat \cup {Junk}, name : Clients])]
         /\ \A d \in Clients \ {c} : file'[d] = file[d]
         /\ \/ Len(file[c]) >= MaxRecords /\ file' = file
            \/ /\ file'[c] = Append(file[c], r)
               /\ Len(file'[c]) = Len(file[c]) + 1
               /\ DOMAIN file'[c] = 1 .. Len(file[c]) + 1
               /\ DOMAIN file'[c] = DOMAIN file[c] \cup {Len(file[c]) + 1}
               /\ \A k \in DOMAIN file[c] : file'[c][k] = file[c][k]
               /\ file'[c][Len(file[c]) + 1] = r
<1> DEFINE R == [num : Nat \cup {Junk}, name : Clients]
<1>1. file \in [Clients -> Seq(R)] /\ file[c] \in Seq(R)
  BY DEF SrvTypeOK
<1> HIDE DEF R
<1>2. CASE Len(file[c]) < MaxRecords
  <2>1. file' = [file EXCEPT ![c] = Append(@, r)]
    BY <1>2 DEF Write
  <2>2. /\ Append(file[c], r) \in Seq(R)
        /\ DOMAIN file[c] = 1 .. Len(file[c]) /\ Len(file[c]) \in Nat
        /\ DOMAIN Append(file[c], r) = 1 .. Len(file[c]) + 1
        /\ Len(Append(file[c], r)) = Len(file[c]) + 1
        /\ \A i \in DOMAIN file[c] : Append(file[c], r)[i] = file[c][i]
        /\ Append(file[c], r)[Len(file[c]) + 1] = r
    BY <1>1, Appended DEF R
  <2>3. file'[c] = Append(file[c], r) /\ file' \in [Clients -> Seq(R)]
    BY <1>1, <2>1, <2>2
  <2>4. \A d \in Clients \ {c} : file'[d] = file[d]
    BY <1>1, <2>1
  <2>5. DOMAIN file'[c] = DOMAIN file[c] \cup {Len(file[c]) + 1}
    BY <2>2, <2>3
  <2>6. /\ file'[c] = Append(file[c], r)
        /\ Len(file'[c]) = Len(file[c]) + 1
        /\ DOMAIN file'[c] = 1 .. Len(file[c]) + 1
        /\ \A k \in DOMAIN file[c] : file'[c][k] = file[c][k]
        /\ file'[c][Len(file[c]) + 1] = r
    BY <2>2, <2>3
  <2> QED BY <2>3, <2>4, <2>5, <2>6 DEF R
<1>3. CASE ~(Len(file[c]) < MaxRecords)
  <2>1. file' = file
    BY <1>1, <1>3 DEF Write
  <2>2. Len(file[c]) >= MaxRecords
    BY <1>1, <1>3, LenProperties, TcpServerAssumption
  <2> QED BY <1>1, <2>1, <2>2 DEF R
<1> QED BY <1>2, <1>3

-----------------------------------------------------------------------------
(***************************************************************************)
(* Steps of the clients and of the network.                                *)
(***************************************************************************)

\* What the invariant says of the file and the table alone survives the steps
\* of all others.
LEMMA FileFrame ==
  ASSUME IInv, UNCHANGED <<srvVars, taken>>
  PROVE  /\ SrvTypeOK' /\ OthersUntouched' /\ PeerIsLast' /\ RecordedWereTaken'
         /\ InOrderOnce' /\ NamesArePlaced' /\ StopClosesAll'
<1>1. UNCHANGED <<phase, canWork, plugged, ready, peer, file>>
  BY DEF srvVars
<1>2. SrvTypeOK' /\ OthersUntouched' /\ PeerIsLast'
  BY <1>1 DEF IInv, TypeOK, SrvTypeOK, OthersUntouched, PeerIsLast
<1>3. RecordedWereTaken' /\ InOrderOnce' /\ NamesArePlaced' /\ StopClosesAll'
  BY <1>1 DEF IInv, RecordedWereTaken, InOrderOnce, NamesArePlaced,
              StopClosesAll, SaidStop, Recorded
<1> QED BY <1>2, <1>3

\* A socket that had something to receive or was at its end remains so.
LEMMA SocketFrame ==
  ASSUME IInv, UNCHANGED <<srvVars, taken, hungup>>, ended \subseteq ended',
         \A c \in Clients : /\ Readable(c) => Readable(c)'
                            /\ Drained(c) => Drained(c)'
  PROVE  EntriesAgree' /\ ReadyForAReason' /\ WedgedForAReason'
<1>1. UNCHANGED <<phase, canWork, plugged, ready, peer, file>>
  BY DEF srvVars
<1>2. ready \subseteq DOMAIN plugged
      /\ \A i \in DOMAIN plugged : plugged[i].client \in Clients
  BY TableTypes DEF IInv, TypeOK
<1>3. EntriesAgree'
  BY <1>1, <1>2 DEF IInv, EntriesAgree
<1>4. ReadyForAReason'
  BY <1>1, <1>2 DEF IInv, ReadyForAReason
<1>5. WedgedForAReason'
  BY <1>1, <1>2 DEF IInv, WedgedForAReason
<1> QED BY <1>3, <1>4, <1>5

\* The same, for a step that leaves the streams and both ends alone.
LEMMA StreamFrame ==
  ASSUME IInv, UNCHANGED <<srvVars, sent, arrived, taken, ended, hungup>>
  PROVE  EntriesAgree' /\ ReadyForAReason' /\ WedgedForAReason'
<1>1. \A c \in Clients : /\ Readable(c) => Readable(c)'
                         /\ Drained(c) => Drained(c)'
  BY DEF Readable, Drained, AtEnd, Available
<1> QED BY <1>1, SocketFrame

\* Who has connected stays connected.
LEMMA SeatsFrame ==
  ASSUME IInv, UNCHANGED <<srvVars, pending, hungup>>,
         \A c \in Clients : pc'[c] = "connect" => pc[c] = "connect"
  PROVE  SeatedOnce'
<1>1. UNCHANGED plugged
  BY DEF srvVars
<1>2. /\ \A i \in DOMAIN plugged : plugged[i].client \in Clients
      /\ \A k \in DOMAIN pending : pending[k] \in Clients
      /\ hungup \subseteq Clients
  BY TableTypes DEF IInv, TypeOK, NetTypeOK
<1> QED BY <1>1, <1>2 DEF IInv, SeatedOnce

\* A new connection waits behind the others; it is its client's only one.
LEMMA ConnectKeeps ==
  ASSUME IInv, NEW c \in Clients, Connect(c, Listening), UNCHANGED srvVars
  PROVE  IInv'
<1>1. /\ pc[c] = "connect" /\ pc' = [pc EXCEPT ![c] = "send"]
      /\ pending' = Append(pending, c)
      /\ UNCHANGED <<tries, acked, bad, filled, sent, arrived, taken, oks,
                     ended, hungup>>
  BY DEF Connect
<1>2. /\ pending' \in Seq(Clients) /\ DOMAIN pending = 1 .. Len(pending)
      /\ Len(pending) \in Nat /\ DOMAIN pending' = 1 .. Len(pending) + 1
      /\ \A k \in DOMAIN pending : pending'[k] = pending[k]
      /\ pending'[Len(pending) + 1] = c
  <2>1. pending \in Seq(Clients)
    BY DEF IInv, TypeOK, NetTypeOK
  <2> QED BY <1>1, <2>1, Appended
<1>3. NetTypeOK' /\ CliTypeOK'
  BY <1>1, <1>2 DEF IInv, TypeOK, NetTypeOK, CliTypeOK
<1>4. StagesAgree' /\ AcksCountRecords'
  BY <1>1 DEF IInv, TypeOK, CliTypeOK, StagesAgree, AcksCountRecords, srvVars
<1>5. SeatedOnce'
  <2>1. \A d \in Clients : pc'[d] = "connect" => pc[d] = "connect" /\ d # c
    BY <1>1 DEF IInv, TypeOK, CliTypeOK
  <2>2. plugged' = plugged /\ hungup' = hungup
    BY <1>1 DEF srvVars
  <2>3. /\ \A k \in DOMAIN pending : pending[k] # c /\ pending[k] \in Clients
        /\ \A i \in DOMAIN plugged : plugged[i].client # c
                                     /\ plugged[i].client \in Clients
        /\ c \notin hungup /\ hungup \subseteq Clients
    BY <1>1, TableTypes DEF IInv, SeatedOnce, TypeOK, NetTypeOK
  <2>4. ASSUME NEW k \in DOMAIN pending', NEW l \in DOMAIN pending',
               pending'[k] = pending'[l]
        PROVE  k = l
    BY <1>2, <2>3, <2>4 DEF IInv, SeatedOnce
  <2>5. ASSUME NEW k \in DOMAIN pending'
        PROVE  /\ pc'[pending'[k]] # "connect" /\ pending'[k] \notin hungup
               /\ \A i \in DOMAIN plugged : plugged[i].client # pending'[k]
    BY <1>1, <1>2, <2>1, <2>3 DEF IInv, SeatedOnce
  <2>6. /\ \A i \in DOMAIN plugged : pc'[plugged[i].client] # "connect"
        /\ \A d \in hungup : pc'[d] # "connect"
    BY <2>1, <2>3 DEF IInv, SeatedOnce
  <2> QED BY <2>2, <2>4, <2>5, <2>6 DEF IInv, SeatedOnce
<1> QED BY <1>1, <1>3, <1>4, <1>5, FileFrame, StreamFrame DEF IInv, TypeOK

\* A failed attempt is counted; the last one ends the client.
LEMMA ConnectFailsKeeps ==
  ASSUME IInv, NEW c \in Clients, ConnectFails(c, Listening), UNCHANGED srvVars
  PROVE  IInv'
<1>1. /\ pc[c] = "connect" /\ tries' = [tries EXCEPT ![c] = @ + 1]
      /\ pc' = [pc EXCEPT ![c] = IF tries'[c] = MaxTries THEN "failed" ELSE @]
      /\ UNCHANGED <<acked, bad, filled, sent, arrived, taken, oks, pending,
                     ended, hungup>>
  BY DEF ConnectFails, netVars
<1>2. tries[c] \in Nat /\ tries[c] < MaxTries /\ tries'[c] = tries[c] + 1
  BY <1>1, TcpClientAssumption DEF IInv, StagesAgree, TypeOK, CliTypeOK
<1>3. \A d \in Clients :
        /\ pc'[d] = "connect" => pc[d] = "connect"
        /\ pc[d] # "connect" => pc'[d] = pc[d]
  BY <1>1 DEF IInv, TypeOK, CliTypeOK
<1>4. NetTypeOK' /\ CliTypeOK'
  BY <1>1, <1>2, TcpClientAssumption DEF IInv, TypeOK, NetTypeOK, CliTypeOK
<1>5. StagesAgree'
  <2> SUFFICES ASSUME NEW d \in Clients
               PROVE  /\ pc'[d] \in {"connect", "send"} => sent[d] < Pieces(d)
                      /\ pc'[d] = "connect" => tries'[d] < MaxTries
                      /\ d \in ended => pc'[d] \in {"closed", "dead"}
    BY <1>1 DEF StagesAgree, Pieces
  <2>1. CASE d = c
    BY <1>1, <1>2, <2>1, TcpClientAssumption
       DEF IInv, TypeOK, CliTypeOK, StagesAgree
  <2>2. CASE d # c
    BY <1>1, <2>2 DEF IInv, TypeOK, CliTypeOK, StagesAgree
  <2> QED BY <2>1, <2>2
<1>6. AcksCountRecords'
  BY <1>1 DEF IInv, AcksCountRecords, srvVars
<1> QED
  BY <1>1, <1>3, <1>4, <1>5, <1>6, FileFrame, StreamFrame, SeatsFrame
     DEF IInv, TypeOK

\* One piece more is under way of a stream whose end has not come.
LEMMA SendPieceKeeps ==
  ASSUME IInv, NEW c \in Clients, SendPiece(c), UNCHANGED srvVars
  PROVE  IInv'
<1>1. /\ pc[c] = "send" /\ sent' = [sent EXCEPT ![c] = @ + 1]
      /\ pc' = [pc EXCEPT ![c] = IF sent'[c] = Pieces(c) THEN "recv" ELSE @]
      /\ UNCHANGED <<tries, acked, bad, filled, arrived, taken, oks, pending,
                     ended, hungup>>
  BY DEF SendPiece
<1>2. /\ sent[c] < Pieces(c) /\ c \notin ended /\ sent'[c] = sent[c] + 1
      /\ \A d \in Clients \ {c} : sent'[d] = sent[d] /\ pc'[d] = pc[d]
      /\ pc'[c] \in {"send", "recv"}
      /\ sent'[c] # Pieces(c) \/ pc'[c] = "recv"
  BY <1>1 DEF IInv, StagesAgree, TypeOK, CliTypeOK, NetTypeOK
<1>3. \A d \in Clients :
        /\ sent[d] \in Nat /\ arrived[d] \in Nat /\ taken[d] \in Nat
        /\ Pieces(d) \in Nat
        /\ taken[d] <= arrived[d] /\ arrived[d] <= sent[d] /\ sent[d] <= Pieces(d)
  BY StreamTypes, StreamShape DEF IInv, TypeOK
<1>4. NetTypeOK'
  <2>1. \A d \in Clients : taken[d] <= arrived[d] /\ arrived[d] <= sent'[d]
                             /\ sent'[d] <= Pieces(d) /\ sent'[d] \in Nat
    BY <1>2, <1>3
  <2>2. sent' \in [Clients -> Nat]
    BY <1>1, <1>3 DEF IInv, TypeOK, NetTypeOK
  <2> QED BY <1>1, <2>1, <2>2 DEF IInv, TypeOK, NetTypeOK, Pieces, MsgSize
<1>5. CliTypeOK'
  BY <1>1 DEF IInv, TypeOK, CliTypeOK
<1>6. StagesAgree'
  <2> SUFFICES ASSUME NEW d \in Clients
               PROVE  /\ pc'[d] \in {"connect", "send"} => sent'[d] < Pieces(d)
                      /\ pc'[d] = "connect" => tries[d] < MaxTries
                      /\ d \in ended => pc'[d] \in {"closed", "dead"}
    BY <1>1 DEF StagesAgree, Pieces, MsgSize
  <2>1. CASE d = c
    BY <1>1, <1>2, <1>3, <2>1
  <2>2. CASE d # c
    BY <1>2, <2>2 DEF IInv, StagesAgree
  <2> QED BY <2>1, <2>2
<1>7. SeatedOnce'
  BY <1>1, SeatsFrame DEF IInv, TypeOK, CliTypeOK
<1>8. AcksCountRecords'
  BY <1>1 DEF IInv, AcksCountRecords, srvVars
<1>9. \A d \in Clients : /\ Readable(d) => Readable(d)'
                         /\ Drained(d) => Drained(d)'
  BY <1>1, <1>2 DEF Readable, Drained, AtEnd, Available
<1> QED
  BY <1>1, <1>4, <1>5, <1>6, <1>7, <1>8, <1>9, FileFrame, SocketFrame
     DEF IInv, TypeOK

\* Counting keeps the types while the loop goes on.
LEMMA CountTypes ==
  ASSUME CliTypeOK, NEW c \in Clients, Waiting(c), NEW isOk \in BOOLEAN,
         Count(c, isOk), UNCHANGED <<pc, tries>>, filled' \in [Clients -> BOOLEAN]
  PROVE  /\ CliTypeOK'
         /\ acked'[c] = IF isOk THEN acked[c] + 1 ELSE acked[c]
         /\ \A d \in Clients \ {c} : acked'[d] = acked[d]
<1>1. /\ acked' = [acked EXCEPT ![c] = IF isOk THEN @ + 1 ELSE @]
      /\ bad' = [bad EXCEPT ![c] = IF isOk THEN 0 ELSE @ + 1]
      /\ acked[c] < Lines[c] /\ bad[c] <= BadLimit
  BY DEF Count, Waiting
<1>2. /\ acked[c] \in Nat /\ bad[c] \in Nat /\ Lines[c] \in Nat /\ BadLimit \in Nat
  BY TcpClientAssumption, StreamShape DEF CliTypeOK
<1>3. acked' \in [Clients -> Nat] /\ \A d \in Clients : acked'[d] <= Lines[d]
  BY <1>1, <1>2 DEF CliTypeOK
<1>4. bad' \in [Clients -> 0 .. BadLimit + 1]
  BY <1>1, <1>2 DEF CliTypeOK
<1>5. /\ acked'[c] = IF isOk THEN acked[c] + 1 ELSE acked[c]
      /\ \A d \in Clients \ {c} : acked'[d] = acked[d]
  BY <1>1 DEF CliTypeOK
<1> QED BY <1>3, <1>4, <1>5 DEF CliTypeOK

\* An answer is counted, or taken for something else when the byte behind it
\* may differ.
LEMMA RecvOkKeeps ==
  ASSUME IInv, NEW c \in Clients, RecvOk(c), UNCHANGED srvVars
  PROVE  IInv'
<1>1. /\ Waiting(c) /\ oks[c] > 0 /\ oks' = [oks EXCEPT ![c] = @ - 1]
      /\ filled' = [filled EXCEPT ![c] = TRUE]
      /\ UNCHANGED <<pc, tries, sent, arrived, taken, pending, ended, hungup>>
  BY DEF RecvOk
<1>2. PICK isOk \in {TRUE, ~TailMayDiffer} : Count(c, isOk)
  BY DEF RecvOk
<1>3. isOk \in BOOLEAN /\ (~TailMayDiffer => isOk)
  BY <1>2, TcpClientAssumption
<1>4. filled' \in [Clients -> BOOLEAN]
  BY <1>1 DEF IInv, TypeOK, CliTypeOK
<1>5. /\ CliTypeOK'
      /\ acked'[c] = IF isOk THEN acked[c] + 1 ELSE acked[c]
      /\ \A d \in Clients \ {c} : acked'[d] = acked[d]
  BY <1>1, <1>2, <1>3, <1>4, CountTypes DEF IInv, TypeOK
<1>6. /\ oks' \in [Clients -> Nat] /\ oks'[c] = oks[c] - 1
      /\ \A d \in Clients \ {c} : oks'[d] = oks[d]
      /\ oks[c] \in Nat /\ acked[c] \in Nat
  BY <1>1 DEF IInv, TypeOK, NetTypeOK, CliTypeOK
<1>7. NetTypeOK'
  BY <1>1, <1>6 DEF IInv, TypeOK, NetTypeOK
<1>8. StagesAgree' /\ SeatedOnce'
  BY <1>1, SeatsFrame DEF IInv, StagesAgree
<1>9. AcksCountRecords'
  <2> SUFFICES ASSUME NEW d \in Clients \ (ended \cup hungup)
               PROVE  /\ acked'[d] + oks'[d] <= Len(file[d])
                      /\ ~TailMayDiffer => acked'[d] + oks'[d] = Len(file[d])
    BY <1>1 DEF AcksCountRecords, srvVars
  <2>1. /\ acked[d] + oks[d] <= Len(file[d])
        /\ ~TailMayDiffer => acked[d] + oks[d] = Len(file[d])
        /\ Len(file[d]) \in Nat
    BY FileTypes DEF IInv, TypeOK, AcksCountRecords
  <2>2. CASE d = c
    <3>1. CASE isOk
      <4>1. acked'[c] + oks'[c] = acked[c] + oks[c]
        BY <1>5, <1>6, <3>1
      <4> QED BY <2>1, <2>2, <4>1
    <3>2. CASE ~isOk
      <4>1. acked'[c] + oks'[c] <= acked[c] + oks[c] /\ TailMayDiffer
        BY <1>3, <1>5, <1>6, <3>2
      <4> QED BY <1>5, <1>6, <2>1, <2>2, <3>2, <4>1
    <3> QED BY <1>3, <3>1, <3>2
  <2>3. CASE d # c
    BY <1>5, <1>6, <2>1, <2>3
  <2> QED BY <2>2, <2>3
<1> QED
  BY <1>1, <1>5, <1>7, <1>8, <1>9, FileFrame, StreamFrame DEF IInv, TypeOK

\* Nothing is received any more: only who was hung up on counts on.
LEMMA RecvNothingKeeps ==
  ASSUME IInv, NEW c \in Clients, RecvNothing(c), UNCHANGED srvVars
  PROVE  IInv'
<1>1. /\ Waiting(c) /\ c \in hungup
      /\ UNCHANGED <<pc, tries, filled, sent, arrived, taken, oks, pending,
                     ended, hungup>>
  BY DEF RecvNothing, netVars
<1>2. PICK isOk \in {FALSE, filled[c]} : Count(c, isOk)
  BY DEF RecvNothing
<1>3. isOk \in BOOLEAN /\ filled' \in [Clients -> BOOLEAN]
  BY <1>1, <1>2 DEF IInv, TypeOK, CliTypeOK
<1>4. CliTypeOK' /\ \A d \in Clients \ {c} : acked'[d] = acked[d]
  BY <1>1, <1>2, <1>3, CountTypes DEF IInv, TypeOK
<1>5. NetTypeOK' /\ StagesAgree' /\ SeatedOnce'
  BY <1>1, SeatsFrame DEF IInv, TypeOK, NetTypeOK, StagesAgree
<1>6. AcksCountRecords'
  BY <1>1, <1>4 DEF IInv, AcksCountRecords, srvVars
<1> QED
  BY <1>1, <1>4, <1>5, <1>6, FileFrame, StreamFrame DEF IInv, TypeOK

\* Finish and Die end the client's side; its stream is sent or cut off.
LEMMA CloseSideKeeps ==
  ASSUME IInv, NEW c \in Clients, Finish(c) \/ Die(c), UNCHANGED srvVars
  PROVE  IInv'
<1>1. PICK s \in {"closed", "dead"} : pc' = [pc EXCEPT ![c] = s]
  BY DEF Finish, Die
<1>2. /\ ended' = ended \cup {c} /\ pc[c] \in {"send", "recv"}
      /\ UNCHANGED <<tries, acked, bad, filled, sent, arrived, taken, oks,
                     pending, hungup>>
  BY DEF Finish, Die, CloseSide
<1>3. NetTypeOK' /\ CliTypeOK'
  BY <1>1, <1>2 DEF IInv, TypeOK, NetTypeOK, CliTypeOK
<1>4. StagesAgree'
  BY <1>1, <1>2 DEF IInv, TypeOK, CliTypeOK, StagesAgree
<1>5. SeatedOnce'
  BY <1>1, <1>2, SeatsFrame DEF IInv, TypeOK, CliTypeOK
<1>6. AcksCountRecords'
  BY <1>2 DEF IInv, AcksCountRecords, srvVars
<1>7. \A d \in Clients : /\ Readable(d) => Readable(d)'
                         /\ Drained(d) => Drained(d)'
  BY <1>2 DEF Readable, Drained, AtEnd, Available
<1> QED
  BY <1>2, <1>3, <1>4, <1>5, <1>6, <1>7, FileFrame, SocketFrame
     DEF IInv, TypeOK

\* A piece that arrives is one more to receive.
LEMMA ArriveKeeps ==
  ASSUME IInv, NEW c \in Clients, Arrive(c), UNCHANGED <<cliVars, srvVars>>
  PROVE  IInv'
<1>1. /\ arrived[c] < sent[c] /\ arrived' = [arrived EXCEPT ![c] = @ + 1]
      /\ UNCHANGED <<sent, taken, oks, pending, ended, hungup>>
      /\ UNCHANGED <<pc, tries, acked, bad, filled>>
  BY DEF Arrive, cliVars
<1>2. /\ \A d \in Clients : /\ sent[d] \in Nat /\ arrived[d] \in Nat
                            /\ taken[d] \in Nat /\ taken[d] <= arrived[d]
      /\ arrived'[c] = arrived[c] + 1
      /\ \A d \in Clients \ {c} : arrived'[d] = arrived[d]
  BY <1>1, StreamTypes DEF IInv, TypeOK, NetTypeOK
<1>3. NetTypeOK'
  <2>1. arrived' \in [Clients -> Nat]
    BY <1>1, <1>2 DEF IInv, TypeOK, NetTypeOK
  <2>2. \A d \in Clients : taken[d] <= arrived'[d] /\ arrived'[d] <= sent[d]
    BY <1>1, <1>2, StreamTypes DEF IInv, TypeOK
  <2> QED BY <1>1, <2>1, <2>2 DEF IInv, TypeOK, NetTypeOK, Pieces, MsgSize
<1>4. CliTypeOK' /\ StagesAgree' /\ SeatedOnce' /\ AcksCountRecords'
  BY <1>1, SeatsFrame
     DEF IInv, TypeOK, CliTypeOK, StagesAgree, AcksCountRecords, srvVars
<1>5. \A d \in Clients : /\ Readable(d) => Readable(d)'
                         /\ Drained(d) => Drained(d)'
  BY <1>1, <1>2 DEF Readable, Drained, AtEnd, Available
<1> QED
  BY <1>1, <1>3, <1>4, <1>5, FileFrame, SocketFrame DEF IInv, TypeOK

\* A reset brings a stream to its end, or takes answers from one whose
\* connection is over.
LEMMA ResetKeeps ==
  ASSUME IInv, NEW c \in Clients, Reset(c), UNCHANGED <<cliVars, srvVars>>
  PROVE  IInv'
<1>1. UNCHANGED <<pc, tries, acked, bad, filled, taken, pending, ended, hungup>>
  BY DEF Reset, cliVars
<1>2. CASE /\ c \in ended /\ sent' = [sent EXCEPT ![c] = taken[c]]
           /\ arrived' = [arrived EXCEPT ![c] = taken[c]] /\ UNCHANGED oks
  <2>1. \A d \in Clients :
          /\ sent[d] \in Nat /\ arrived[d] \in Nat /\ taken[d] \in Nat
          /\ taken[d] <= arrived[d] /\ arrived[d] <= sent[d]
          /\ sent[d] <= Pieces(d) /\ Pieces(d) \in Nat
    BY StreamTypes, StreamShape DEF IInv, TypeOK
  <2>2. /\ sent'[c] = taken[c] /\ arrived'[c] = taken[c]
        /\ \A d \in Clients \ {c} : sent'[d] = sent[d] /\ arrived'[d] = arrived[d]
    BY <1>2 DEF IInv, TypeOK, NetTypeOK
  <2>3. NetTypeOK'
    <3>1. \A d \in Clients : taken[d] <= arrived'[d] /\ arrived'[d] <= sent'[d]
                               /\ sent'[d] <= Pieces(d)
      BY <2>1, <2>2
    <3>2. sent' \in [Clients -> Nat] /\ arrived' \in [Clients -> Nat]
      BY <1>2, <2>1 DEF IInv, TypeOK, NetTypeOK
    <3> QED BY <1>1, <1>2, <3>1, <3>2 DEF IInv, TypeOK, NetTypeOK, Pieces, MsgSize
  <2>4. StagesAgree'
    <3>1. \A d \in Clients : sent[d] < Pieces(d) => sent'[d] < Pieces(d)
      BY <2>1, <2>2
    <3> QED BY <1>1, <3>1 DEF IInv, StagesAgree, Pieces, MsgSize
  <2>5. CliTypeOK' /\ SeatedOnce' /\ AcksCountRecords'
    BY <1>1, <1>2, SeatsFrame
       DEF IInv, TypeOK, CliTypeOK, AcksCountRecords, srvVars
  <2>6. \A d \in Clients : /\ Readable(d) => Readable(d)'
                           /\ Drained(d) => Drained(d)'
    BY <1>1, <1>2, <2>1, <2>2 DEF Readable, Drained, AtEnd, Available
  <2> QED
    BY <1>1, <2>3, <2>4, <2>5, <2>6, FileFrame, SocketFrame DEF IInv, TypeOK
<1>3. CASE /\ c \in hungup /\ oks' = [oks EXCEPT ![c] = 0]
           /\ UNCHANGED <<sent, arrived>>
  <2>1. NetTypeOK' /\ CliTypeOK' /\ StagesAgree' /\ SeatedOnce'
    BY <1>1, <1>3, SeatsFrame
       DEF IInv, TypeOK, NetTypeOK, CliTypeOK, StagesAgree
  <2>2. AcksCountRecords'
    BY <1>1, <1>3 DEF IInv, TypeOK, NetTypeOK, AcksCountRecords, srvVars
  <2> QED
    BY <1>1, <1>3, <2>1, <2>2, FileFrame, StreamFrame DEF IInv, TypeOK
<1> QED BY <1>2, <1>3 DEF Reset

-----------------------------------------------------------------------------
(***************************************************************************)
(* Steps of the server outside the turns of its entries.                   *)
(***************************************************************************)

\* What the invariant says of the clients alone.
LEMMA ClientFrame ==
  ASSUME IInv, UNCHANGED <<cliVars, sent, ended>>
  PROVE  /\ CliTypeOK' /\ StagesAgree'
         /\ pc' = pc /\ acked' = acked
BY DEF IInv, TypeOK, cliVars, CliTypeOK, StagesAgree

\* A record that stays as it is, in a table that only grew.
LEMMA FileKept ==
  ASSUME IInv, UNCHANGED <<file, taken>>,
         DOMAIN plugged \subseteq DOMAIN plugged',
         \A i \in DOMAIN plugged : plugged'[i].client = plugged[i].client
  PROVE  /\ OthersUntouched' /\ RecordedWereTaken' /\ InOrderOnce'
         /\ NamesArePlaced'
<1>1. OthersUntouched'
  BY DEF IInv, OthersUntouched
<1>2. RecordedWereTaken' /\ InOrderOnce'
  BY DEF IInv, RecordedWereTaken, InOrderOnce, Recorded
<1>3. NamesArePlaced'
  BY DEF IInv, NamesArePlaced
<1> QED BY <1>1, <1>2, <1>3

\* Start and StartFails only leave the first phase.
LEMMA StartKeeps ==
  ASSUME IInv, Start \/ StartFails, UNCHANGED cliVars
  PROVE  IInv'
<1>1. /\ phase = "off" /\ phase' \in {"select", "failed"}
      /\ UNCHANGED <<canWork, plugged, ready, peer, file, sent, arrived, taken,
                     oks, pending, ended, hungup>>
  BY DEF Start, StartFails, netVars
<1>2. /\ NetTypeOK' /\ SrvTypeOK' /\ CliTypeOK' /\ StagesAgree'
      /\ pc' = pc /\ acked' = acked
  BY <1>1, ClientFrame DEF IInv, TypeOK, NetTypeOK, SrvTypeOK
<1>3. SeatedOnce' /\ EntriesAgree' /\ ReadyForAReason' /\ PeerIsLast'
  BY <1>1, <1>2 DEF IInv, SeatedOnce, EntriesAgree, ReadyForAReason, PeerIsLast,
                    Readable, Drained, AtEnd, Available
<1>4. AcksCountRecords' /\ WedgedForAReason' /\ StopClosesAll'
  BY <1>1, <1>2 DEF IInv, AcksCountRecords, WedgedForAReason, StopClosesAll
<1> QED BY <1>1, <1>2, <1>3, <1>4, FileKept DEF IInv, TypeOK

\* The entries that select hands on are open, and readable.  One connection may
\* move from the queue to the end of the table, as yet untouched.
LEMMA SelectKeeps ==
  ASSUME IInv, Select, UNCHANGED cliVars
  PROVE  IInv'
<1>1. /\ phase = "select" /\ phase' = "turn"
      /\ ready' = {i \in Watched : Readable(plugged[i].client)}
      /\ \A i \in Watched : plugged[i].open
      /\ UNCHANGED <<canWork, file, sent, arrived, taken, oks, ended, hungup>>
  BY DEF Select
<1>2. /\ DOMAIN plugged = 1 .. Len(plugged) /\ Len(plugged) \in Nat
      /\ \A i \in DOMAIN plugged : plugged[i].client \in Clients
      /\ DOMAIN pending = 1 .. Len(pending) /\ Len(pending) \in Nat
      /\ \A k \in DOMAIN pending : pending[k] \in Clients
      /\ plugged \in Seq(Entry) /\ pending \in Seq(Clients)
  BY TableTypes DEF IInv, TypeOK, SrvTypeOK, NetTypeOK
<1>3. ready' \subseteq DOMAIN plugged /\ \A i \in ready' : plugged[i].open
  BY <1>1 DEF Watched
<1>4. canWork
  BY <1>1 DEF IInv, StopClosesAll, TypeOK, SrvTypeOK
<1>5. CliTypeOK' /\ StagesAgree' /\ pc' = pc /\ acked' = acked
  BY <1>1, ClientFrame
<1>6. AcksCountRecords' /\ StopClosesAll'
  BY <1>1, <1>4, <1>5 DEF IInv, AcksCountRecords, StopClosesAll
<1>7. \A c \in Clients : /\ Readable(c)' <=> Readable(c)
                         /\ Drained(c)' <=> Drained(c)
  BY <1>1 DEF Readable, Drained, AtEnd, Available
<1>8. CASE UNCHANGED <<pending, plugged, peer>>
  <2>1. NetTypeOK' /\ SrvTypeOK'
    BY <1>1, <1>2, <1>3, <1>8 DEF IInv, TypeOK, NetTypeOK, SrvTypeOK
  <2>2. SeatedOnce' /\ EntriesAgree' /\ WedgedForAReason'
    BY <1>1, <1>2, <1>5, <1>7, <1>8
       DEF IInv, SeatedOnce, EntriesAgree, WedgedForAReason
  <2>3. ReadyForAReason' /\ PeerIsLast'
    BY <1>1, <1>2, <1>3, <1>7, <1>8 DEF IInv, ReadyForAReason, PeerIsLast
  <2> QED BY <1>1, <1>5, <1>6, <1>8, <2>1, <2>2, <2>3, FileKept DEF IInv, TypeOK
<1>9. CASE pending # <<>> /\ AcceptFirst
  <2> DEFINE c == Head(pending)
             n == Len(plugged) + 1
  <2>1. PICK isOpen \in BOOLEAN :
          /\ plugged' = Append(plugged, [client |-> c, connected |-> FALSE,
                                         open |-> isOpen])
          /\ isOpen => peer' = c
          /\ ~isOpen => c \in ended /\ peer' = peer
    BY <1>9 DEF AcceptFirst
  <2>2. /\ pending' = Tail(pending) /\ pending' \in Seq(Clients)
        /\ c \in Clients /\ 1 \in DOMAIN pending /\ c = pending[1]
        /\ DOMAIN pending' = 1 .. Len(pending) - 1
        /\ \A k \in DOMAIN pending' : pending'[k] = pending[k + 1]
    <3>1. /\ c \in Clients /\ Tail(pending) \in Seq(Clients)
          /\ Len(Tail(pending)) = Len(pending) - 1
          /\ \A k \in 1 .. Len(Tail(pending)) : Tail(pending)[k] = pending[k + 1]
      BY <1>2, <1>9, HeadTailProperties
    <3>2. Len(pending) > 0 /\ c = pending[1]
      BY <1>2, <1>9, EmptySeq
    <3>3. DOMAIN Tail(pending) = 1 .. Len(pending) - 1
      BY <3>1, LenProperties
    <3>4. pending' = Tail(pending)
      BY <1>9 DEF AcceptFirst
    <3> QED BY <1>2, <3>1, <3>2, <3>3, <3>4
  <2> DEFINE e == [client |-> c, connected |-> FALSE, open |-> isOpen]
  <2>3. /\ plugged' \in Seq(Entry) /\ DOMAIN plugged' = 1 .. n
        /\ n \in Nat /\ Len(plugged') = n
        /\ \A i \in DOMAIN plugged : plugged'[i] = plugged[i]
        /\ plugged'[n] = e
        /\ DOMAIN plugged' = DOMAIN plugged \cup {n} /\ n \notin DOMAIN plugged
    <3>1. e \in Entry
      BY <2>2 DEF Entry
    <3> HIDE DEF e
    <3>2. plugged' = Append(plugged, e)
      BY <2>1 DEF e
    <3>3. /\ plugged' \in Seq(Entry) /\ DOMAIN plugged' = 1 .. n
          /\ n \in Nat /\ Len(plugged') = n
          /\ \A i \in DOMAIN plugged : plugged'[i] = plugged[i]
          /\ plugged'[n] = e
      BY <1>2, <3>1, <3>2, Appended
    <3>4. 1 .. n = 1 .. Len(plugged) \cup {n} /\ n \notin 1 .. Len(plugged)
      BY <1>2
    <3> QED BY <1>2, <3>3, <3>4
  <2>4. plugged'[n].client = c /\ plugged'[n].open = isOpen
        /\ ~plugged'[n].connected
    BY <2>3
  <2>5. /\ pc[c] # "connect" /\ c \notin hungup
        /\ \A i \in DOMAIN plugged : plugged[i].client # c
    BY <2>2 DEF IInv, SeatedOnce
  <2>6. taken[c] = 0 /\ file[c] = <<>>
    BY <2>2, <2>5 DEF IInv, OthersUntouched
  <2> HIDE DEF c, n, e
  <2>7. NetTypeOK'
    BY <1>1, <2>2 DEF IInv, TypeOK, NetTypeOK
  <2>8. SrvTypeOK'
    <3>1. ready' \subseteq 1 .. Len(plugged')
      BY <1>3, <2>3
    <3>2. peer' \in Clients \cup {Nobody}
      BY <2>1, <2>2 DEF IInv, TypeOK, SrvTypeOK
    <3> QED BY <1>1, <2>3, <3>1, <3>2 DEF IInv, TypeOK, SrvTypeOK
  <2>9. SeatedOnce'
    <3>1. ASSUME NEW k \in DOMAIN pending', NEW l \in DOMAIN pending',
                 pending'[k] = pending'[l]
          PROVE  k = l
      <4>1. k \in Int /\ l \in Int /\ k + 1 \in DOMAIN pending
            /\ l + 1 \in DOMAIN pending
        BY <1>2, <2>2
      <4>2. k + 1 = l + 1
        BY <2>2, <3>1, <4>1 DEF IInv, SeatedOnce
      <4> QED BY <4>1, <4>2
    <3>2. ASSUME NEW k \in DOMAIN pending'
          PROVE  /\ pc'[pending'[k]] # "connect" /\ pending'[k] \notin hungup'
                 /\ \A i \in DOMAIN plugged' : plugged'[i].client # pending'[k]
      <4>1. k + 1 \in DOMAIN pending /\ pending'[k] = pending[k + 1] /\ k + 1 # 1
        BY <1>2, <2>2
      <4>2. pending[k + 1] # c
        BY <2>2, <4>1 DEF IInv, SeatedOnce
      <4>3. /\ pc[pending[k + 1]] # "connect" /\ pending[k + 1] \notin hungup
            /\ \A i \in DOMAIN plugged : plugged[i].client # pending[k + 1]
        BY <4>1 DEF IInv, SeatedOnce
      <4>4. \A i \in DOMAIN plugged' : plugged'[i].client # pending[k + 1]
        BY <2>3, <2>4, <4>2, <4>3
      <4> QED BY <1>1, <1>5, <4>1, <4>3, <4>4
    <3>3. \A i, j \in DOMAIN plugged' :
            plugged'[i].client = plugged'[j].client => i = j
      BY <2>3, <2>4, <2>5 DEF IInv, SeatedOnce
    <3>4. /\ \A i \in DOMAIN plugged' : pc'[plugged'[i].client] # "connect"
          /\ \A d \in hungup' : pc'[d] # "connect"
      BY <1>1, <1>5, <2>3, <2>4, <2>5 DEF IInv, SeatedOnce
    <3> QED BY <3>1, <3>2, <3>3, <3>4 DEF SeatedOnce
  <2>10. EntriesAgree'
    <3> SUFFICES ASSUME NEW i \in DOMAIN plugged'
                 PROVE  LET d == plugged'[i].client IN
                          /\ plugged'[i].open => d \notin hungup
                          /\ ~plugged'[i].open => d \in ended \cup hungup
                          /\ ~plugged'[i].connected => taken[d] = 0 /\ file[d] = <<>>
                          /\ plugged'[i].connected =>
                               Len(file[d]) < taken[d] \/ d \in hungup \/ Drained(d)
      <4>1. \A i \in DOMAIN plugged' : plugged'[i].client \in Clients
        BY <1>2, <2>2, <2>3, <2>4
      <4> QED BY <1>1, <1>7, <4>1 DEF EntriesAgree
    <3>1. CASE i = n
      BY <2>1, <2>4, <2>5, <2>6, <3>1
    <3>2. CASE i \in DOMAIN plugged
      <4>1. plugged'[i] = plugged[i]
        BY <2>3, <3>2
      <4> QED BY <3>2, <4>1 DEF IInv, EntriesAgree
    <3> QED BY <2>3, <3>1, <3>2
  <2>11. ReadyForAReason'
    BY <1>1, <1>2, <1>3, <1>7, <2>3 DEF IInv, ReadyForAReason
  <2>12. PeerIsLast'
    <3> SUFFICES ASSUME NEW i \in DOMAIN plugged', i \in ready' \/ plugged'[i].open
                 PROVE  \E p \in DOMAIN plugged' : i <= p /\ plugged'[p].client = peer'
      BY DEF PeerIsLast
    <3>1. CASE isOpen
      <4>1. n \in DOMAIN plugged' /\ i <= n /\ plugged'[n].client = peer'
        BY <2>1, <2>3, <2>4, <3>1
      <4> QED BY <4>1
    <3>2. CASE ~isOpen
      <4>1. i \in DOMAIN plugged /\ plugged[i].open /\ peer' = peer
        BY <1>3, <2>1, <2>3, <2>4, <3>2
      <4>2. PICK p \in DOMAIN plugged : i <= p /\ plugged[p].client = peer
        BY <4>1 DEF IInv, PeerIsLast
      <4> QED BY <2>3, <4>1, <4>2
    <3> QED BY <3>1, <3>2
  <2>13. WedgedForAReason'
    BY <1>1, <2>1, <2>3, <2>4, <2>6 DEF IInv, WedgedForAReason
  <2>14. OthersUntouched' /\ RecordedWereTaken' /\ InOrderOnce' /\ NamesArePlaced'
    BY <1>1, <2>3, FileKept
  <2> QED
    BY <1>5, <1>6, <2>7, <2>8, <2>9, <2>10, <2>11, <2>12, <2>13, <2>14
       DEF IInv, TypeOK
<1> QED BY <1>8, <1>9 DEF Select

\* The end of a turn closes at most the connections that wait for accept.
LEMMA EndTurnKeeps ==
  ASSUME IInv, EndTurn, UNCHANGED cliVars
  PROVE  IInv'
<1>1. /\ phase = "turn" /\ ready = {}
      /\ \/ canWork /\ phase' = "select" /\ UNCHANGED <<pending, hungup>>
         \/ /\ ~canWork /\ phase' = "closed" /\ pending' = <<>>
            /\ hungup' = hungup \cup {pending[k] : k \in DOMAIN pending}
      /\ UNCHANGED <<canWork, plugged, ready, peer, file, sent, arrived, taken,
                     oks, ended>>
  BY DEF EndTurn
<1>2. /\ \A i \in DOMAIN plugged : plugged[i].client \in Clients
      /\ \A k \in DOMAIN pending : pending[k] \in Clients
  BY TableTypes DEF IInv, TypeOK
<1>3. CliTypeOK' /\ StagesAgree' /\ pc' = pc /\ acked' = acked
  BY <1>1, ClientFrame
<1>4. NetTypeOK' /\ SrvTypeOK'
  <2>1. pending' \in Seq(Clients) /\ hungup' \subseteq Clients
    BY <1>1, <1>2, EmptySeq DEF IInv, TypeOK, NetTypeOK
  <2> QED BY <1>1, <2>1 DEF IInv, TypeOK, NetTypeOK, SrvTypeOK
<1>5. hungup \subseteq hungup'
  BY <1>1
<1>6. SeatedOnce'
  BY <1>1, <1>3, EmptySeq DEF IInv, SeatedOnce
<1>7. EntriesAgree'
  <2>1. \A i \in DOMAIN plugged :
          plugged[i].open => plugged[i].client \notin hungup'
    BY <1>1 DEF IInv, EntriesAgree, StopClosesAll
  <2>2. \A d \in Clients : Drained(d)' <=> Drained(d)
    BY <1>1 DEF Drained, AtEnd, Available
  <2> QED BY <1>1, <1>2, <1>5, <2>1, <2>2 DEF IInv, EntriesAgree
<1>8. ReadyForAReason' /\ PeerIsLast'
  BY <1>1 DEF IInv, ReadyForAReason, PeerIsLast
<1>9. AcksCountRecords' /\ WedgedForAReason'
  BY <1>1, <1>3, <1>5 DEF IInv, AcksCountRecords, WedgedForAReason
<1>10. StopClosesAll'
  BY <1>1 DEF IInv, StopClosesAll, SaidStop, Recorded
<1> QED
  BY <1>1, <1>3, <1>4, <1>6, <1>7, <1>8, <1>9, <1>10, FileKept DEF IInv, TypeOK

-----------------------------------------------------------------------------
(***************************************************************************)
(* The turn of an entry.                                                   *)
(***************************************************************************)

\* What is known of the entry whose turn it is: it is open, and there is
\* something to receive, or STOP has closed it.  The address in server.ip is
\* that of this entry or of one behind it.
LEMMA TurnFacts ==
  ASSUME IInv, NEW i \in ready, Turn(i)
  PROVE  /\ phase = "turn" /\ i \in DOMAIN plugged
         /\ plugged[i].client \in Clients
         /\ \A j \in DOMAIN plugged :
              plugged[j].client = plugged[i].client => j = i
         /\ peer \in Clients
         /\ \E p \in DOMAIN plugged : i <= p /\ plugged[p].client = peer
         /\ plugged[i].open => /\ canWork /\ plugged[i].client \notin hungup
                               /\ Readable(plugged[i].client)
         /\ ~plugged[i].open => plugged[i].client \in hungup
         /\ plugged[i].open /\ Available(plugged[i].client) = 0 =>
              plugged[i].client \in ended /\ Drained(plugged[i].client)
<1>1. /\ phase = "turn" /\ i \in DOMAIN plugged
      /\ plugged[i].client \in Clients
      /\ \A j \in DOMAIN plugged : plugged[j].client \in Clients
  BY TableTypes DEF IInv, TypeOK, Turn
<1>2. \A j \in DOMAIN plugged : plugged[j].client = plugged[i].client => j = i
  BY <1>1 DEF IInv, SeatedOnce
<1>3. PICK p \in DOMAIN plugged : i <= p /\ plugged[p].client = peer
  BY <1>1 DEF IInv, PeerIsLast
<1>4. /\ plugged[i].open => /\ canWork /\ plugged[i].client \notin hungup
                            /\ Readable(plugged[i].client)
      /\ ~plugged[i].open => plugged[i].client \in hungup
  BY <1>1 DEF IInv, ReadyForAReason, EntriesAgree, StopClosesAll
<1>5. plugged[i].open /\ Available(plugged[i].client) = 0 =>
        plugged[i].client \in ended /\ Drained(plugged[i].client)
  BY <1>4 DEF Readable, Drained, AtEnd
<1> QED BY <1>1, <1>2, <1>3, <1>4, <1>5

\* What a turn leaves alone: the clients, who is in the table, and the entries
\* behind it, unless it closes them all.
LEMMA TurnFrame ==
  ASSUME IInv, NEW i \in ready, Turn(i),
         ready' = ready \ {i},
         UNCHANGED <<cliVars, phase, peer, sent, arrived, pending, ended>>,
         DOMAIN plugged' = DOMAIN plugged,
         \A j \in DOMAIN plugged :
           /\ plugged'[j].client = plugged[j].client
           /\ plugged'[j].open => plugged[j].open
           /\ j # i /\ plugged[j].open =>
                plugged'[j].open \/ plugged[j].client \in hungup',
         hungup \subseteq hungup',
         hungup' \subseteq hungup \cup {plugged[j].client : j \in DOMAIN plugged},
         \A d \in Clients \ {plugged[i].client} : taken'[d] = taken[d]
  PROVE  /\ CliTypeOK' /\ StagesAgree' /\ SeatedOnce' /\ ReadyForAReason'
         /\ PeerIsLast' /\ pc' = pc /\ acked' = acked
<1>1. /\ i \in DOMAIN plugged
      /\ \A j \in DOMAIN plugged : plugged[j].client \in Clients
      /\ ready \subseteq DOMAIN plugged
      /\ \A j \in DOMAIN plugged : plugged[j].client = plugged[i].client => j = i
  BY TurnFacts, TableTypes DEF IInv, TypeOK
<1>2. CliTypeOK' /\ StagesAgree' /\ pc' = pc /\ acked' = acked
  BY ClientFrame
<1>3. SeatedOnce'
  <2>1. /\ \A k, l \in DOMAIN pending : pending[k] = pending[l] => k = l
        /\ \A j, k \in DOMAIN plugged :
             plugged'[j].client = plugged'[k].client => j = k
        /\ \A j \in DOMAIN plugged : pc[plugged'[j].client] # "connect"
    BY DEF IInv, SeatedOnce
  <2>2. \A k \in DOMAIN pending :
          /\ pc[pending[k]] # "connect" /\ pending[k] \notin hungup'
          /\ \A j \in DOMAIN plugged : plugged'[j].client # pending[k]
    BY DEF IInv, SeatedOnce
  <2>3. \A d \in hungup' : pc[d] # "connect"
    BY DEF IInv, SeatedOnce
  <2> QED BY <1>2, <2>1, <2>2, <2>3 DEF SeatedOnce
<1>4. ReadyForAReason'
  <2> SUFFICES ASSUME NEW j \in ready \ {i}
               PROVE  \/ plugged'[j].client \in hungup'
                      \/ plugged'[j].open /\ Readable(plugged[j].client)'
    BY <1>1 DEF ReadyForAReason
  <2>1. j \in DOMAIN plugged /\ plugged[j].client # plugged[i].client
    BY <1>1
  <2>2. Readable(plugged[j].client)' <=> Readable(plugged[j].client)
    BY <1>1, <2>1 DEF Readable, AtEnd, Available
  <2> QED BY <2>1, <2>2 DEF IInv, ReadyForAReason
<1>5. PeerIsLast'
  BY <1>1 DEF IInv, PeerIsLast
<1> QED BY <1>2, <1>3, <1>4, <1>5

\* A message that begins behind what was taken comes after all recorded ones.
LEMMA RecordedBefore ==
  ASSUME IInv, NEW c \in Clients, NEW n \in Nat, taken[c] < HeadOf(c, n),
         NEW k \in Recorded(c)
  PROVE  file[c][k].num < n
<1>1. file[c][k].num \in Int /\ taken[c] \in Nat
  BY FileTypes, StreamTypes DEF IInv, TypeOK
<1>2. HeadOf(c, n) \in Int /\ HeadOf(c, file[c][k].num) \in Int
  BY <1>1, StreamShape
<1>3. HeadOf(c, file[c][k].num) <= taken[c]
  BY DEF IInv, RecordedWereTaken
<1>4. HeadOf(c, file[c][k].num) < HeadOf(c, n)
  BY <1>1, <1>2, <1>3
<1> QED BY <1>1, <1>4, HeadsInOrder

\* A record keeps the order of the messages and the places of the addresses:
\* its message begins behind what was taken before, its address is that of an
\* entry behind.
LEMMA WriteKeeps ==
  ASSUME IInv, NEW i \in DOMAIN plugged,
         NEW r \in [num : Nat \cup {Junk}, name : Clients],
         Write(plugged[i].client, r),
         \E p \in DOMAIN plugged : i <= p /\ plugged[p].client = r.name,
         r.num # Junk =>
           /\ taken[plugged[i].client] < HeadOf(plugged[i].client, r.num)
           /\ HeadOf(plugged[i].client, r.num) <= taken'[plugged[i].client],
         \A d \in Clients : taken'[d] \in Nat /\ taken[d] <= taken'[d],
         \A d \in Clients \ {plugged[i].client} : taken'[d] = taken[d],
         DOMAIN plugged' = DOMAIN plugged,
         \A j \in DOMAIN plugged : plugged'[j].client = plugged[j].client
  PROVE  /\ OthersUntouched' /\ RecordedWereTaken' /\ InOrderOnce'
         /\ NamesArePlaced'
<1> DEFINE c == plugged[i].client
           n == Len(file[c]) + 1
<1>1. c \in Clients /\ \A d \in Clients : taken[d] \in Nat
  BY TableTypes, StreamTypes DEF IInv, TypeOK
<1>2. /\ \A d \in Clients \ {c} : file'[d] = file[d]
      /\ \/ file' = file
         \/ /\ DOMAIN file'[c] = DOMAIN file[c] \cup {n}
            /\ \A k \in DOMAIN file[c] : file'[c][k] = file[c][k]
            /\ file'[c][n] = r
  BY <1>1, Written DEF IInv, TypeOK
<1>3. \A d \in Clients :
        /\ DOMAIN file[d] = 1 .. Len(file[d]) /\ Len(file[d]) \in Nat
        /\ \A k \in Recorded(d) : k \in DOMAIN file[d] /\ file[d][k].num \in Nat
  BY FileTypes DEF IInv, TypeOK
<1>4. \A d \in Clients : \A k \in Recorded(d) :
        HeadOf(d, file[d][k].num) <= taken[d] /\ HeadOf(d, file[d][k].num) \in Int
  <2> SUFFICES ASSUME NEW d \in Clients, NEW k \in Recorded(d)
               PROVE  /\ HeadOf(d, file[d][k].num) <= taken[d]
                      /\ HeadOf(d, file[d][k].num) \in Int
    OBVIOUS
  <2>1. file[d][k].num \in Int
    BY <1>3
  <2>2. HeadOf(d, file[d][k].num) \in Int
    BY <2>1, StreamShape
  <2> QED BY <2>2 DEF IInv, RecordedWereTaken
<1>5. ASSUME NEW d \in Clients, file'[d] = file[d]
      PROVE  /\ \A k \in Recorded(d)' : HeadOf(d, file'[d][k].num) <= taken'[d]
             /\ \A j, k \in Recorded(d)' :
                  j < k => file'[d][j].num < file'[d][k].num
             /\ \A k \in DOMAIN file'[d] :
                  \E p, q \in DOMAIN plugged :
                    p <= q /\ plugged[p].client = d
                           /\ plugged[q].client = file'[d][k].name
  <2>1. Recorded(d)' = Recorded(d)
    BY <1>5 DEF Recorded
  <2>2. \A k \in Recorded(d) : HeadOf(d, file[d][k].num) <= taken'[d]
    BY <1>1, <1>4
  <2> QED BY <1>5, <2>1, <2>2 DEF IInv, InOrderOnce, NamesArePlaced
<1>6. ASSUME DOMAIN file'[c] = DOMAIN file[c] \cup {n},
             \A k \in DOMAIN file[c] : file'[c][k] = file[c][k],
             file'[c][n] = r
      PROVE  /\ \A k \in Recorded(c)' : HeadOf(c, file'[c][k].num) <= taken'[c]
             /\ \A j, k \in Recorded(c)' :
                  j < k => file'[c][j].num < file'[c][k].num
             /\ \A k \in DOMAIN file'[c] :
                  \E p, q \in DOMAIN plugged :
                    p <= q /\ plugged[p].client = c
                           /\ plugged[q].client = file'[c][k].name
  <2>1. \A k \in Recorded(c)' :
          \/ k \in Recorded(c) /\ file'[c][k] = file[c][k]
          \/ k = n /\ r.num # Junk
    BY <1>6 DEF Recorded
  <2>2. \A k \in Recorded(c) : k \in Nat /\ k < n
    BY <1>1, <1>3
  <2>3. ASSUME r.num # Junk, NEW k \in Recorded(c)
        PROVE  file[c][k].num < r.num
    BY <1>1, <2>3, RecordedBefore
  <2>4. \A k \in Recorded(c)' : HeadOf(c, file'[c][k].num) <= taken'[c]
    BY <1>1, <1>4, <1>6, <2>1
  <2>5. \A j, k \in Recorded(c)' : j < k => file'[c][j].num < file'[c][k].num
    <3> SUFFICES ASSUME NEW j \in Recorded(c)', NEW k \in Recorded(c)', j < k
                 PROVE  file'[c][j].num < file'[c][k].num
      OBVIOUS
    <3>1. j # n
      BY <1>1, <1>3, <2>1, <2>2
    <3>2. j \in Recorded(c) /\ file'[c][j] = file[c][j]
      BY <2>1, <3>1
    <3>3. CASE k = n
      BY <1>6, <2>1, <2>2, <2>3, <3>2, <3>3
    <3>4. CASE k # n
      BY <1>1, <2>1, <3>2, <3>4 DEF IInv, InOrderOnce
    <3> QED BY <3>3, <3>4
  <2>6. \A k \in DOMAIN file'[c] :
          \E p, q \in DOMAIN plugged :
            p <= q /\ plugged[p].client = c /\ plugged[q].client = file'[c][k].name
    BY <1>1, <1>6 DEF IInv, NamesArePlaced
  <2> QED BY <2>4, <2>5, <2>6
<1>7. ASSUME NEW d \in Clients
      PROVE  /\ \A k \in Recorded(d)' : HeadOf(d, file'[d][k].num) <= taken'[d]
             /\ \A j, k \in Recorded(d)' :
                  j < k => file'[d][j].num < file'[d][k].num
             /\ \A k \in DOMAIN file'[d] :
                  \E p, q \in DOMAIN plugged :
                    p <= q /\ plugged[p].client = d
                           /\ plugged[q].client = file'[d][k].name
  BY <1>2, <1>5, <1>6
<1>8. OthersUntouched'
  BY <1>1, <1>2 DEF IInv, OthersUntouched
<1>9. RecordedWereTaken' /\ InOrderOnce' /\ NamesArePlaced'
  BY <1>7 DEF RecordedWereTaken, InOrderOnce, NamesArePlaced, HeadOf, MsgSize
<1> QED BY <1>8, <1>9

\* The end of the stream, or a closed socket: a record without a message, of a
\* client whose connection is over.
LEMMA HandleEndKeeps ==
  ASSUME IInv, NEW i \in ready, Turn(i), HandleEnd(i), ready' = ready \ {i},
         UNCHANGED <<cliVars, phase>>
  PROVE  IInv'
<1> DEFINE c == plugged[i].client
           r == [num |-> Junk, name |-> peer]
<1>1. /\ i \in DOMAIN plugged /\ c \in Clients /\ peer \in Clients
      /\ \E p \in DOMAIN plugged : i <= p /\ plugged[p].client = peer
      /\ c \in hungup \/ (c \in ended /\ Drained(c))
  <2>1. plugged[i].open => Available(c) = 0
    BY DEF HandleEnd
  <2> QED BY <2>1, TurnFacts
<1>2. /\ Write(c, r)
      /\ UNCHANGED <<canWork, plugged, peer, sent, arrived, taken, oks, pending,
                     ended, hungup>>
  BY DEF HandleEnd, Address, netVars
<1>3. r \in [num : Nat \cup {Junk}, name : Clients] /\ r.num = Junk /\ r.name = peer
  BY <1>1
<1>4. /\ CliTypeOK' /\ StagesAgree' /\ SeatedOnce' /\ ReadyForAReason'
      /\ PeerIsLast' /\ pc' = pc /\ acked' = acked
  BY <1>2, TurnFrame
<1>5. /\ file' \in [Clients -> Seq([num : Nat \cup {Junk}, name : Clients])]
      /\ \A d \in Clients \ {c} : file'[d] = file[d]
      /\ \/ file' = file
         \/ /\ DOMAIN file'[c] = DOMAIN file[c] \cup {Len(file[c]) + 1}
            /\ \A k \in DOMAIN file[c] : file'[c][k] = file[c][k]
            /\ file'[c][Len(file[c]) + 1] = r
  BY <1>1, <1>2, <1>3, Written DEF IInv, TypeOK
<1>6. NetTypeOK' /\ SrvTypeOK'
  BY <1>2, <1>5 DEF IInv, TypeOK, NetTypeOK, SrvTypeOK
<1>7. OthersUntouched' /\ RecordedWereTaken' /\ InOrderOnce' /\ NamesArePlaced'
  <2>1. \A d \in Clients : taken'[d] \in Nat /\ taken[d] <= taken'[d]
    BY <1>2, StreamTypes DEF IInv, TypeOK
  <2> HIDE DEF r
  <2> QED BY <1>1, <1>2, <1>3, <2>1, WriteKeeps
<1>8. AcksCountRecords'
  BY <1>1, <1>2, <1>4, <1>5 DEF IInv, AcksCountRecords
<1>9. EntriesAgree'
  <2> SUFFICES ASSUME NEW j \in DOMAIN plugged
               PROVE  LET d == plugged[j].client IN
                        /\ plugged[j].open => d \notin hungup
                        /\ ~plugged[j].open => d \in ended \cup hungup
                        /\ ~plugged[j].connected => taken[d] = 0 /\ file'[d] = <<>>
                        /\ plugged[j].connected =>
                             Len(file'[d]) < taken[d] \/ d \in hungup \/ Drained(d)
    BY <1>2 DEF EntriesAgree, Drained, AtEnd, Available
  <2>1. CASE plugged[j].client = c
    <3>1. j = i /\ plugged[i].connected
      BY <1>1, <2>1, TurnFacts DEF HandleEnd
    <3> QED BY <1>1, <3>1 DEF IInv, EntriesAgree
  <2>2. CASE plugged[j].client # c
    <3>1. file'[plugged[j].client] = file[plugged[j].client]
      BY <1>5, <2>2, TableTypes DEF IInv, TypeOK
    <3> QED BY <3>1 DEF IInv, EntriesAgree
  <2> QED BY <2>1, <2>2
<1>10. WedgedForAReason'
  BY <1>2 DEF IInv, WedgedForAReason
<1>11. StopClosesAll'
  <2>1. ASSUME NEW d \in Clients, SaidStop(d) PROVE SaidStop(d)'
    <3>1. /\ Recorded(d)' = Recorded(d)
          /\ \A k \in Recorded(d) : file'[d][k] = file[d][k]
      BY <1>3, <1>5 DEF Recorded
    <3> QED BY <1>2, <2>1, <3>1 DEF SaidStop
  <2> QED BY <1>2, <2>1 DEF IInv, StopClosesAll
<1> QED
  BY <1>4, <1>6, <1>7, <1>8, <1>9, <1>10, <1>11 DEF IInv, TypeOK

\* The entry of the turn is closed, or said to be connected.  Nothing was taken
\* from it or recorded before.
LEMMA HandleNoPutKeeps ==
  ASSUME IInv, NEW i \in ready, Turn(i), HandleNoPut(i), ready' = ready \ {i},
         UNCHANGED <<cliVars, phase>>
  PROVE  IInv'
<1> DEFINE c == plugged[i].client
<1>1. /\ i \in DOMAIN plugged /\ c \in Clients
      /\ \A j \in DOMAIN plugged : plugged[j].client = c => j = i
      /\ \A j \in DOMAIN plugged : plugged[j].client \in Clients
      /\ c \in hungup \/ (c \in ended /\ Drained(c))
      /\ taken[c] = 0 /\ file[c] = <<>>
  <2>1. (plugged[i].open => Available(c) = 0) /\ ~plugged[i].connected
    BY DEF HandleNoPut
  <2> QED BY <2>1, TurnFacts, TableTypes DEF IInv, TypeOK, EntriesAgree
<1>2. UNCHANGED <<canWork, peer, file, sent, arrived, taken, oks, pending, ended>>
  BY DEF HandleNoPut
<1>3. \/ plugged' = [plugged EXCEPT ![i].connected = TRUE] /\ hungup' = hungup
      \/ /\ plugged' = [plugged EXCEPT ![i].open = FALSE]
         /\ hungup' = hungup \cup {c}
  BY DEF HandleNoPut
<1>4. /\ plugged' \in Seq(Entry)
      /\ DOMAIN plugged' = DOMAIN plugged /\ Len(plugged') = Len(plugged)
      /\ \A j \in DOMAIN plugged : plugged'[j].client = plugged[j].client
                                   /\ (plugged'[j].open => plugged[j].open)
  BY <1>1, <1>3, EntryChanged DEF IInv, TypeOK
<1>5. \A j \in DOMAIN plugged \ {i} : plugged'[j] = plugged[j]
  BY <1>3
<1>6. /\ hungup \subseteq hungup' /\ hungup' \subseteq hungup \cup {c}
      /\ plugged'[i].open => plugged[i].open /\ hungup' = hungup
      /\ ~plugged'[i].open => c \in hungup'
  <2>1. plugged[i] \in Entry /\ (~plugged[i].open => c \in hungup)
    BY <1>1, TableTypes, TurnFacts DEF IInv, TypeOK
  <2> QED BY <1>1, <1>3, <1>4, <2>1 DEF Entry
<1>7. /\ CliTypeOK' /\ StagesAgree' /\ SeatedOnce' /\ ReadyForAReason'
      /\ PeerIsLast' /\ pc' = pc /\ acked' = acked
  BY <1>1, <1>2, <1>4, <1>5, <1>6, TurnFrame
<1>8. NetTypeOK' /\ SrvTypeOK'
  <2>1. hungup' \subseteq Clients /\ ready' \subseteq 1 .. Len(plugged')
    BY <1>1, <1>4, <1>6 DEF IInv, TypeOK, NetTypeOK, SrvTypeOK
  <2> QED BY <1>2, <1>4, <2>1 DEF IInv, TypeOK, NetTypeOK, SrvTypeOK
<1>9. OthersUntouched' /\ RecordedWereTaken' /\ InOrderOnce' /\ NamesArePlaced'
  BY <1>2, <1>4, FileKept
<1>10. AcksCountRecords'
  BY <1>2, <1>6, <1>7 DEF IInv, AcksCountRecords
<1>11. EntriesAgree'
  <2> SUFFICES ASSUME NEW j \in DOMAIN plugged
               PROVE  LET d == plugged[j].client IN
                        /\ plugged'[j].open => d \notin hungup'
                        /\ ~plugged'[j].open => d \in ended \cup hungup'
                        /\ ~plugged'[j].connected => taken[d] = 0 /\ file[d] = <<>>
                        /\ plugged'[j].connected =>
                             Len(file[d]) < taken[d] \/ d \in hungup' \/ Drained(d)
    BY <1>2, <1>4 DEF EntriesAgree, Drained, AtEnd, Available
  <2>1. CASE j = i
    BY <1>1, <1>6, <2>1 DEF IInv, EntriesAgree
  <2>2. CASE j # i
    BY <1>1, <1>5, <1>6, <2>2 DEF IInv, EntriesAgree
  <2> QED BY <2>1, <2>2
<1>12. WedgedForAReason'
  <2> SUFFICES ASSUME canWork, NEW j \in DOMAIN plugged, ~plugged'[j].open
               PROVE  plugged[j].client \in ended /\ taken[plugged[j].client] = 0
    BY <1>2, <1>4 DEF WedgedForAReason
  <2>1. CASE plugged[j].open
    <3>1. j = i
      BY <1>5, <2>1
    <3>2. c \notin hungup
      BY <2>1, <3>1 DEF IInv, EntriesAgree
    <3> QED BY <1>1, <3>1, <3>2
  <2>2. CASE ~plugged[j].open
    BY <2>2 DEF IInv, WedgedForAReason
  <2> QED BY <2>1, <2>2
<1>13. StopClosesAll'
  BY <1>2, <1>4 DEF IInv, StopClosesAll, SaidStop, Recorded
<1> QED
  BY <1>7, <1>8, <1>9, <1>10, <1>11, <1>12, <1>13 DEF IInv, TypeOK

\* "put": the first piece of the stream, before any record.
LEMMA HandlePutKeeps ==
  ASSUME IInv, NEW i \in ready, Turn(i), HandlePut(i), ready' = ready \ {i},
         UNCHANGED <<cliVars, phase>>
  PROVE  IInv'
<1> DEFINE c == plugged[i].client
<1>1. /\ ~plugged[i].connected /\ plugged[i].open /\ Available(c) > 0
      /\ taken' = [taken EXCEPT ![c] = @ + 1]
      /\ plugged' = [plugged EXCEPT ![i].connected = TRUE]
      /\ UNCHANGED <<canWork, peer, file, sent, arrived, oks, pending, ended, hungup>>
  BY DEF HandlePut
<1>2. /\ i \in DOMAIN plugged /\ c \in Clients /\ canWork
      /\ \A j \in DOMAIN plugged : plugged[j].client = c => j = i
      /\ \A j \in DOMAIN plugged : plugged[j].client \in Clients
      /\ taken[c] = 0 /\ file[c] = <<>>
  BY <1>1, TurnFacts, TableTypes DEF IInv, TypeOK, EntriesAgree
<1>3. /\ plugged' \in Seq(Entry)
      /\ DOMAIN plugged' = DOMAIN plugged /\ Len(plugged') = Len(plugged)
      /\ \A j \in DOMAIN plugged : /\ plugged'[j].client = plugged[j].client
                                   /\ plugged'[j].open => plugged[j].open
  BY <1>1, <1>2, EntryChanged DEF IInv, TypeOK
<1>4. /\ \A j \in DOMAIN plugged \ {i} : plugged'[j] = plugged[j]
      /\ plugged'[i].open /\ plugged'[i].connected
  <2>1. plugged[i] \in Entry
    BY <1>2, TableTypes DEF IInv, TypeOK
  <2> QED BY <1>1, <1>2, <2>1 DEF Entry
<1>5. /\ taken'[c] = 1 /\ 1 <= arrived[c]
      /\ \A d \in Clients \ {c} : taken'[d] = taken[d]
      /\ taken' \in [Clients -> Nat]
  <2>1. Available(c) = arrived[c] - taken[c] /\ arrived[c] \in Nat
    BY <1>2, StreamTypes DEF IInv, TypeOK
  <2> QED BY <1>1, <1>2, <2>1 DEF IInv, TypeOK, NetTypeOK
<1>6. /\ CliTypeOK' /\ StagesAgree' /\ SeatedOnce' /\ ReadyForAReason'
      /\ PeerIsLast' /\ pc' = pc /\ acked' = acked
  BY <1>1, <1>3, <1>4, <1>5, TurnFrame
<1>7. NetTypeOK' /\ SrvTypeOK'
  <2>1. \A d \in Clients : taken'[d] <= arrived[d]
    BY <1>5, StreamTypes DEF IInv, TypeOK
  <2>2. ready' \subseteq 1 .. Len(plugged')
    BY <1>3 DEF IInv, TypeOK, SrvTypeOK
  <2> QED BY <1>1, <1>3, <1>5, <2>1, <2>2
          DEF IInv, TypeOK, NetTypeOK, SrvTypeOK, Pieces, MsgSize
<1>8. OthersUntouched' /\ InOrderOnce' /\ NamesArePlaced'
  <2>1. OthersUntouched'
    BY <1>1, <1>2, <1>3, <1>5 DEF IInv, OthersUntouched
  <2> QED BY <1>1, <1>3, <2>1 DEF IInv, InOrderOnce, NamesArePlaced, Recorded
<1>9. RecordedWereTaken'
  <2> SUFFICES ASSUME NEW d \in Clients, NEW k \in Recorded(d)
               PROVE  HeadOf(d, file[d][k].num) <= taken'[d]
    BY <1>1 DEF RecordedWereTaken, Recorded, HeadOf, MsgSize
  <2>1. d # c
    BY <1>2 DEF Recorded
  <2> QED BY <1>5, <2>1 DEF IInv, RecordedWereTaken
<1>10. AcksCountRecords'
  BY <1>1, <1>6 DEF IInv, AcksCountRecords
<1>11. EntriesAgree'
  <2> SUFFICES ASSUME NEW j \in DOMAIN plugged
               PROVE  LET d == plugged[j].client IN
                        /\ plugged'[j].open => d \notin hungup
                        /\ ~plugged'[j].open => d \in ended \cup hungup
                        /\ ~plugged'[j].connected => taken'[d] = 0 /\ file[d] = <<>>
                        /\ plugged'[j].connected =>
                             \/ Len(file[d]) < taken'[d]
                             \/ d \in hungup
                             \/ d # c /\ Drained(d)
    <3>1. \A d \in Clients \ {c} : Drained(d)' <=> Drained(d)
      BY <1>1, <1>5 DEF Drained, AtEnd, Available
    <3> QED BY <1>1, <1>2, <1>3, <3>1 DEF EntriesAgree
  <2>1. CASE j = i
    BY <1>1, <1>2, <1>4, <1>5, <2>1, EmptySeq DEF IInv, EntriesAgree
  <2>2. CASE j # i
    BY <1>2, <1>4, <1>5, <2>2 DEF IInv, EntriesAgree
  <2> QED BY <2>1, <2>2
<1>12. WedgedForAReason'
  BY <1>1, <1>2, <1>3, <1>4, <1>5 DEF IInv, WedgedForAReason
<1>13. StopClosesAll'
  BY <1>1, <1>2 DEF IInv, StopClosesAll
<1> QED
  BY <1>6, <1>7, <1>8, <1>9, <1>10, <1>11, <1>12, <1>13 DEF IInv, TypeOK

\* A client's connection that is open has room for its next record: each record
\* before it took a piece, and so did "put".
LEMMA RecordFits ==
  ASSUME IInv, NEW i \in DOMAIN plugged, plugged[i].connected, plugged[i].open,
         Available(plugged[i].client) > 0
  PROVE  /\ Len(file[plugged[i].client]) < taken[plugged[i].client]
         /\ Len(file[plugged[i].client]) < MaxRecords
<1> DEFINE c == plugged[i].client
<1>1. c \in Clients /\ Len(file[c]) \in Nat
  BY TableTypes, FileTypes DEF IInv, TypeOK
<1>2. Len(file[c]) < taken[c]
  BY DEF IInv, EntriesAgree, Drained
<1>3. taken[c] < Pieces(c)
  <2>1. /\ sent[c] \in Nat /\ arrived[c] \in Nat /\ taken[c] \in Nat
        /\ arrived[c] <= sent[c] /\ sent[c] <= Pieces(c)
        /\ Available(c) = arrived[c] - taken[c] /\ Pieces(c) \in Nat
    BY <1>1, StreamTypes, StreamShape DEF IInv, TypeOK
  <2> QED BY <2>1
<1>4. Pieces(c) \in Nat /\ Pieces(c) - 1 <= MaxRecords /\ taken[c] \in Nat
  BY <1>1, StreamShape, StreamTypes DEF IInv, TypeOK
<1> QED BY <1>1, <1>2, <1>3, <1>4, TcpServerAssumption

\* A record of what one recv has found: it takes a piece at least, is answered
\* once, and if the buffer reads "stop", every socket is closed.
LEMMA HandleMsgKeeps ==
  ASSUME IInv, NEW i \in ready, Turn(i), HandleMsg(i), ready' = ready \ {i},
         UNCHANGED <<cliVars, phase>>
  PROVE  IInv'
<1> DEFINE c == plugged[i].client
           l == Len(file[c]) + 1
<1>1. /\ plugged[i].connected /\ plugged[i].open /\ Available(c) > 0
      /\ taken' = [taken EXCEPT ![c] = @ + TakenBy(c)]
      /\ oks' = [oks EXCEPT ![c] = @ + 1]
      /\ canWork' = (canWork /\ ~IsStop(c))
      /\ \/ /\ IsStop(c)
            /\ plugged' = [j \in DOMAIN plugged |-> [plugged[j] EXCEPT !.open = FALSE]]
            /\ hungup' = hungup \cup {plugged[j].client : j \in DOMAIN plugged}
         \/ ~IsStop(c) /\ plugged' = plugged /\ hungup' = hungup
      /\ UNCHANGED <<peer, sent, arrived, pending, ended>>
  BY DEF HandleMsg, Answer, CloseAll
<1>2. PICK n \in Numbers(c) : Write(c, [num |-> n, name |-> peer])
  BY DEF HandleMsg, Address
<1> DEFINE r == [num |-> n, name |-> peer]
<1>3. /\ i \in DOMAIN plugged /\ c \in Clients /\ peer \in Clients /\ canWork
      /\ phase = "turn"
      /\ \E p \in DOMAIN plugged : i <= p /\ plugged[p].client = peer
      /\ \A j \in DOMAIN plugged : plugged[j].client = c => j = i
      /\ \A j \in DOMAIN plugged : plugged[j].client \in Clients
  BY <1>1, TurnFacts, TableTypes DEF IInv, TypeOK
<1>4. /\ n \in Nat \cup {Junk}
      /\ n # Junk => n \in Nat /\ HeadOf(c, n) = taken[c] + 1
      /\ IsStop(c) =>
           \/ n # Junk /\ n \in Stops[c]
           \/ n = Junk /\ <<taken[c] + 1, TakenBy(c)>> \in StopCuts[c]
  BY <1>2, <1>3, NumberOfRecord DEF IInv, TypeOK
<1>5. /\ taken'[c] = taken[c] + TakenBy(c) /\ TakenBy(c) \in Nat /\ TakenBy(c) >= 1
      /\ taken[c] \in Nat /\ taken[c] + TakenBy(c) <= arrived[c]
      /\ \A d \in Clients \ {c} : taken'[d] = taken[d]
      /\ taken' \in [Clients -> Nat]
      /\ \A d \in Clients : taken'[d] \in Nat /\ taken[d] <= taken'[d]
  <2>1. /\ TakenBy(c) \in 1 .. Available(c) /\ taken[c] \in Nat
        /\ arrived[c] \in Nat /\ Available(c) = arrived[c] - taken[c]
    BY <1>1, <1>3, TakenIsThere, StreamTypes DEF IInv, TypeOK
  <2>2. /\ taken'[c] = taken[c] + TakenBy(c)
        /\ \A d \in Clients \ {c} : taken'[d] = taken[d]
    BY <1>1, <1>3 DEF IInv, TypeOK, NetTypeOK
  <2>3. taken' \in [Clients -> Nat]
    <3>1. taken \in [Clients -> Nat] /\ taken[c] + TakenBy(c) \in Nat
      BY <2>1 DEF IInv, TypeOK, NetTypeOK
    <3>2. taken' = [taken EXCEPT ![c] = taken[c] + TakenBy(c)]
      BY <1>1
    <3> QED BY <3>1, <3>2
  <2>4. \A d \in Clients : taken[d] \in Nat
    BY DEF IInv, TypeOK, NetTypeOK
  <2>5. \A d \in Clients : taken'[d] \in Nat /\ taken[d] <= taken'[d]
    BY <2>1, <2>2, <2>3, <2>4
  <2> QED BY <2>1, <2>2, <2>3, <2>5
<1>6. Len(file[c]) < taken[c] /\ Len(file[c]) < MaxRecords /\ Len(file[c]) \in Nat
  BY <1>1, <1>3, RecordFits, FileTypes DEF IInv, TypeOK
<1>7. /\ r \in [num : Nat \cup {Junk}, name : Clients]
      /\ r.num = n /\ r.name = peer
  BY <1>3, <1>4
<1>8. /\ file' \in [Clients -> Seq([num : Nat \cup {Junk}, name : Clients])]
      /\ \A d \in Clients \ {c} : file'[d] = file[d]
      /\ Len(file'[c]) = l
      /\ DOMAIN file'[c] = DOMAIN file[c] \cup {l}
      /\ file'[c][l] = r
      /\ \A k \in DOMAIN file'[c] : k <= l
  <2>1. ~(Len(file[c]) >= MaxRecords)
    BY <1>6, TcpServerAssumption
  <2>2. Write(c, r) /\ SrvTypeOK
    BY <1>2 DEF IInv, TypeOK
  <2> HIDE DEF r
  <2>3. c \in Clients /\ r \in [num : Nat \cup {Junk}, name : Clients]
    BY <1>3, <1>7
  <2> HIDE DEF c
  <2>4. /\ file' \in [Clients -> Seq([num : Nat \cup {Junk}, name : Clients])]
        /\ \A d \in Clients \ {c} : file'[d] = file[d]
        /\ \/ Len(file[c]) >= MaxRecords /\ file' = file
           \/ /\ file'[c] = Append(file[c], r)
              /\ Len(file'[c]) = Len(file[c]) + 1
              /\ DOMAIN file'[c] = 1 .. Len(file[c]) + 1
              /\ DOMAIN file'[c] = DOMAIN file[c] \cup {Len(file[c]) + 1}
              /\ \A k \in DOMAIN file[c] : file'[c][k] = file[c][k]
              /\ file'[c][Len(file[c]) + 1] = r
    BY <2>2, <2>3, Written, Zenon
  <2>5. /\ Len(file'[c]) = l /\ DOMAIN file'[c] = 1 .. l
        /\ DOMAIN file'[c] = DOMAIN file[c] \cup {l} /\ file'[c][l] = r
    BY <2>1, <2>4, Zenon
  <2>6. \A k \in DOMAIN file'[c] : k <= l
    BY <1>6, <2>5
  <2> QED BY <2>4, <2>5, <2>6, Zenon
<1>9. /\ plugged' \in Seq(Entry)
      /\ DOMAIN plugged' = DOMAIN plugged /\ Len(plugged') = Len(plugged)
      /\ \A j \in DOMAIN plugged : /\ plugged'[j].client = plugged[j].client
                                   /\ plugged'[j].open => plugged[j].open
                                   /\ plugged'[j].connected = plugged[j].connected
  <2>1. /\ plugged' \in Seq(Entry)
        /\ DOMAIN plugged' = DOMAIN plugged /\ Len(plugged') = Len(plugged)
        /\ \A j \in DOMAIN plugged : /\ plugged'[j].client = plugged[j].client
                                     /\ plugged'[j].open => plugged[j].open
    BY <1>1, <1>3, EntryChanged DEF IInv, TypeOK
  <2>2. \A j \in DOMAIN plugged : plugged[j] \in Entry
    BY TableTypes DEF IInv, TypeOK
  <2>3. \A j \in DOMAIN plugged : plugged'[j].connected = plugged[j].connected
    BY <1>1, <2>2 DEF Entry
  <2> QED BY <2>1, <2>3
<1>10. /\ hungup \subseteq hungup'
       /\ hungup' \subseteq hungup \cup {plugged[j].client : j \in DOMAIN plugged}
       /\ \A j \in DOMAIN plugged :
            plugged'[j].open = plugged[j].open \/ plugged[j].client \in hungup'
       /\ IsStop(c) => \A j \in DOMAIN plugged : /\ ~plugged'[j].open
                                                 /\ plugged[j].client \in hungup'
       /\ ~IsStop(c) => plugged' = plugged /\ hungup' = hungup /\ canWork'
  <2>1. \A j \in DOMAIN plugged : plugged[j] \in Entry
    BY TableTypes DEF IInv, TypeOK
  <2>2. CASE IsStop(c)
    BY <1>1, <2>1, <2>2 DEF Entry
  <2>3. CASE ~IsStop(c)
    BY <1>1, <1>3, <2>3
  <2> QED BY <2>2, <2>3
<1> HIDE DEF r
<1>11. /\ CliTypeOK' /\ StagesAgree' /\ SeatedOnce' /\ ReadyForAReason'
       /\ PeerIsLast' /\ pc' = pc /\ acked' = acked
  BY <1>1, <1>5, <1>9, <1>10, TurnFrame
<1>12. NetTypeOK' /\ SrvTypeOK'
  <2>1. \A d \in Clients : taken'[d] <= arrived[d]
    BY <1>5, StreamTypes DEF IInv, TypeOK
  <2>2. ready' \subseteq 1 .. Len(plugged') /\ canWork' \in BOOLEAN
    BY <1>1, <1>9 DEF IInv, TypeOK, SrvTypeOK
  <2>3. hungup' \subseteq Clients /\ oks' \in [Clients -> Nat]
    <3>1. hungup \subseteq Clients /\ oks \in [Clients -> Nat]
      BY DEF IInv, TypeOK, NetTypeOK
    <3>2. oks' = [oks EXCEPT ![c] = oks[c] + 1]
      BY <1>1
    <3> QED BY <1>3, <1>10, <3>1, <3>2
  <2>4. NetTypeOK'
    BY <1>1, <1>5, <2>1, <2>3 DEF IInv, TypeOK, NetTypeOK, Pieces, MsgSize
  <2>5. SrvTypeOK'
    BY <1>1, <1>8, <1>9, <2>2 DEF IInv, TypeOK, SrvTypeOK
  <2> QED BY <2>4, <2>5
<1>13. OthersUntouched' /\ RecordedWereTaken' /\ InOrderOnce' /\ NamesArePlaced'
  <2>1. r.num # Junk => taken[c] < HeadOf(c, r.num) /\ HeadOf(c, r.num) <= taken'[c]
    BY <1>4, <1>5, <1>7
  <2> QED BY <1>2, <1>3, <1>5, <1>7, <1>9, <2>1, WriteKeeps DEF r
<1>14. AcksCountRecords'
  <2> SUFFICES ASSUME NEW d \in Clients \ (ended \cup hungup)
               PROVE  /\ acked[d] + oks'[d] <= Len(file'[d])
                      /\ ~TailMayDiffer => acked[d] + oks'[d] = Len(file'[d])
    BY <1>1, <1>10, <1>11 DEF AcksCountRecords
  <2>1. /\ acked[d] + oks[d] <= Len(file[d])
        /\ ~TailMayDiffer => acked[d] + oks[d] = Len(file[d])
        /\ acked[d] \in Nat /\ oks[d] \in Nat /\ Len(file[d]) \in Nat
    BY FileTypes DEF IInv, TypeOK, NetTypeOK, CliTypeOK, AcksCountRecords
  <2>2. CASE d = c
    <3>1. oks'[d] = oks[d] + 1 /\ Len(file'[d]) = Len(file[d]) + 1
      BY <1>1, <1>3, <1>8, <2>2 DEF IInv, TypeOK, NetTypeOK
    <3>2. acked[d] + oks'[d] = (acked[d] + oks[d]) + 1
      BY <2>1, <3>1
    <3> QED BY <2>1, <3>1, <3>2
  <2>3. CASE d # c
    <3>1. oks'[d] = oks[d] /\ file'[d] = file[d]
      BY <1>1, <1>3, <1>8, <2>3 DEF IInv, TypeOK, NetTypeOK
    <3> QED BY <2>1, <3>1
  <2> QED BY <2>2, <2>3
<1>15. EntriesAgree'
  <2> SUFFICES ASSUME NEW j \in DOMAIN plugged
               PROVE  LET d == plugged[j].client IN
                        /\ plugged'[j].open => d \notin hungup'
                        /\ ~plugged'[j].open => d \in ended \cup hungup'
                        /\ ~plugged[j].connected => taken'[d] = 0 /\ file'[d] = <<>>
                        /\ plugged[j].connected =>
                             \/ Len(file'[d]) < taken'[d]
                             \/ d \in hungup'
                             \/ d # c /\ Drained(d)
    <3>1. \A d \in Clients \ {c} : Drained(d)' <=> Drained(d)
      BY <1>1, <1>5 DEF Drained, AtEnd, Available
    <3> QED BY <1>1, <1>3, <1>9, <3>1 DEF EntriesAgree
  <2>1. plugged'[j].open => plugged[j].client \notin hungup'
    BY <1>10 DEF IInv, EntriesAgree
  <2>2. ~plugged'[j].open => plugged[j].client \in ended \cup hungup'
    BY <1>10 DEF IInv, EntriesAgree
  <2>3. CASE j = i
    <3>1. Len(file'[c]) < taken'[c]
      BY <1>5, <1>6, <1>8
    <3> QED BY <1>1, <2>1, <2>2, <2>3, <3>1
  <2>4. CASE j # i
    <3>1. /\ plugged[j].client \in Clients \ {c}
          /\ taken'[plugged[j].client] = taken[plugged[j].client]
          /\ file'[plugged[j].client] = file[plugged[j].client]
      BY <1>3, <1>5, <1>8, <2>4
    <3> QED BY <1>10, <2>1, <2>2, <3>1 DEF IInv, EntriesAgree
  <2> QED BY <2>3, <2>4
<1>16. WedgedForAReason'
  <2> SUFFICES ASSUME canWork', NEW j \in DOMAIN plugged, ~plugged'[j].open
               PROVE  plugged[j].client \in ended /\ taken'[plugged[j].client] = 0
    BY <1>1, <1>9 DEF WedgedForAReason
  <2>1. plugged' = plugged
    BY <1>1, <1>10
  <2>2. j # i /\ plugged[j].client \in Clients \ {c}
    BY <1>1, <1>3, <2>1
  <2>3. plugged[j].client \in ended /\ taken[plugged[j].client] = 0
    BY <1>3, <2>1 DEF IInv, WedgedForAReason
  <2> QED BY <1>5, <2>2, <2>3
<1>17. StopClosesAll'
  <2>1. PICK d \in Clients : d = c
    BY <1>3
  <2>2. ASSUME n # Junk, n \in Stops[c] PROVE SaidStop(d)'
    <3>1. l \in Recorded(d)' /\ file'[d][l].num \in Stops[d]
      BY <1>7, <1>8, <2>1, <2>2 DEF Recorded
    <3>2. \A k \in Recorded(d)' : k <= l
      BY <1>8, <2>1 DEF Recorded
    <3> QED BY <3>1, <3>2 DEF SaidStop
  <2>3. ASSUME <<taken[c] + 1, TakenBy(c)>> \in StopCuts[c] PROVE SaidStop(d)'
    <3>1. (taken[c] + 1) + TakenBy(c) = taken'[d] + 1
      BY <1>5, <2>1
    <3> QED BY <2>1, <2>3, <3>1 DEF SaidStop
  <2>4. IsStop(c) => \E e \in Clients : SaidStop(e)'
    BY <1>4, <2>2, <2>3
  <2> QED BY <1>3, <1>9, <1>10, <2>4 DEF StopClosesAll
<1> QED
  BY <1>11, <1>12, <1>13, <1>14, <1>15, <1>16, <1>17 DEF IInv, TypeOK

-----------------------------------------------------------------------------
(***************************************************************************)
(* The invariant and what follows from it.                                 *)
(***************************************************************************)

\* Nothing is connected, received or recorded at first.
LEMMA InitHolds == Init => IInv
<1> SUFFICES ASSUME Init PROVE IInv
  OBVIOUS
<1> USE DEF Init, NetInit, CliInit, SrvInit
<1>1. pending = <<>> /\ DOMAIN pending = {} /\ plugged = <<>> /\ DOMAIN plugged = {}
  BY EmptySeq
<1>2. \A c \in Clients : /\ file[c] = <<>> /\ DOMAIN file[c] = {} /\ Len(file[c]) = 0
                         /\ Recorded(c) = {}
  BY EmptySeq DEF Recorded
<1>3. \A c \in Clients : Lines[c] \in Nat /\ Pieces(c) \in Nat /\ Pieces(c) >= 1
  BY StreamShape
<1>4. NetTypeOK
  BY <1>1, <1>3, EmptySeq DEF NetTypeOK
<1>5. CliTypeOK
  BY <1>3, TcpClientAssumption DEF CliTypeOK
<1>6. SrvTypeOK
  <2>1. <<>> \in Seq(Entry) /\ <<>> \in Seq([num : Nat \cup {Junk}, name : Clients])
    BY EmptySeq
  <2> QED BY <2>1 DEF SrvTypeOK
<1>7. StagesAgree
  BY <1>3, TcpClientAssumption DEF StagesAgree
<1>8. SeatedOnce /\ EntriesAgree /\ ReadyForAReason /\ PeerIsLast /\ WedgedForAReason
  BY <1>1 DEF SeatedOnce, EntriesAgree, ReadyForAReason, PeerIsLast, WedgedForAReason
<1>9. OthersUntouched /\ RecordedWereTaken /\ InOrderOnce /\ NamesArePlaced
  BY <1>2 DEF OthersUntouched, RecordedWereTaken, InOrderOnce, NamesArePlaced
<1>10. AcksCountRecords
  BY <1>2 DEF AcksCountRecords
<1>11. StopClosesAll
  BY DEF StopClosesAll
<1> QED
  BY <1>4, <1>5, <1>6, <1>7, <1>8, <1>9, <1>10, <1>11 DEF IInv, TypeOK

\* Every step keeps the invariant.
LEMMA NextKeeps == IInv /\ [Next]_vars => IInv'
<1> SUFFICES ASSUME IInv, [Next]_vars PROVE IInv'
  OBVIOUS
<1>1. ASSUME NEW c \in Clients, Client(c) PROVE IInv'
  BY <1>1, ConnectKeeps, ConnectFailsKeeps, SendPieceKeeps, RecvOkKeeps,
     RecvNothingKeeps, CloseSideKeeps DEF Client, ClientStep
<1>2. ASSUME NEW c \in Clients, Killed(c) \/ Network(c) PROVE IInv'
  BY <1>2, CloseSideKeeps, ArriveKeeps, ResetKeeps DEF Killed, Network
<1>3. CASE Server
  <2>1. CASE Handle
    BY <1>3, <2>1, HandleMsgKeeps, HandleEndKeeps, HandlePutKeeps,
       HandleNoPutKeeps DEF Server, Handle
  <2> QED
    BY <1>3, <2>1, StartKeeps, SelectKeeps, EndTurnKeeps DEF Server, ServerStep
<1>4. CASE UNCHANGED vars
  <2>1. UNCHANGED <<cliVars, srvVars, sent, arrived, taken, oks, pending, ended, hungup>>
    BY <1>4 DEF vars, netVars
  <2>2. NetTypeOK' /\ CliTypeOK' /\ StagesAgree' /\ SeatedOnce'
    BY <2>1, ClientFrame, SeatsFrame DEF IInv, TypeOK, NetTypeOK
  <2>3. AcksCountRecords'
    BY <2>1, ClientFrame DEF IInv, AcksCountRecords, srvVars
  <2> QED BY <2>1, <2>2, <2>3, FileFrame, StreamFrame DEF IInv, TypeOK
<1> QED BY <1>1, <1>2, <1>3, <1>4 DEF Next

\* The inductive invariant holds in every state the pair can reach.
THEOREM Invariance == Spec => []IInv
BY InitHolds, NextKeeps, PTL DEF Spec

\* Every variable of the clients, the connections and the server keeps its type.
THEOREM TypeCorrect == Spec => []TypeOK
<1>1. IInv => TypeOK
  BY DEF IInv
<1> QED BY <1>1, Invariance, PTL

\* However TCP cuts and coalesces the stream, a client's messages stand in the
\* file in the order they were sent in and none stands there twice.
THEOREM MessagesInOrder == Spec => []InOrderOnce
<1>1. IInv => InOrderOnce
  BY DEF IInv
<1> QED BY <1>1, Invariance, PTL

\* While both sides are open the answers counted and under way are as many as
\* the records, or fewer if the byte behind "ok" may differ.
THEOREM AnswersMatchRecords == Spec => []AcksCountRecords
<1>1. IInv => AcksCountRecords
  BY DEF IInv
<1> QED BY <1>1, Invariance, PTL

\* Before STOP a socket of the table is closed only if its client was gone
\* before its "put" was taken.
THEOREM WedgedByTheGone == Spec => []WedgedForAReason
<1>1. IInv => WedgedForAReason
  BY DEF IInv
<1> QED BY <1>1, Invariance, PTL

\* The server ends only after the last whole message recorded of a client says
\* "stop", or the stream of a client was cut behind the letters "stop" of a part
\* of a message; no other cut ends it.
THEOREM StopEndsIt == Spec => []EndsAtStop
<1>1. IInv => EndsAtStop
  BY DEF IInv, StopClosesAll, EndsAtStop
<1> QED BY <1>1, Invariance, PTL

\* No record carries the address of a client accepted before its sender.
THEOREM NamesAreNotEarlier == Spec => []NamesSenderOrLater
<1>1. ASSUME IInv, NEW p \in DOMAIN plugged PROVE Position(plugged[p].client) = p
  BY <1>1 DEF IInv, SeatedOnce, Position
<1>2. IInv => NamesSenderOrLater
  BY <1>1 DEF IInv, NamesArePlaced, NamesSenderOrLater
<1> QED BY <1>2, Invariance, PTL

\* After STOP every turn finds its socket closed: nothing is received from a
\* socket and no answer made.
LEMMA NothingAfterStop ==
  ASSUME IInv, ~canWork, Next
  PROVE  taken' = taken /\ \A c \in Clients : oks'[c] <= oks[c]
<1>1. \A c \in Clients : oks[c] \in Nat /\ oks \in [Clients -> Nat]
  BY DEF IInv, TypeOK, NetTypeOK
<1>2. phase \in {"turn", "closed"} /\ \A i \in DOMAIN plugged : ~plugged[i].open
  BY DEF IInv, StopClosesAll
<1>3. ASSUME NEW c \in Clients, Client(c) \/ Killed(c) \/ Network(c)
      PROVE  taken' = taken /\ \A d \in Clients : oks'[d] <= oks[d]
  <2>1. CASE UNCHANGED <<taken, oks>>
    BY <1>1, <2>1
  <2>2. CASE RecvOk(c)
    BY <1>1, <2>2 DEF RecvOk
  <2>3. CASE Reset(c)
    BY <1>1, <2>3 DEF Reset
  <2> QED
    BY <1>3, <2>1, <2>2, <2>3
       DEF Client, Killed, Network, ClientStep, Connect, ConnectFails, SendPiece,
           RecvNothing, Finish, Die, CloseSide, Arrive, netVars
<1>4. CASE ServerStep
  <2>1. ~Start /\ ~StartFails /\ ~Select
    BY <1>2 DEF Start, StartFails, Select
  <2>2. ASSUME NEW i \in ready, Turn(i) PROVE ~HandleMsg(i) /\ ~HandlePut(i)
    BY <1>2, <2>2, TurnFacts DEF HandleMsg, HandlePut
  <2>3. UNCHANGED <<taken, oks>>
    BY <1>4, <2>1, <2>2
       DEF ServerStep, Handle, HandleEnd, HandleNoPut, EndTurn, netVars
  <2> QED BY <1>1, <2>3
<1> QED BY <1>3, <1>4 DEF Next, Server

\* Once "stop" was read nothing more is received or answered.
THEOREM NothingElseServed == Spec => StopIsFinal
<1>1. IInv /\ [Next]_vars =>
        [~canWork => /\ taken' = taken
                     /\ \A c \in Clients : oks'[c] <= oks[c]]_vars
  BY NothingAfterStop
<1> QED BY <1>1, Invariance, PTL DEF Spec, StopIsFinal

-----------------------------------------------------------------------------
(***************************************************************************)
(* The pair implements the answered log.                                   *)
(***************************************************************************)

Entries(c) == [k \in DOMAIN file[c] |-> file[c][k].num]

\* A record is one entry more.
LEMMA EntryAppended ==
  ASSUME SrvTypeOK, NEW c \in Clients,
         NEW r \in [num : Nat \cup {Junk}, name : Clients],
         file'[c] = Append(file[c], r)
  PROVE  Entries(c)' = Append(Entries(c), r.num)
<1> DEFINE R == [num : Nat \cup {Junk}, name : Clients]
           N == Nat \cup {Junk}
           n == Len(file[c])
           s == Entries(c)
           t == [k \in DOMAIN file'[c] |-> file'[c][k].num]
           u == Append(s, r.num)
<1>1. /\ file[c] \in Seq(R) /\ n \in Nat /\ DOMAIN file[c] = 1 .. n
      /\ \A k \in 1 .. n : file[c][k].num \in N
  BY FileTypes
<1>2. r.num \in N
  OBVIOUS
<1>3. /\ DOMAIN file'[c] = 1 .. n + 1
      /\ \A k \in 1 .. n : file'[c][k] = file[c][k]
      /\ file'[c][n + 1] = r
  BY <1>1, Appended
<1>4. s \in Seq(N) /\ Len(s) = n /\ \A k \in 1 .. n : s[k] = file[c][k].num
  <2>1. s \in [1 .. n -> N] /\ \A k \in 1 .. n : s[k] = file[c][k].num
    BY <1>1 DEF Entries
  <2>2. s \in Seq(N)
    BY <1>1, <2>1, SeqDef
  <2>3. DOMAIN s = 1 .. n /\ DOMAIN s = 1 .. Len(s) /\ Len(s) \in Nat
    BY <2>1, <2>2, LenProperties
  <2> QED BY <1>1, <2>1, <2>2, <2>3
<1> HIDE DEF N, R
<1>5. /\ u \in Seq(N) /\ DOMAIN u = 1 .. n + 1
      /\ \A k \in 1 .. n : u[k] = file[c][k].num
      /\ u[n + 1] = r.num
  <2>1. DOMAIN s = 1 .. n
    BY <1>4, LenProperties
  <2> HIDE DEF s, n
  <2> QED BY <1>2, <1>4, <2>1, Appended
<1>6. \A k \in 1 .. n + 1 : t[k] = u[k]
  <2> SUFFICES ASSUME NEW k \in 1 .. n + 1 PROVE t[k] = u[k]
    OBVIOUS
  <2>1. k \in 1 .. n \/ k = n + 1
    BY <1>1
  <2>2. t[k] = file'[c][k].num
    BY <1>3
  <2> QED BY <1>3, <1>5, <2>1, <2>2
<1>7. u = [k \in 1 .. n + 1 |-> u[k]]
  BY <1>5, LenProperties
<1>8. t = [k \in 1 .. n + 1 |-> t[k]]
  BY <1>3
<1>9. t = u
  BY <1>6, <1>7, <1>8
<1> QED BY <1>9 DEF Entries

\* The log as the refinement mapping has it.
Log == [c \in Clients |-> Entries(c)]

LEMMA LogEntered ==
  ASSUME SrvTypeOK, NEW c \in Clients,
         NEW r \in [num : Nat \cup {Junk}, name : Clients],
         file'[c] = Append(file[c], r),
         \A d \in Clients \ {c} : file'[d] = file[d]
  PROVE  Log' = [Log EXCEPT ![c] = Append(@, r.num)]
<1>1. Entries(c)' = Append(Entries(c), r.num)
  BY EntryAppended
<1>2. \A d \in Clients \ {c} : Entries(d)' = Entries(d)
  BY DEF Entries
<1> QED BY <1>1, <1>2 DEF Log

\* Steps of the clients: answers are received, and connections left.
LEMMA ClientImplements ==
  ASSUME IInv, NEW c \in Clients, ClientStep(c, Listening) \/ Die(c),
         UNCHANGED srvVars
  PROVE  AL!Next \/ UNCHANGED AL!vars
<1>1. file' = file /\ canWork' = canWork
  BY DEF srvVars
<1>2. acked \in [Clients -> Nat] /\ oks \in [Clients -> Nat]
  BY DEF IInv, TypeOK, CliTypeOK, NetTypeOK
<1>3. ASSUME NEW isOk, Count(c, isOk)
      PROVE  \/ acked' = acked
             \/ isOk /\ acked' = [acked EXCEPT ![c] = @ + 1]
  BY <1>2, <1>3 DEF Count
<1>4. CASE UNCHANGED <<oks, acked, ended, hungup>>
  BY <1>1, <1>4 DEF AL!vars
<1>5. CASE RecvOk(c)
  <2>1. PICK isOk : Count(c, isOk)
    BY <1>5 DEF RecvOk
  <2>2. /\ oks[c] > 0 /\ oks' = [oks EXCEPT ![c] = @ - 1]
        /\ UNCHANGED <<ended, hungup>>
    BY <1>5 DEF RecvOk
  <2>3. AL!Take(c)
    BY <1>1, <1>3, <2>1, <2>2 DEF AL!Take
  <2> QED BY <2>3 DEF AL!Next
<1>6. CASE RecvNothing(c)
  <2>1. PICK isOk : Count(c, isOk)
    BY <1>6 DEF RecvNothing
  <2>2. oks[c] = 0 /\ c \in hungup /\ UNCHANGED <<oks, ended, hungup>>
    BY <1>6 DEF RecvNothing, netVars
  <2>3. CASE acked' = [acked EXCEPT ![c] = @ + 1]
    <3>1. AL!TakeAgain(c)
      BY <1>1, <2>2, <2>3 DEF AL!TakeAgain
    <3> QED BY <3>1 DEF AL!Next
  <2> QED BY <1>3, <1>4, <2>1, <2>2, <2>3
<1>7. CASE Finish(c) \/ Die(c)
  <2>1. ended' = ended \cup {c} /\ UNCHANGED <<oks, acked, hungup>>
    BY <1>7 DEF Finish, Die, CloseSide
  <2>2. (ended \cup hungup)' \in SUBSET Clients
    BY <2>1 DEF IInv, TypeOK, NetTypeOK
  <2>3. AL!Leave
    BY <1>1, <2>1, <2>2 DEF AL!Leave
  <2> QED BY <2>3 DEF AL!Next
<1>8. ASSUME Connect(c, Listening) \/ ConnectFails(c, Listening) \/ SendPiece(c)
      PROVE  UNCHANGED <<oks, acked, ended, hungup>>
  BY <1>8 DEF Connect, ConnectFails, SendPiece, netVars
<1> QED BY <1>4, <1>5, <1>6, <1>7, <1>8 DEF ClientStep

\* The network makes no entry and no answer; a reset may lose answers.
LEMMA NetworkImplements ==
  ASSUME IInv, NEW c \in Clients, Arrive(c) \/ Reset(c),
         UNCHANGED <<cliVars, srvVars>>
  PROVE  AL!Next \/ UNCHANGED AL!vars
<1>1. UNCHANGED <<file, canWork, acked>>
  BY DEF srvVars, cliVars
<1>2. UNCHANGED <<ended, hungup>>
  BY DEF Arrive, Reset
<1>3. CASE oks' = oks
  BY <1>1, <1>2, <1>3 DEF AL!vars
<1>4. CASE c \in hungup /\ oks' = [oks EXCEPT ![c] = 0]
  <2>1. AL!LoseAnswers(c)
    BY <1>1, <1>2, <1>4 DEF AL!LoseAnswers
  <2> QED BY <2>1 DEF AL!Next
<1> QED BY <1>3, <1>4 DEF Arrive, Reset

\* A record of MSG, MSG_TOO_BIG or STOP is entered and its answer falls due.
LEMMA HandleMsgImplements ==
  ASSUME IInv, NEW i \in ready, Turn(i), HandleMsg(i), UNCHANGED cliVars
  PROVE  AL!Next
<1> DEFINE c == plugged[i].client
<1>1. /\ plugged[i].connected /\ plugged[i].open /\ Available(c) > 0
      /\ oks' = [oks EXCEPT ![c] = @ + 1]
      /\ canWork' = (canWork /\ ~IsStop(c))
      /\ \/ /\ IsStop(c)
            /\ hungup' = hungup \cup {plugged[j].client : j \in DOMAIN plugged}
         \/ ~IsStop(c) /\ hungup' = hungup
      /\ ended' = ended
  BY DEF HandleMsg, Answer, CloseAll
<1>2. PICK n \in Numbers(c) : Write(c, [num |-> n, name |-> peer])
  BY DEF HandleMsg, Address
<1> DEFINE r == [num |-> n, name |-> peer]
<1>3. /\ i \in DOMAIN plugged /\ c \in Clients /\ peer \in Clients /\ canWork
      /\ \A j \in DOMAIN plugged : plugged[j].client \in Clients
  BY <1>1, TurnFacts, TableTypes DEF IInv, TypeOK
<1>4. /\ n \in Nat \cup {Junk}
      /\ n # Junk => n \in Nat /\ HeadOf(c, n) = taken[c] + 1
      /\ IsStop(c) => n \in FinalEntries[c]
  <2>1. FinalEntries[c] = Stops[c] \cup IF StopCuts[c] = {} THEN {} ELSE {Junk}
    BY <1>3 DEF FinalEntries
  <2> QED BY <1>2, <1>3, <2>1, NumberOfRecord DEF IInv, TypeOK
<1>5. n \in 0 .. Lines[c] - 1 \cup {Junk}
  BY <1>2 DEF Numbers, Whole, LongWhole, Heads
<1>6. r \in [num : Nat \cup {Junk}, name : Clients] /\ r.num = n
  BY <1>3, <1>4
<1>7. Log' = [Log EXCEPT ![c] = Append(@, n)]
  <2>1. Len(file[c]) < MaxRecords
    BY <1>1, <1>3, RecordFits
  <2>2. file' = [file EXCEPT ![c] = Append(file[c], r)]
    BY <1>2, <2>1 DEF Write
  <2> HIDE DEF c, r
  <2>3. file'[c] = Append(file[c], r) /\ \A d \in Clients \ {c} : file'[d] = file[d]
    BY <1>3, <2>2 DEF IInv, TypeOK, SrvTypeOK
  <2>4. Log' = [Log EXCEPT ![c] = Append(@, r.num)]
    BY <1>3, <1>6, <2>3, LogEntered DEF IInv, TypeOK
  <2> QED BY <1>6, <2>4
<1>8. ASSUME n # Junk PROVE \A k \in DOMAIN Log[c] : Log[c][k] # Junk => Log[c][k] < n
  <2>1. taken[c] < HeadOf(c, n) /\ n \in Nat
    BY <1>3, <1>4, <1>8, StreamTypes DEF IInv, TypeOK
  <2>2. \A k \in Recorded(c) : file[c][k].num < n
    BY <1>3, <2>1, RecordedBefore
  <2> QED BY <1>3, <2>2 DEF Log, Entries, Recorded
<1>9. acked' = acked
  BY DEF cliVars
<1>10. \/ (ended \cup hungup)' = ended \cup hungup /\ canWork' = canWork
       \/ /\ n \in FinalEntries[c] /\ ~canWork'
          /\ (ended \cup hungup)' \in SUBSET Clients
          /\ ended \cup hungup \cup {c} \subseteq (ended \cup hungup)'
  <2>1. ended \subseteq Clients /\ hungup \subseteq Clients /\ canWork \in BOOLEAN
    BY DEF IInv, TypeOK, NetTypeOK, SrvTypeOK
  <2>2. CASE IsStop(c)
    BY <1>1, <1>3, <1>4, <2>1, <2>2
  <2>3. CASE ~IsStop(c)
    BY <1>1, <1>3, <2>1, <2>3
  <2> QED BY <2>2, <2>3
<1> HIDE DEF c
<1>11. PICK d \in Clients : d = c
  BY <1>3
<1>12. AL!Enter(d, n)
  BY <1>1, <1>3, <1>7, <1>8, <1>9, <1>10, <1>11
     DEF AL!Enter, AL!Later, Log, Entries
<1> QED BY <1>5, <1>11, <1>12 DEF AL!Next

\* The record without a message is one of a client whose connection is over.
LEMMA HandleEndImplements ==
  ASSUME IInv, NEW i \in ready, Turn(i), HandleEnd(i), UNCHANGED cliVars
  PROVE  AL!Next \/ UNCHANGED AL!vars
<1> DEFINE c == plugged[i].client
           r == [num |-> Junk, name |-> peer]
<1>1. c \in Clients /\ peer \in Clients /\ c \in ended \cup hungup
  <2>1. plugged[i].open => Available(c) = 0
    BY DEF HandleEnd
  <2> QED BY <2>1, TurnFacts
<1>2. Write(c, r) /\ UNCHANGED <<canWork, oks, ended, hungup, acked>>
  BY DEF HandleEnd, Address, netVars, cliVars
<1>3. r \in [num : Nat \cup {Junk}, name : Clients] /\ r.num = Junk
  BY <1>1
<1>4. CASE Len(file[c]) < MaxRecords
  <2>1. file' = [file EXCEPT ![c] = Append(file[c], r)]
    BY <1>2, <1>4 DEF Write
  <2> HIDE DEF c, r
  <2>2. file'[c] = Append(file[c], r) /\ \A d \in Clients \ {c} : file'[d] = file[d]
    BY <1>1, <2>1 DEF IInv, TypeOK, SrvTypeOK
  <2>3. Log' = [Log EXCEPT ![c] = Append(@, r.num)]
    BY <1>1, <1>3, <2>2, LogEntered DEF IInv, TypeOK
  <2>4. PICK d \in Clients : d = c
    BY <1>1
  <2>5. AL!EnterJunk(d)
    BY <1>1, <1>2, <1>3, <2>3, <2>4 DEF AL!EnterJunk, Log, Entries
  <2> QED BY <2>4, <2>5 DEF AL!Next
<1>5. CASE ~(Len(file[c]) < MaxRecords)
  <2>1. file' = file
    BY <1>1, <1>2, <1>5 DEF Write, IInv, TypeOK, SrvTypeOK
  <2> QED BY <1>2, <2>1 DEF AL!vars
<1> QED BY <1>4, <1>5

\* The other steps of the server make no entry and no answer; it hangs up at
\* most.
LEMMA OtherImplements ==
  ASSUME IInv, IInv', UNCHANGED <<cliVars, file, canWork, oks, ended>>,
         hungup \subseteq hungup'
  PROVE  AL!Next \/ UNCHANGED AL!vars
<1>1. acked' = acked
  BY DEF cliVars
<1>2. (ended \cup hungup)' \in SUBSET Clients
  BY DEF IInv, TypeOK, NetTypeOK
<1>3. AL!Leave
  BY <1>1, <1>2 DEF AL!Leave
<1> QED BY <1>3 DEF AL!Next

\* Every step of the server, seen through the log.
LEMMA ServerImplements ==
  ASSUME IInv, IInv', ServerStep, UNCHANGED cliVars
  PROVE  AL!Next \/ UNCHANGED AL!vars
<1>1. CASE Start \/ StartFails \/ Select \/ EndTurn
  <2>1. UNCHANGED <<file, canWork, oks, ended>> /\ hungup \subseteq hungup'
    BY <1>1 DEF Start, StartFails, Select, EndTurn, netVars
  <2> QED BY <2>1, OtherImplements
<1>2. ASSUME NEW i \in ready, Turn(i), HandlePut(i) \/ HandleNoPut(i)
      PROVE  AL!Next \/ UNCHANGED AL!vars
  <2>1. UNCHANGED <<file, canWork, oks, ended>> /\ hungup \subseteq hungup'
    BY <1>2 DEF HandlePut, HandleNoPut
  <2> QED BY <2>1, OtherImplements
<1>3. CASE Handle
  BY <1>2, <1>3, HandleMsgImplements, HandleEndImplements DEF Handle
<1> QED BY <1>1, <1>3 DEF ServerStep

\* Every behaviour of the pair is one of the answered log.
THEOREM Refinement == Spec => ImplementsLog
<1>1. Init => AL!Init
  <2> SUFFICES ASSUME Init PROVE AL!Init
    OBVIOUS
  <2>1. \A c \in Clients : [k \in DOMAIN file[c] |-> file[c][k].num] = <<>>
    BY DEF Init, SrvInit
  <2> QED BY <2>1 DEF AL!Init, Init, NetInit, CliInit, SrvInit
<1>2. IInv /\ IInv' /\ [Next]_vars => [AL!Next]_(AL!vars)
  <2> SUFFICES ASSUME IInv, IInv', [Next]_vars
               PROVE  AL!Next \/ UNCHANGED AL!vars
    OBVIOUS
  <2>1. CASE UNCHANGED vars
    BY <2>1 DEF vars, cliVars, srvVars, netVars, AL!vars
  <2>2. ASSUME NEW c \in Clients, Client(c) \/ Killed(c) \/ Network(c)
        PROVE  AL!Next \/ UNCHANGED AL!vars
    BY <2>2, ClientImplements, NetworkImplements DEF Client, Killed, Network
  <2> QED BY <2>1, <2>2, ServerImplements DEF Next, Server
<1> QED
  BY <1>1, <1>2, Invariance, PTL DEF Spec, ImplementsLog, AL!Spec
=============================================================================
