---------------------------- MODULE MessageFormat ----------------------------
(***************************************************************************)
(* The way of one line of the client's file into msg.txt, as far as its    *)
(* two dates and its time are concerned: the format check, the parser with *)
(* its 8 and 16 bit fields, the bytes on the wire and the text the server  *)
(* writes.  The four programs share this code but for the check, which     *)
(* only the TCP client makes (checked).                                    *)
(*                                                                         *)
(* A character is its code.  A line is taken apart at its spaces already;  *)
(* the text behind the time is copied as it is and left out.               *)
(***************************************************************************)
EXTENDS Numerals

CONSTANTS
  Inputs,   \* the lines considered, for a client with and for one without the
            \* check: records of date1, date2 and time
  IntMax    \* the greatest int, 2^31 - 1 on the platforms of the programs

Chars == {c \in Nat : c < 256}

ASSUME FormatAssumption ==
  /\ Inputs \in [BOOLEAN ->
       SUBSET [date1 : Seq(Chars), date2 : Seq(Chars), time : Seq(Chars)]]
  /\ IntMax \in Nat /\ IntMax >= 65535

VARIABLES
  checked, \* whether the client checks the format of a line
  line,    \* the line in the file
  stage,   \* how far it has come
  fields,  \* parsed_message: three numbers for each part
  header,  \* bytes 4 to 14 of the message on the wire
  text     \* the parts as the server writes them

vars == <<checked, line, stage, fields, header, text>>

Dot   == 46
Colon == 58
Plus  == 43
Minus == 45
Zero  == 48

\* What isspace takes for a blank.
Blanks == {9, 10, 11, 12, 13, 32}

IsDigit(c) == c \in Zero .. Zero + 9

Sep(part) == IF part = "time" THEN Colon ELSE Dot

Parts == {"date1", "date2", "time"}

-----------------------------------------------------------------------------
(***************************************************************************)
(* The client.                                                             *)
(***************************************************************************)

\* Mutant: the second separator is not looked for.
IfRightPartOneSeparator(part, s) ==
  /\ s[3] = Sep(part)
  /\ \A i \in DOMAIN s : s[i] = Sep(part) \/ IsDigit(s[i])

\* if_right_date and if_right_time: the separators are in their places and
\* every character is a digit or, wherever it stands, a separator.
IfRightPart(part, s) ==
  /\ s[3] = Sep(part) /\ s[6] = Sep(part)
  /\ \A i \in DOMAIN s : s[i] = Sep(part) \/ IsDigit(s[i])

\* if_right_format; the sizes stand for the minimal length and the spaces.
IfRightFormat(l) ==
  \A part \in Parts :
    /\ Len(l[part]) = IF part = "time" THEN 8 ELSE 10
    /\ IfRightPart(part, l[part])

\* What is left of s behind the characters of skipped it starts with.
Skip(s, skipped) ==
  LET kept == {i \in DOMAIN s : s[i] \notin skipped}
  IN  IF kept = {} THEN <<>> ELSE SubSeq(s, Min(kept), Len(s))

\* Mutant: separators that follow a separator are not skipped.
SplitStringKeepsRuns(str, sep) ==
  LET split[s \in Seq(Int)] ==
        IF ~Contains(s, sep) THEN <<s>>
        ELSE LET pos == Min({i \in DOMAIN s : s[i] = sep})
             IN  <<SubSeq(s, 1, pos - 1)>> \o split[SubSeq(s, pos + 1, Len(s))]
  IN  split[str]

\* split_string.
SplitString(str, sep) ==
  LET split[s \in Seq(Int)] ==
        IF ~Contains(s, sep) THEN <<s>>
        ELSE LET pos == Min({i \in DOMAIN s : s[i] = sep})
             IN  <<SubSeq(s, 1, pos - 1)>>
                   \o split[Skip(SubSeq(s, pos + 1, Len(s)), {sep})]
  IN  split[str]

\* The digits s starts with.
Digits(s) ==
  LET rest == {i \in DOMAIN s : ~IsDigit(s[i])}
  IN  IF rest = {} THEN s ELSE SubSeq(s, 1, Min(rest) - 1)

\* std::stoi takes a sign and the digits that follow, behind any blanks; it
\* throws where there is none, or more than an int can hold.
Signed(s)    == s # <<>> /\ s[1] \in {Plus, Minus}
Magnitude(s) == LET d == Digits(IF Signed(s) THEN Tail(s) ELSE s)
                IN  Number([i \in DOMAIN d |-> d[i] - Zero])

Stoi(piece) ==
  LET s == Skip(piece, Blanks)
  IN  IF Signed(s) /\ s[1] = Minus THEN -Magnitude(s) ELSE Magnitude(s)

StoiThrows(piece) ==
  LET s == Skip(piece, Blanks)
  IN  \/ Digits(IF Signed(s) THEN Tail(s) ELSE s) = <<>>
      \/ Stoi(piece) > IntMax
      \/ Stoi(piece) < -IntMax - 1

\* Mutant: the fields are unsigned.
CharUnsigned(n) == n % 256

\* (char) of an int, a signed byte on the platforms of the programs.
Char(n) == ((n + 128) % 256) - 128

\* (uint16_t) of an int.
UInt16(n) == n % 65536

\* parse_date and parse_time: the first three pieces, more are ignored.
ParsePart(part, s) ==
  LET data == SplitString(s, Sep(part))
  IN  << Char(Stoi(data[1])), Char(Stoi(data[2])),
         IF part = "time" THEN Char(Stoi(data[3])) ELSE UInt16(Stoi(data[3])) >>

\* A piece that stands before any missing one makes stoi throw first.
ParseThrows(part, s) ==
  LET data == SplitString(s, Sep(part))
  IN  \E i \in 1 .. Min({3, Len(data)}) : StoiThrows(data[i])

\* data[2] or data[1] of a vector that is too short.
ParseUndefined(part, s) ==
  ~ParseThrows(part, s) /\ Len(SplitString(s, Sep(part))) < 3

\* Mutant: htons is forgotten.
DateBytesHostOrder(d) == <<d[1] % 256, d[2] % 256, d[3] % 256, d[3] \div 256>>

\* One part in network order: a byte for each char, the year's high byte first.
DateBytes(d) == <<d[1] % 256, d[2] % 256, d[3] \div 256, d[3] % 256>>
TimeBytes(t) == <<t[1] % 256, t[2] % 256, t[3] % 256>>

\* assemble_msg, and the sends of handle_msg that put the same bytes into the
\* stream: the parts follow each other behind the four bytes of the number.
AssembleMsg(f) ==
  LET bytes == DateBytes(f.date1) \o DateBytes(f.date2) \o TimeBytes(f.time)
  IN  [i \in 4 .. 14 |-> bytes[i - 3]]

-----------------------------------------------------------------------------
(***************************************************************************)
(* The server.                                                             *)
(***************************************************************************)

\* Mutant: ntohs is forgotten.
DateAtHostOrder(h, at) == <<Char(h[at]), Char(h[at + 1]), h[at + 2] + 256 * h[at + 3]>>

\* Three fields copied from the message, the year through ntohs.
DateAt(h, at) == <<Char(h[at]), Char(h[at + 1]), 256 * h[at + 2] + h[at + 3]>>

TimeAt(h, at) == <<Char(h[at]), Char(h[at + 1]), Char(h[at + 2])>>

\* The fields get_parsed_datetime copies from their places in the message.
ReadFields(h) ==
  [date1 |-> DateAt(h, 4), date2 |-> DateAt(h, 8), time |-> TimeAt(h, 12)]

Decimal(n) == [i \in DOMAIN Numeral[n] |-> Zero + Numeral[n][i]]

\* int_to_str: a negative number has one character, below '0', since its
\* remainder is negative and its quotient is not above 0.
IntToStr(n) == IF n >= 0 THEN Decimal(n) ELSE <<Zero - ((-n) % 10)>>

\* What is put before a number to give it its width.
Padding(n, width) ==
  IF width = 2 THEN IF n < 10 THEN <<Zero>> ELSE <<>>
  ELSE IF n < 10 THEN <<Zero, Zero, Zero>>
       ELSE IF n < 100 THEN <<Zero, Zero>>
       ELSE IF n < 1000 THEN <<Zero>> ELSE <<>>

Padded(n, width) == Padding(n, width) \o IntToStr(n)

\* date_to_str and time_to_str.
PartToStr(part, f) ==
  Padded(f[1], 2) \o <<Sep(part)>> \o Padded(f[2], 2) \o <<Sep(part)>>
    \o Padded(f[3], IF part = "time" THEN 2 ELSE 4)

-----------------------------------------------------------------------------
None == <<>>

Init ==
  /\ checked \in BOOLEAN
  /\ line \in Inputs[checked]
  /\ stage = "read"
  /\ fields = None /\ header = None /\ text = None

\* Mutant: a line of another format is reported and sent all the same.
CheckUnheeded ==
  /\ stage = "read"
  /\ stage' = "checked"
  /\ UNCHANGED <<checked, line, fields, header, text>>

\* send_client_msgs skips a line of another format; the UDP client has no check.
Check ==
  /\ stage = "read"
  /\ stage' = IF checked /\ ~IfRightFormat(line) THEN "skipped" ELSE "checked"
  /\ UNCHANGED <<checked, line, fields, header, text>>

\* parse_msg, part after part; an exception or an index beyond the vector's end
\* is the end of what the program defines.
Parse ==
  /\ stage = "checked"
  /\ LET bad == {part \in Parts : \/ ParseThrows(part, line[part])
                                  \/ ParseUndefined(part, line[part])}
         first == IF "date1" \in bad THEN "date1"
                  ELSE IF "date2" \in bad THEN "date2" ELSE "time"
     IN  IF bad # {}
         THEN /\ stage' = IF ParseThrows(first, line[first])
                          THEN "thrown" ELSE "undefined"
              /\ UNCHANGED fields
         ELSE /\ fields' = [part \in Parts |-> ParsePart(part, line[part])]
              /\ stage' = "parsed"
  /\ UNCHANGED <<checked, line, header, text>>

Send ==
  /\ stage = "parsed"
  /\ header' = AssembleMsg(fields)
  /\ stage' = "sent"
  /\ UNCHANGED <<checked, line, fields, text>>

\* assemble_client_msg and the write to the file.
Write ==
  /\ stage = "sent"
  /\ LET f == ReadFields(header)
     IN  text' = [part \in Parts |-> PartToStr(part, f[part])]
  /\ stage' = "written"
  /\ UNCHANGED <<checked, line, fields, header>>

Next == Check \/ Parse \/ Send \/ Write

Spec == Init /\ [][Next]_vars

-----------------------------------------------------------------------------
(***************************************************************************)
(* Properties                                                              *)
(***************************************************************************)

Thrown(l)    == \E part \in Parts : ParseThrows(part, l[part])
Undefined(l) == \E part \in Parts : ParseUndefined(part, l[part])

\* The numbers fit into a char and a uint16_t, the header is made of bytes.
CharField(n) == n \in Int /\ -128 <= n /\ n <= 127
WordField(n) == n \in Nat /\ n <= 65535

FieldsOf(part, d) ==
  /\ d = <<d[1], d[2], d[3]>> /\ CharField(d[1]) /\ CharField(d[2])
  /\ IF part = "time" THEN CharField(d[3]) ELSE WordField(d[3])

AreFields(f) == f = [part \in Parts |-> f[part]] /\ \A part \in Parts : FieldsOf(part, f[part])

TypeOK ==
  /\ checked \in BOOLEAN /\ line \in Inputs[checked]
  /\ stage \in {"read", "skipped", "checked", "thrown", "undefined",
                "parsed", "sent", "written"}
  /\ stage \in {"parsed", "sent", "written"} => AreFields(fields)
  /\ stage \in {"sent", "written"} => header \in [4 .. 14 -> Chars]

\* A client with the check sends only lines of the format, and skips no other.
OnlyFormatSent ==
  /\ stage = "skipped" => checked /\ ~IfRightFormat(line)
  /\ checked /\ stage \notin {"read", "skipped"} => IfRightFormat(line)

\* The client stops at a line only for a number that is none or is too large, or
\* for a missing piece; the fields of the others are those of their pieces.
StopsForAReason ==
  /\ stage = "thrown" => Thrown(line)
  /\ stage = "undefined" => Undefined(line)
  /\ stage \in {"parsed", "sent", "written"} =>
       /\ ~Thrown(line) /\ ~Undefined(line)
       /\ fields = [part \in Parts |-> ParsePart(part, line[part])]

\* Whatever the fields hold, wrapped numbers and negative ones too: the server
\* reads from the bytes on the wire what the client parsed, and writes that.
FieldsArrive ==
  /\ stage \in {"sent", "written"} => ReadFields(header) = fields
  /\ stage = "written" => text = [part \in Parts |-> PartToStr(part, fields[part])]

\* The inductive invariant.
IInv == TypeOK /\ OnlyFormatSent /\ StopsForAReason /\ FieldsArrive

\* A reference for split_string: a piece starts at the beginning and behind each
\* maximal run of separators, and ends before the next separator.
Starts(s, sep) ==
  {i \in 1 .. Len(s) + 1 :
     i = 1 \/ (s[i - 1] = sep /\ (i = Len(s) + 1 \/ s[i] # sep))}

PieceAt(s, sep, i) ==
  SubSeq(s, i, Min({j \in i .. Len(s) + 1 : j = Len(s) + 1 \/ s[j] = sep}) - 1)

Pieces(s, sep) ==
  LET starts == Starts(s, sep)
      rank(i) == Cardinality({j \in starts : j <= i})
  IN  [k \in 1 .. Cardinality(starts) |->
         PieceAt(s, sep, CHOOSE i \in starts : rank(i) = k)]

\* split_string cuts at runs of separators, keeps an empty piece before a
\* leading and behind a trailing run, and keeps everything between them.
SplitAgrees ==
  \A part \in Parts :
    SplitString(line[part], Sep(part)) = Pieces(line[part], Sep(part))

\* Digits in every place but those of the two separators.
WellFormed(l) ==
  \A part \in Parts :
    /\ Len(l[part]) = IF part = "time" THEN 8 ELSE 10
    /\ \A i \in DOMAIN l[part] : IF i \in {3, 6} THEN l[part][i] = Sep(part)
                                 ELSE IsDigit(l[part][i])

\* A line of digits passes the check and the parser, and the server writes its
\* dates and its time character by character as they stand in the client's file,
\* through 8 and 16 bit fields, byte order and padding.
WellFormedArrives ==
  WellFormed(line) =>
    /\ stage \notin {"skipped", "thrown", "undefined"}
    /\ stage = "written" => text = line

\* A line the check lets through without being one of digits may end the client
\* or change on its way, but what is written has the checked format again.
AcceptedKeepsShape == checked /\ stage = "written" => IfRightFormat(text)

\* The text of a part as its numbers demand, whatever their size.
TrueText(part) ==
  LET piece(i) == Pieces(line[part], Sep(part))[i]
      value(i) == Stoi(piece(i))
      shown(i, w) == IF value(i) < 0 THEN <<Minus>> \o Decimal(-value(i))
                     ELSE Padding(value(i), w) \o Decimal(value(i))
  IN  shown(1, 2) \o <<Sep(part)>> \o shown(2, 2) \o <<Sep(part)>>
        \o shown(3, IF part = "time" THEN 2 ELSE 4)

InRange(part) ==
  LET value(i) == Stoi(Pieces(line[part], Sep(part))[i])
  IN  /\ value(1) \in 0 .. 127 /\ value(2) \in 0 .. 127
      /\ value(3) \in 0 .. (IF part = "time" THEN 127 ELSE 65535)

\* Without the check, the numbers of a line arrive if and only if they fit into
\* their fields: nothing else on the way changes them.
ArrivesIffInRange ==
  ~checked /\ stage = "written" =>
    \A part \in Parts : text[part] = TrueText(part) <=> InRange(part)
=============================================================================
