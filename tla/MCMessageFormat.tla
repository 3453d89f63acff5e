--------------------------- MODULE MCMessageFormat ---------------------------
(***************************************************************************)
(* Lines for MessageFormat: for the TCP client, one part of the line runs  *)
(* through every arrangement of a few characters; for the UDP client, its  *)
(* numbers run through the boundaries of the fields.                       *)
(***************************************************************************)
EXTENDS MessageFormat

Date1 == <<51, 49, 46, 49, 50, 46, 50, 48, 49, 55>>   \* 31.12.2017
Date2 == <<48, 49, 46, 49, 49, 46, 48, 57, 49, 56>>   \* 01.11.0918
Time  == <<49, 56, 58, 49, 57, 58, 53, 57>>           \* 18:19:59

L(d1, d2, t) == [date1 |-> d1, date2 |-> d2, time |-> t]

\* Every arrangement of some digits and the separator.
Arranged(n, digits, sep) == [1 .. n -> digits \cup {sep}]

\* The arrangements with separators in the third and the sixth place only.
Shaped(n, digits, sep) ==
  {[i \in 1 .. n |-> IF i \in {3, 6} THEN sep ELSE s[i]] : s \in [1 .. n -> digits]}

\* A letter in one place of a well-formed part.
Spoiled(s) == {[s EXCEPT ![i] = 120] : i \in DOMAIN s}

Nine == Zero + 9

TcpInputs ==
  {L(d, Date2, Time) : d \in Arranged(10, {Nine}, Dot) \cup Spoiled(Date1)
                               \cup Shaped(10, {Zero, Nine}, Dot)}
    \cup {L(Date1, d, Time) : d \in Shaped(10, {Zero, Nine}, Dot)}
    \cup {L(Date1, Date2, t) : t \in Arranged(8, {Zero, Nine}, Colon) \cup Spoiled(Time)}

\* The numbers at which a field changes its mind.
Written(n) == IF n < 0 THEN <<Minus>> \o Decimal(-n) ELSE Decimal(n)
Small == {-129, -128, -3, -1, 0, 9, 10, 99, 100, 127, 128, 255, 256, 300}
Years == {-1, 0, 9, 10, 99, 100, 999, 1000, 2017, 9999, 10000, 65535, 65536, 100000, 100001, -100001, -100002}

Joined(x, y, z, sep) == Written(x) \o <<sep>> \o Written(y) \o <<sep>> \o Written(z)

UdpInputs ==
  {L(Joined(d, m, y, Dot), Date2, Time) : d \in Small, m \in Small, y \in Years}
    \cup {L(Date1, Joined(d, m, 2018, Dot), Time) : d \in Small, m \in Small}
    \cup {L(Date1, Date2, Joined(h, 59, s, Colon)) : h \in Small, s \in Small}
    \cup {L(Date1, Date2, Time), L(<<>>, Date2, Time),
             L(Date1, <<9, Plus, 49, 46, 32, 50, 46, Plus, 50, 120>>, Time),
             L(Date1, Date2, <<49, 58, Plus, Minus, 50, 58, 51>>), L(Date1, SubSeq(Date2, 1, 5), Time)}

AllInputs == [check \in BOOLEAN |-> IF check THEN TcpInputs ELSE UdpInputs]
=============================================================================
