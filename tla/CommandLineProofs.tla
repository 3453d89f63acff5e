-------------------------- MODULE CommandLineProofs --------------------------
(***************************************************************************)
(* What the programs make of their arguments, whatever these are: the      *)
(* loop over the digits computes the value of the text, and from there on  *)
(* an inductive invariant relates ports and sockets to the arguments.      *)
(***************************************************************************)
EXTENDS CommandLine, NumeralsProofs

-----------------------------------------------------------------------------
(***************************************************************************)
(* The texts the programs are given.                                       *)
(***************************************************************************)

\* The arguments are texts.
LEMMA ArgvType ==
  ASSUME program \in Programs, argv \in Argvs[program]
  PROVE  argv \in Seq(Seq(Chars)) /\ \A k \in DOMAIN argv : argv[k] \in Seq(Chars)
<1>1. argv \in Seq(Seq(Chars))
  BY CommandLineAssumption DEF CommandLineAssumption
<1> QED BY <1>1

\* A text of digits has a number, which is its value.
LEMMA DigitText ==
  ASSUME NEW s \in Seq(Chars), Digits(s)
  PROVE  s \in Seq(Digit) /\ Number(s) \in Nat /\ Value(s) = Number(s)
<1>1. s \in Seq(Digit)
  <2>1. s \in [1 .. Len(s) -> Digit] /\ Len(s) \in Nat
    BY DEF Digits
  <2> QED BY <2>1
<1> QED BY <1>1, ValueIsNumber

\* char_to_int yields a number or ends the program.
LEMMA CharToIntType ==
  ASSUME NEW s \in Seq(Chars)
  PROVE  CharToInt(s) \in Nat \cup {None}
BY DigitText DEF CharToInt

\* The port of a client stands behind a colon.
LEMMA PortTextIs ==
  ASSUME NEW s \in Seq(Chars), Contains(s, Colon)
  PROVE  /\ PortText(s) \in Seq(Chars)
         /\ \E k \in DOMAIN s : s[k] = Colon /\ PortText(s) = SubSeq(s, k + 1, Len(s))
<1> DEFINE I == {i \in 1 .. Len(s) : s[i] = Colon}
<1>1. I \in SUBSET Nat /\ I # {}
  BY DEF Contains
<1>2. PICK m \in I : \A i \in I : m <= i
  BY <1>1, LeastNumber
<1>3. Min(I) \in I
  <2> HIDE DEF I
  <2> QED BY <1>2 DEF Min
<1>4. SelectInSeq(s, LAMBDA c : c = Colon) = Min(I)
  BY <1>1 DEF SelectInSeq
<1> DEFINE k == Min(I)
<1>5. k \in DOMAIN s /\ s[k] = Colon /\ PortText(s) = SubSeq(s, k + 1, Len(s))
  <2>1. PortText(s) = SubSeq(s, k + 1, Len(s))
    BY <1>4 DEF PortText
  <2> HIDE DEF k
  <2> QED BY <1>3, <2>1 DEF k
<1> HIDE DEF k
<1>6. SubSeq(s, k + 1, Len(s)) \in Seq(Chars)
  BY <1>5
<1> QED BY <1>5, <1>6

\* Sixteen bits of an int that ran over are those of the number.
LEMMA IntOfKeepsBits ==
  ASSUME NEW n \in Nat
  PROVE  IntOf(n) \in Int /\ SinPort(IntOf(n)) = n % 65536
<1> DEFINE h == IntSize \div 2
           q == (n + h) \div IntSize
<1>1. PICK k \in Nat \ {0} : IntSize = 131072 * k
  <2>1. IntSize \in Nat \ {0} /\ IntSize % 131072 = 0
    BY CommandLineAssumption DEF CommandLineAssumption
  <2>2. IntSize = 131072 * (IntSize \div 131072) /\ IntSize \div 131072 \in Nat \ {0}
    BY <2>1
  <2> QED BY <2>2
<1>2. h = 65536 * k /\ h \in Nat /\ IntSize \in Nat \ {0}
  BY <1>1
<1>3. q \in Int /\ (n + h) % IntSize = n + h - IntSize * q
  <2>1. \A a \in Nat, d \in Nat \ {0} : a \div d \in Int /\ a % d = a - d * (a \div d)
    OBVIOUS
  <2>2. n + h \in Nat
    BY <1>2
  <2> HIDE DEF h
  <2> QED BY <1>2, <2>1, <2>2
<1>4. IntOf(n) = n - IntSize * q
  <2>1. IntOf(n) = (n + h - IntSize * q) - h
    BY <1>3 DEF IntOf
  <2>2. IntSize * q \in Int
    BY <1>2, <1>3
  <2> HIDE DEF h, q
  <2> QED BY <1>2, <2>1, <2>2
<1>5. IntSize * q = 65536 * (2 * (k * q)) /\ k * q \in Int
  <2> HIDE DEF q
  <2>1. \A a, b \in Int : (131072 * a) * b = 65536 * (2 * (a * b)) /\ a * b \in Int
    OBVIOUS
  <2> QED BY <1>1, <1>3, <2>1
<1>6. \A a, b \in Int : (a - 65536 * b) % 65536 = a % 65536
  OBVIOUS
<1> DEFINE b == 2 * (k * q)
<1>7. b \in Int /\ IntOf(n) = n - 65536 * b
  <2> HIDE DEF q
  <2> QED BY <1>4, <1>5
<1> HIDE DEF b
<1> QED BY <1>6, <1>7 DEF SinPort

\* What a socket is bound to has sixteen bits.
LEMMA GivenType ==
  ASSUME NEW port \in Int
  PROVE  SinPort(port) \in SinPorts /\ Given(port) \in SinPorts
<1>1. Ephemeral \in SinPorts
  BY CommandLineAssumption DEF CommandLineAssumption
<1>2. SinPort(port) \in SinPorts
  BY DEF SinPort, SinPorts
<1> QED BY <1>1, <1>2 DEF Given

-----------------------------------------------------------------------------
(***************************************************************************)
(* Every step keeps the invariant.                                         *)
(***************************************************************************)

\* The ports of a range.
LEMMA PortRangeType ==
  ASSUME NEW first \in Nat, NEW last \in Nat, first <= last
  PROVE  /\ PortRange(first, last) \in Seq(Int)
         /\ Len(PortRange(first, last)) = last - first + 1
         /\ \A i \in 1 .. last - first + 1 : PortRange(first, last)[i] = first + i - 1
<1> DEFINE n == last - first + 1
<1>1. n \in Nat /\ \A i \in 1 .. n : first + i - 1 \in Int
  OBVIOUS
<1>2. PortRange(first, last) \in [1 .. n -> Int]
  BY <1>1 DEF PortRange
<1> HIDE DEF n
<1>3. PortRange(first, last) \in Seq(Int) /\ Len(PortRange(first, last)) = n
  BY <1>1, <1>2
<1> QED BY <1>3 DEF PortRange, n

\* Before the parser nothing has happened.
LEMMA InitInv == Init => IInv
<1> SUFFICES ASSUME Init PROVE IInv
  OBVIOUS
<1>1. TypeOK
  <2>1. path \in BOOLEAN
    BY Zenon DEF Init
  <2>2. ports = <<>> /\ bound = <<>> /\ stage = "parse"
    BY DEF Init
  <2>3. ports \in Seq(Int) /\ bound \in Seq(SinPorts)
    BY <2>2
  <2>4. program \in Programs /\ argv \in Argvs[program]
    BY DEF Init
  <2> QED BY <2>1, <2>2, <2>3, <2>4 DEF TypeOK
<1>2. ParsedOnce /\ BoundInOrder
  BY DEF Init, ParsedOnce, BoundInOrder
<1> QED BY <1>1, <1>2 DEF IInv

\* The parsers of the servers.
LEMMA ParseServerInv == IInv /\ ParseServer => IInv'
<1> SUFFICES ASSUME IInv, ParseServer PROVE IInv'
  OBVIOUS
<1> USE DEF IInv, IsServer
<1>1. /\ argv \in Seq(Seq(Chars)) /\ \A k \in DOMAIN argv : argv[k] \in Seq(Chars)
      /\ program \in Programs /\ argv \in Argvs[program]
      /\ UNCHANGED <<program, argv, bound, path>>
      /\ bound = <<>> /\ ~path
  BY ArgvType DEF TypeOK, ParsedOnce, ParseServer
<1>2. CASE program = "udp_server"
  <2>1. GetPorts
    BY <1>2 DEF ParseServer
  <2>2. CASE RangeTaken
    <3>1. FirstPort \in Nat /\ LastPort \in Nat /\ FirstPort <= LastPort
      <4>1. 1 \in DOMAIN argv /\ (Len(argv) > 1 => 2 \in DOMAIN argv)
        BY <1>1, <2>2 DEF RangeTaken
      <4> QED BY <1>1, <2>2, <4>1, CharToIntType DEF RangeTaken, FirstPort, LastPort, None
    <3>2. ports' = PortRange(FirstPort, LastPort) /\ ports' \in Seq(Int) /\ stage' = "bind"
      BY <2>1, <2>2, <3>1, PortRangeType DEF GetPorts
    <3>3. TypeOK'
      BY <1>1, <1>2, <3>2 DEF TypeOK
    <3>4. RangeTaken' /\ FirstPort' = FirstPort /\ LastPort' = LastPort
      BY <1>1, <2>2 DEF RangeTaken, FirstPort, LastPort
    <3>5. ParsedOnce'
      BY <1>1, <1>2, <3>2, <3>4 DEF ParsedOnce
    <3>6. BoundInOrder'
      BY <1>1, <1>2, <3>2 DEF BoundInOrder
    <3> QED BY <3>3, <3>5, <3>6
  <2>3. CASE ~RangeTaken
    <3>1. ports' = <<>> /\ stage' = "exit" /\ ~RangeTaken'
      BY <1>1, <2>1, <2>3 DEF GetPorts, RangeTaken, FirstPort, LastPort
    <3>2. TypeOK'
      BY <1>1, <1>2, <3>1 DEF TypeOK
    <3>3. ParsedOnce'
      BY <1>1, <1>2, <3>1 DEF ParsedOnce
    <3>4. BoundInOrder'
      BY <1>1, <1>2, <3>1 DEF BoundInOrder
    <3> QED BY <3>2, <3>3, <3>4
  <2> QED BY <2>2, <2>3
<1>3. CASE program = "tcp_server"
  <2>1. GetPort /\ program # "udp_server"
    BY <1>3 DEF ParseServer
  <2>2. CASE stage' = "thrown"
    <3>1. ports' = ports /\ ports = <<>>
      BY <2>1, <2>2 DEF GetPort, ParsedOnce, ParseServer
    <3>2. TypeOK'
      BY <1>1, <1>3, <2>2, <3>1 DEF TypeOK
    <3>3. ParsedOnce'
      BY <1>1, <1>3, <2>2, <3>1 DEF ParsedOnce
    <3>4. BoundInOrder'
      BY <1>1, <1>3, <2>2, <3>1 DEF BoundInOrder
    <3> QED BY <3>2, <3>3, <3>4
  <2>3. CASE stage' # "thrown"
    <3>1. /\ stage' = "bind" /\ PortTaken' = PortTaken
          /\ ports' = <<IF PortTaken THEN Number(argv[1]) ELSE -1>>
      BY <1>1, <2>1, <2>3 DEF GetPort, PortTaken
    <3>2. PortTaken => Number(argv[1]) \in Nat
      <4> SUFFICES ASSUME PortTaken PROVE Number(argv[1]) \in Nat
        OBVIOUS
      <4>1. argv[1] \in Seq(Chars) /\ Digits(argv[1])
        BY <1>1 DEF PortTaken
      <4> QED BY <4>1, DigitText
    <3>3. ports' \in Seq(Int)
      BY <3>1, <3>2
    <3>4. TypeOK'
      BY <1>1, <1>3, <3>1, <3>3 DEF TypeOK
    <3>5. ParsedOnce'
      BY <1>1, <1>3, <3>1 DEF ParsedOnce
    <3>6. BoundInOrder'
      BY <1>1, <1>3, <3>1 DEF BoundInOrder
    <3> QED BY <3>4, <3>5, <3>6
  <2> QED BY <2>2, <2>3
<1> QED BY <1>2, <1>3 DEF ParseServer

\* The next port is bound behind those that are bound.
LEMMA BindInv == IInv /\ Bind => IInv'
<1> SUFFICES ASSUME IInv, Bind PROVE IInv'
  OBVIOUS
<1> USE DEF IInv
<1> DEFINE n == Len(bound)
<1>1. /\ UNCHANGED <<program, argv, stage, ports, path>> /\ stage = "bind"
      /\ ports \in Seq(Int) /\ bound \in Seq(SinPorts) /\ n < Len(ports)
      /\ bound' = Append(bound, Given(ports[n + 1]))
  BY DEF Bind, TypeOK
<1>2. IsServer /\ IsServer'
  BY <1>1 DEF TypeOK, IsServer
<1>3. Given(ports[n + 1]) \in SinPorts
  <2>1. ports[n + 1] \in Int
    BY <1>1
  <2> QED BY <2>1, GivenType
<1>4. /\ bound' \in Seq(SinPorts) /\ Len(bound') = n + 1
      /\ bound'[n + 1] = Given(ports[n + 1]) /\ \A i \in 1 .. n : bound'[i] = bound[i]
      /\ DOMAIN bound' = 1 .. n + 1 /\ DOMAIN bound = 1 .. n /\ n \in Nat
  <2> DEFINE g == Given(ports[n + 1])
  <2> HIDE DEF g
  <2>1. g \in SinPorts /\ bound' = Append(bound, g)
    BY <1>1, <1>3 DEF g
  <2>2. /\ bound' \in Seq(SinPorts) /\ Len(bound') = n + 1
        /\ bound'[n + 1] = g /\ \A i \in 1 .. n : bound'[i] = bound[i]
        /\ DOMAIN bound' = 1 .. n + 1 /\ DOMAIN bound = 1 .. n /\ n \in Nat
    BY <1>1, <2>1
  <2> QED BY <2>2 DEF g
<1>5. TypeOK'
  BY <1>1, <1>4 DEF TypeOK, IsServer
<1>6. ParsedOnce'
  BY <1>1 DEF ParsedOnce, RangeTaken, FirstPort, LastPort, PortTaken
<1>7. \A i \in DOMAIN bound' : bound'[i] = Given(ports'[i])
  <2>1. \A i \in 1 .. n : bound'[i] = Given(ports[i])
    BY <1>2, <1>4 DEF BoundInOrder
  <2>2. bound'[n + 1] = Given(ports[n + 1])
    BY <1>4
  <2>3. 1 .. n + 1 = (1 .. n) \cup {n + 1}
    BY <1>4
  <2>4. \A i \in 1 .. n + 1 : bound'[i] = Given(ports[i])
    <3> HIDE DEF n
    <3> QED BY <2>1, <2>2, <2>3
  <2>5. DOMAIN bound' = 1 .. n + 1 /\ ports' = ports
    BY <1>1, <1>4
  <2> HIDE DEF n
  <2> QED BY <2>4, <2>5
<1>8. Len(bound') <= Len(ports')
  BY <1>1, <1>4
<1>9. BoundInOrder'
  BY <1>1, <1>7, <1>8 DEF BoundInOrder
<1> QED BY <1>5, <1>6, <1>9

\* The steps that leave the ports and the sockets alone.
LEMMA SetUpInv == IInv /\ (SetUpFails \/ Serve \/ NoFile) => IInv'
<1> SUFFICES ASSUME IInv, SetUpFails \/ Serve \/ NoFile PROVE IInv'
  OBVIOUS
<1> USE DEF IInv, SetUpFails, Serve, NoFile
<1>1. UNCHANGED <<program, argv, ports, bound, path>>
  OBVIOUS
<1>2. /\ stage \in {"bind", "check"} /\ stage' \in {"exit", "serving"}
      /\ stage' = "serving" => stage = "bind" /\ Len(bound) = Len(ports)
  OBVIOUS
<1>3. stage = "bind" => IsServer
  BY DEF TypeOK
<1>4. TypeOK'
  BY <1>1, <1>2, <1>3 DEF TypeOK, IsServer
<1>5. ParsedOnce'
  BY <1>1, <1>2 DEF ParsedOnce, RangeTaken, FirstPort, LastPort, PortTaken
<1>6. BoundInOrder'
  BY <1>1, <1>2 DEF BoundInOrder, IsServer
<1> QED BY <1>4, <1>5, <1>6

\* The parser of the clients stores the name of the file last.
LEMMA ParseClientInv == IInv /\ ParseClient => IInv'
<1> SUFFICES ASSUME IInv, ParseClient PROVE IInv'
  OBVIOUS
<1> USE DEF IInv, IsServer
<1> DEFINE text == PortText(argv[1])
           addressed == Len(argv) = 2 /\ Contains(argv[1], Colon)
           port == IF addressed THEN ParsePort(text) ELSE None
<1>1. /\ UNCHANGED <<program, argv, bound>> /\ stage' = "check"
      /\ program \notin {"udp_server", "tcp_server"}
      /\ program \in Programs /\ argv \in Argvs[program]
      /\ ports' = (IF port < 0 THEN <<>> ELSE <<port>>)
      /\ path' = PathStored(port)
  BY DEF ParseClient, TypeOK
<1>2. addressed => text \in Seq(Chars)
  <2> SUFFICES ASSUME addressed PROVE text \in Seq(Chars)
    OBVIOUS
  <2>1. argv[1] \in Seq(Chars)
    BY <1>1, ArgvType
  <2> QED BY <2>1, PortTextIs
<1>3. /\ port \in Int
      /\ port >= 0 => addressed /\ Digits(text) /\ port = IntOf(Number(text))
  <2>1. CASE addressed /\ Digits(text)
    <3>1. Number(text) \in Nat
      BY <1>2, <2>1, DigitText
    <3>2. port = IntOf(Number(text)) /\ IntOf(Number(text)) \in Int
      BY <2>1, <3>1, IntOfKeepsBits DEF ParsePort
    <3> QED BY <2>1, <3>2
  <2>2. CASE ~(addressed /\ Digits(text))
    BY <2>2 DEF ParsePort, None
  <2> QED BY <2>1, <2>2
<1> HIDE DEF port
<1>4. TypeOK'
  <2>1. ports' \in Seq(Int)
    BY <1>1, <1>3
  <2>2. path' \in BOOLEAN
    BY <1>1 DEF PathStored
  <2> QED BY <1>1, <2>1, <2>2 DEF TypeOK
<1>5. ParsedOnce'
  <2>1. path' => port >= 0
    <3>1. path' = PathStored(port)
      BY <1>1
    <3>2. PathStored(port) => port >= 0
      BY DEF PathStored
    <3> QED BY <3>1, <3>2, Zenon
  <2>2. path' => ports' = <<port>>
    BY <1>1, <1>3, <2>1
  <2> QED BY <1>1, <1>3, <2>1, <2>2 DEF ParsedOnce
<1>6. BoundInOrder'
  BY <1>1 DEF BoundInOrder
<1> QED BY <1>4, <1>5, <1>6

\* Only a stored port becomes the address of the server.
LEMMA FileFoundInv == IInv /\ FileFound => IInv'
<1> SUFFICES ASSUME IInv, FileFound PROVE IInv'
  OBVIOUS
<1> USE DEF IInv, IsServer
<1>1. /\ UNCHANGED <<program, argv, ports, path>> /\ stage = "check" /\ stage' = "ready"
      /\ program \notin {"udp_server", "tcp_server"} /\ path
  BY DEF FileFound, TypeOK
<1>2. ports # <<>> /\ ports[1] \in Int
  <2>1. ports = <<IntOf(Number(PortText(argv[1])))>>
    BY <1>1 DEF ParsedOnce
  <2> QED BY <2>1 DEF TypeOK
<1>3. bound' = <<SinPort(ports[1])>>
  BY <1>1, <1>2 DEF FileFound
<1>4. TypeOK'
  <2>1. SinPort(ports[1]) \in SinPorts
    BY <1>2, GivenType
  <2>2. bound' \in Seq(SinPorts)
    BY <1>3, <2>1
  <2> QED BY <1>1, <2>2 DEF TypeOK
<1>5. ParsedOnce'
  BY <1>1 DEF ParsedOnce
<1>6. BoundInOrder'
  BY <1>1, <1>3 DEF BoundInOrder
<1> QED BY <1>4, <1>5, <1>6

\* Ports and sockets follow from the arguments as the invariant says.
THEOREM Invariance == Spec => []IInv
<1>1. IInv /\ [Next]_vars => IInv'
  <2> SUFFICES ASSUME IInv, [Next]_vars PROVE IInv'
    OBVIOUS
  <2>1. CASE Next
    BY <2>1, ParseServerInv, BindInv, SetUpInv, ParseClientInv, FileFoundInv DEF Next
  <2>2. CASE UNCHANGED vars
    BY <2>2 DEF vars, IInv, TypeOK, ParsedOnce, BoundInOrder, IsServer,
                RangeTaken, FirstPort, LastPort, PortTaken
  <2> QED BY <2>1, <2>2
<1> QED BY InitInv, <1>1, PTL DEF Spec

-----------------------------------------------------------------------------
(***************************************************************************)
(* What the arguments lead to.                                             *)
(***************************************************************************)

\* A text the UDP server makes a number of is the value of its digits.
LEMMA CharToIntIsValue ==
  ASSUME NEW s \in Seq(Chars), CharToInt(s) # None
  PROVE  /\ Digits(s) /\ Len(s) <= 5
         /\ CharToInt(s) = Value(s) /\ Value(s) \in Nat
BY DigitText DEF CharToInt

\* The ports the UDP server takes are those that are asked for.
LEMMA TakenIsAsked ==
  ASSUME IInv, program = "udp_server", RangeTaken
  PROVE  /\ FirstPort = Value(argv[1])
         /\ LastPort = IF Len(argv) > 1 THEN Value(argv[2]) ELSE Value(argv[1])
         /\ FirstPort \in Nat /\ LastPort \in Nat /\ FirstPort >= 1 /\ FirstPort <= LastPort
         /\ \A k \in DOMAIN argv : k <= 2 => Digits(argv[k]) /\ Len(argv[k]) <= 5
<1>1. argv \in Seq(Seq(Chars)) /\ \A k \in DOMAIN argv : argv[k] \in Seq(Chars)
  BY ArgvType DEF IInv, TypeOK
<1>2. /\ Len(argv) \in Nat /\ Len(argv) >= 1 /\ DOMAIN argv = 1 .. Len(argv)
      /\ CharToInt(argv[1]) >= 1 /\ LastPort # None /\ FirstPort <= LastPort
      /\ FirstPort = CharToInt(argv[1])
  BY <1>1 DEF RangeTaken, FirstPort
<1>3. CharToInt(argv[1]) # None
  BY <1>2 DEF None
<1>4. /\ Digits(argv[1]) /\ Len(argv[1]) <= 5
      /\ FirstPort = Value(argv[1]) /\ FirstPort \in Nat
  BY <1>1, <1>2, <1>3, CharToIntIsValue
<1>5. CASE Len(argv) > 1
  <2>1. LastPort = CharToInt(argv[2]) /\ argv[2] \in Seq(Chars)
    BY <1>1, <1>2, <1>5 DEF LastPort
  <2>2. /\ Digits(argv[2]) /\ Len(argv[2]) <= 5
        /\ LastPort = Value(argv[2]) /\ LastPort \in Nat
    BY <1>2, <2>1, CharToIntIsValue
  <2> QED BY <1>2, <1>4, <1>5, <2>2
<1>6. CASE ~(Len(argv) > 1)
  BY <1>2, <1>4, <1>6 DEF LastPort
<1> QED BY <1>5, <1>6

\* The range a UDP server serves: its sockets are bound to all of the ports.
LEMMA RangeIsBound ==
  ASSUME IInv, program = "udp_server", stage = "serving"
  PROVE  /\ RangeTaken /\ ports = PortRange(FirstPort, LastPort)
         /\ LastPort <= 65535 => Range(bound) = FirstPort .. LastPort
         /\ Range(bound) = {Given(p) : p \in FirstPort .. LastPort}
         /\ Len(bound) = LastPort - FirstPort + 1
<1> DEFINE n == LastPort - FirstPort + 1
<1>1. RangeTaken /\ ports = PortRange(FirstPort, LastPort)
  BY DEF IInv, ParsedOnce
<1>2. FirstPort \in Nat /\ LastPort \in Nat /\ FirstPort >= 1 /\ FirstPort <= LastPort
  BY <1>1, TakenIsAsked
<1>3. /\ Len(ports) = n /\ DOMAIN ports = 1 .. n /\ n \in Nat
      /\ \A i \in 1 .. n : ports[i] = FirstPort + i - 1
  <2>1. /\ ports \in Seq(Int) /\ Len(ports) = n
        /\ \A i \in 1 .. n : ports[i] = FirstPort + i - 1
    BY <1>1, <1>2, PortRangeType
  <2>2. n \in Nat
    BY <1>2
  <2> HIDE DEF n
  <2> QED BY <2>1, <2>2
<1>4. Range(ports) = FirstPort .. LastPort
  <2>1. \A i \in 1 .. n : FirstPort + i - 1 \in FirstPort .. LastPort
    BY <1>2
  <2>2. \A p \in FirstPort .. LastPort :
          p - FirstPort + 1 \in 1 .. n /\ p = FirstPort + (p - FirstPort + 1) - 1
    BY <1>2
  <2> HIDE DEF n
  <2> QED BY <1>3, <2>1, <2>2 DEF Range
<1>5. /\ bound \in Seq(SinPorts) /\ Len(bound) = n /\ DOMAIN bound = 1 .. n
      /\ \A i \in 1 .. n : bound[i] = Given(ports[i])
  <2>1. /\ bound \in Seq(SinPorts) /\ Len(bound) = Len(ports)
        /\ \A i \in DOMAIN bound : bound[i] = Given(ports[i])
    BY DEF IInv, TypeOK, BoundInOrder, IsServer
  <2> HIDE DEF n
  <2> QED BY <1>3, <2>1
<1>6. ASSUME LastPort <= 65535 PROVE Range(bound) = FirstPort .. LastPort
  <2>1. ASSUME NEW i \in 1 .. n PROVE bound[i] = ports[i]
    <3>1. FirstPort + i - 1 \in Nat /\ FirstPort + i - 1 >= 1 /\ FirstPort + i - 1 <= 65535
      BY <1>2, <1>6
    <3>2. \A p \in Nat : p >= 1 /\ p <= 65535 => p % 65536 = p /\ p # 0
      OBVIOUS
    <3>3. Given(FirstPort + i - 1) = FirstPort + i - 1
      BY <3>1, <3>2 DEF Given, SinPort
    <3> QED BY <1>3, <1>5, <3>3
  <2> HIDE DEF n
  <2>2. Range(bound) = Range(ports)
    BY <1>3, <1>5, <2>1 DEF Range
  <2> QED BY <1>4, <2>2
<1>7. Range(bound) = {Given(p) : p \in FirstPort .. LastPort}
  <2>1. Range(bound) = {Given(p) : p \in Range(ports)}
    <3> HIDE DEF n
    <3> QED BY <1>3, <1>5 DEF Range
  <2> QED BY <1>4, <2>1
<1> QED BY <1>1, <1>5, <1>6, <1>7

\* Whatever its arguments are, the UDP server that serves was given numbers from 1
\* on, and has bound a socket for each of their range, to the sixteen bits of the
\* number.
THEOREM ServesSixteenBits == Spec => []NothingElseServed
<1>1. IInv => NothingElseServed
  <2> DEFINE Bits(p) == IF p % 65536 = 0 THEN Ephemeral ELSE p % 65536
  <2> SUFFICES ASSUME IInv, program = "udp_server", stage = "serving"
               PROVE  /\ \A k \in DOMAIN argv : k <= 2 => Digits(argv[k]) /\ Len(argv[k]) <= 5
                      /\ 0 \notin Asked /\ Len(bound) = Cardinality(Asked)
                      /\ Range(bound) = {Bits(p) : p \in Asked}
    BY DEF NothingElseServed
  <2>1. /\ RangeTaken /\ Len(bound) = LastPort - FirstPort + 1
        /\ Range(bound) = {Given(p) : p \in FirstPort .. LastPort}
    BY RangeIsBound
  <2>2. /\ FirstPort \in Nat /\ LastPort \in Nat /\ FirstPort >= 1 /\ FirstPort <= LastPort
        /\ Asked = FirstPort .. LastPort
    BY <2>1, TakenIsAsked DEF Asked
  <2>3. \A k \in DOMAIN argv : k <= 2 => Digits(argv[k]) /\ Len(argv[k]) <= 5
    BY <2>1, TakenIsAsked
  <2>4. 0 \notin FirstPort .. LastPort
    BY <2>2
  <2>5. Cardinality(FirstPort .. LastPort) = LastPort - FirstPort + 1
    BY <2>2, FS_Interval
  <2>6. \A p : Bits(p) = Given(p)
    BY DEF Given, SinPort
  <2> HIDE DEF Bits
  <2>7. Range(bound) = {Bits(p) : p \in Asked}
    BY <2>1, <2>2, <2>6
  <2> QED BY <2>1, <2>2, <2>3, <2>4, <2>5, <2>7
<1> QED BY Invariance, <1>1, PTL

\* Arguments that ask for ports there are.
LEMMA ProperIsTaken ==
  ASSUME IInv, Proper
  PROVE  /\ program = "udp_server" =>
              RangeTaken /\ LastPort <= 65535 /\ Asked = FirstPort .. LastPort
         /\ program = "tcp_server" =>
              /\ PortTaken /\ Number(argv[1]) \in Nat
              /\ Number(argv[1]) >= 1 /\ Number(argv[1]) <= 65535
              /\ Asked = Number(argv[1]) .. Number(argv[1])
<1>1. /\ argv \in Seq(Seq(Chars)) /\ \A k \in DOMAIN argv : argv[k] \in Seq(Chars)
      /\ DOMAIN argv = 1 .. Len(argv) /\ Len(argv) \in Nat
  BY ArgvType DEF IInv, TypeOK
<1>2. Len(argv) >= 1
  BY <1>1 DEF Proper
<1>3. ASSUME NEW k \in DOMAIN argv, k <= 2
      PROVE  /\ Digits(argv[k]) /\ Len(argv[k]) <= 5
             /\ Number(argv[k]) = Value(argv[k]) /\ Number(argv[k]) \in Nat
             /\ Number(argv[k]) >= 1 /\ Number(argv[k]) <= 65535
             /\ CharToInt(argv[k]) = Number(argv[k])
  <2>1. Digits(argv[k]) /\ Len(argv[k]) <= 5 /\ Value(argv[k]) \in SinPorts \ {0}
    BY <1>3 DEF Proper, IsPort
  <2>2. Number(argv[k]) = Value(argv[k]) /\ Number(argv[k]) \in Nat
    BY <1>1, <2>1, DigitText
  <2>3. CharToInt(argv[k]) = Number(argv[k])
    BY <2>1 DEF CharToInt
  <2>4. \A v \in SinPorts \ {0} : v >= 1 /\ v <= 65535
    BY DEF SinPorts
  <2> QED BY <2>1, <2>2, <2>3, <2>4
<1>4. 1 \in DOMAIN argv
  BY <1>1, <1>2
<1>5. ASSUME program = "udp_server"
      PROVE  RangeTaken /\ LastPort <= 65535 /\ Asked = FirstPort .. LastPort
  <2>1. FirstPort = Number(argv[1]) /\ FirstPort = Value(argv[1]) /\ FirstPort \in Nat
    BY <1>3, <1>4 DEF FirstPort
  <2>2. /\ LastPort \in Nat /\ LastPort >= FirstPort /\ LastPort <= 65535
        /\ LastPort = IF Len(argv) > 1 THEN Value(argv[2]) ELSE Value(argv[1])
    <3>1. CASE Len(argv) > 1
      <4>1. 2 \in DOMAIN argv /\ Value(argv[1]) <= Value(argv[2])
        BY <1>1, <3>1 DEF Proper
      <4> QED BY <1>3, <2>1, <3>1, <4>1 DEF LastPort
    <3>2. CASE ~(Len(argv) > 1)
      BY <1>3, <1>4, <2>1, <3>2 DEF LastPort
    <3> QED BY <3>1, <3>2
  <2>3. FirstPort >= 1
    BY <1>3, <1>4, <2>1
  <2>4. RangeTaken
    BY <1>2, <2>1, <2>2, <2>3 DEF RangeTaken, None
  <2> QED BY <2>1, <2>2, <2>4 DEF Asked
<1>6. ASSUME program = "tcp_server"
      PROVE  /\ PortTaken /\ Number(argv[1]) \in Nat
             /\ Number(argv[1]) >= 1 /\ Number(argv[1]) <= 65535
             /\ Asked = Number(argv[1]) .. Number(argv[1])
  <2>1. Len(argv) = 1
    BY <1>6 DEF Proper
  <2>2. PortTaken
    BY <1>3, <1>4, <2>1 DEF PortTaken
  <2>3. Asked = Number(argv[1]) .. Number(argv[1])
    BY <1>3, <1>4, <2>1 DEF Asked
  <2> QED BY <1>3, <1>4, <2>2, <2>3
<1> QED BY <1>5, <1>6

\* Ports that are asked for properly are served, all of them and no other.
THEOREM AskedIsServed == Spec => []ServesWhatIsAsked
<1>1. IInv => ServesWhatIsAsked
  <2> SUFFICES ASSUME IInv, Proper
               PROVE  /\ stage = "exit" => ports # <<>>
                      /\ stage = "serving" =>
                           Range(bound) = Asked /\ Len(bound) = Cardinality(Asked)
    BY DEF ServesWhatIsAsked
  <2>1. program \in {"udp_server", "tcp_server"}
    BY DEF Proper, IsServer
  <2>2. CASE program = "udp_server"
    <3>1. /\ RangeTaken /\ LastPort <= 65535 /\ Asked = FirstPort .. LastPort
          /\ FirstPort \in Nat /\ LastPort \in Nat /\ FirstPort <= LastPort
      BY <2>2, ProperIsTaken, TakenIsAsked
    <3>2. ASSUME stage = "exit" PROVE ports # <<>>
      <4>1. ports = PortRange(FirstPort, LastPort)
        BY <2>2, <3>1, <3>2 DEF IInv, ParsedOnce
      <4>2. Len(PortRange(FirstPort, LastPort)) = LastPort - FirstPort + 1
        BY <3>1, PortRangeType
      <4>3. Len(ports) = LastPort - FirstPort + 1
        BY <4>1, <4>2
      <4> QED BY <3>1, <4>3
    <3>3. ASSUME stage = "serving"
          PROVE  Range(bound) = Asked /\ Len(bound) = Cardinality(Asked)
      <4>1. Range(bound) = FirstPort .. LastPort /\ Len(bound) = LastPort - FirstPort + 1
        BY <2>2, <3>1, <3>3, RangeIsBound
      <4>2. Cardinality(FirstPort .. LastPort) = LastPort - FirstPort + 1
        BY <3>1, FS_Interval
      <4> QED BY <3>1, <4>1, <4>2
    <3> QED BY <3>2, <3>3
  <2>3. CASE program = "tcp_server"
    <3> DEFINE p == Number(argv[1])
    <3>1. PortTaken /\ p \in Nat /\ p >= 1 /\ p <= 65535 /\ Asked = p .. p
      BY <2>3, ProperIsTaken
    <3> HIDE DEF p
    <3>2. stage \notin {"parse", "thrown"} => ports = <<p>>
      BY <2>3, <3>1 DEF IInv, ParsedOnce, p
    <3>3. ASSUME stage = "serving"
          PROVE  Range(bound) = Asked /\ Len(bound) = Cardinality(Asked)
      <4>1. /\ bound \in Seq(SinPorts) /\ Len(bound) = Len(ports)
            /\ \A i \in DOMAIN bound : bound[i] = Given(ports[i])
        BY <2>3, <3>3 DEF IInv, TypeOK, BoundInOrder, IsServer
      <4>2. p % 65536 = p /\ p # 0 /\ p \in Int /\ p .. p = {p}
        BY <3>1
      <4>3. Given(p) = p
        BY <4>2 DEF Given, SinPort
      <4>4. Len(ports) = 1 /\ ports[1] = p
        BY <3>2, <3>3
      <4>5. DOMAIN bound = {1} /\ bound[1] = p /\ Len(bound) = 1
        BY <4>1, <4>3, <4>4
      <4>6. Range(bound) = {p}
        BY <4>5 DEF Range
      <4>7. Cardinality({p}) = 1
        BY FS_Singleton
      <4> QED BY <3>1, <4>2, <4>5, <4>6, <4>7
    <3>4. stage = "exit" => ports # <<>>
      BY <3>2
    <3> QED BY <3>3, <3>4
  <2> QED BY <2>1, <2>2, <2>3
<1> QED BY Invariance, <1>1, PTL

\* The TCP server listens on the number it took from its argument.
THEOREM ListensWhereItSays == Spec => []TakenIsBound
<1>1. IInv => TakenIsBound
  <2> SUFFICES ASSUME IInv, program = "tcp_server", stage = "serving", ports[1] > 0
               PROVE  bound = ports
    BY DEF TakenIsBound
  <2> DEFINE p == Number(argv[1])
  <2>1. ports = <<IF PortTaken THEN p ELSE -1>>
    BY DEF IInv, ParsedOnce
  <2>2. PortTaken /\ ports = <<p>> /\ p > 0
    BY <2>1
  <2>3. p \in Nat /\ p <= 65535
    <3>1. argv \in Seq(Seq(Chars)) /\ \A k \in DOMAIN argv : argv[k] \in Seq(Chars)
      BY ArgvType DEF IInv, TypeOK
    <3>2. argv[1] \in Seq(Chars) /\ Digits(argv[1])
      BY <2>2, <3>1 DEF PortTaken
    <3> QED BY <2>2, <3>2, DigitText DEF PortTaken
  <2> HIDE DEF p
  <2>4. Given(p) = p
    <3>1. p % 65536 = p /\ p # 0
      BY <2>2, <2>3
    <3> QED BY <3>1 DEF Given, SinPort
  <2>5. /\ bound \in Seq(SinPorts) /\ Len(bound) = Len(ports)
        /\ \A i \in DOMAIN bound : bound[i] = Given(ports[i])
    BY DEF IInv, TypeOK, BoundInOrder, IsServer
  <2>6. Len(ports) = 1 /\ ports[1] = p
    BY <2>2
  <2>7. Len(bound) = 1 /\ bound[1] = p
    BY <2>4, <2>5, <2>6
  <2>8. bound = <<p>>
    BY <2>5, <2>7
  <2> QED BY <2>2, <2>8
<1> QED BY Invariance, <1>1, PTL

\* A client talks to the port behind the first colon, as far as sixteen bits
\* hold it, however long the text is and although an int may run over.
THEOREM ClientTalksToGivenPort == Spec => []TalksToGivenPort
<1>1. IInv => TalksToGivenPort
  <2> SUFFICES ASSUME IInv, stage = "ready"
               PROVE  /\ Len(argv) = 2
                      /\ \E k \in DOMAIN argv[1] :
                           LET text == SubSeq(argv[1], k + 1, Len(argv[1]))
                           IN  /\ argv[1][k] = Colon
                               /\ Digits(text)
                               /\ bound = <<Value(text) % 65536>>
    BY DEF TalksToGivenPort
  <2> DEFINE text == PortText(argv[1])
  <2>1. /\ Len(argv) = 2 /\ Contains(argv[1], Colon) /\ Digits(text)
        /\ ports = <<IntOf(Number(text))>> /\ bound = <<SinPort(ports[1])>>
    BY DEF IInv, ParsedOnce, BoundInOrder
  <2>2. argv[1] \in Seq(Chars)
    <3>1. argv \in Seq(Seq(Chars)) /\ \A k \in DOMAIN argv : argv[k] \in Seq(Chars)
      BY ArgvType DEF IInv, TypeOK
    <3> QED BY <2>1, <3>1
  <2>3. /\ text \in Seq(Chars)
        /\ \E k \in DOMAIN argv[1] :
             argv[1][k] = Colon /\ text = SubSeq(argv[1], k + 1, Len(argv[1]))
    BY <2>1, <2>2, PortTextIs
  <2>4. Number(text) \in Nat /\ Value(text) = Number(text)
    BY <2>1, <2>3, DigitText
  <2>5. SinPort(IntOf(Number(text))) = Value(text) % 65536
    BY <2>4, IntOfKeepsBits
  <2>6. bound = <<Value(text) % 65536>>
    BY <2>1, <2>5
  <2> HIDE DEF text
  <2> QED BY <2>1, <2>3, <2>6
<1> QED BY Invariance, <1>1, PTL
=============================================================================
