----------------------------- MODULE CommandLine -----------------------------
(***************************************************************************)
(* From the arguments of a program to the ports it serves, or to the port  *)
(* it talks to.  program is one of the four: the servers take one port, or *)
(* for UDP a first and a last one; the clients take "address:port" and the *)
(* name of a file.                                                         *)
(*                                                                         *)
(* A digit stands for itself; every other character is Colon or Letter.    *)
(***************************************************************************)
EXTENDS Numerals

CONSTANTS
  Argvs,      \* bound: for each program, the lists of arguments considered
  Ephemeral,  \* a port the kernel picks where a program binds port 0
  IntSize     \* how many values an int has, 2^32 on the platforms of the programs

Colon  == 10
Letter == 11
Chars  == Digit \cup {Colon, Letter}

SinPorts == {port \in Nat : port < 65536}

Programs == {"udp_server", "tcp_server", "udp_client", "tcp_client"}

ASSUME CommandLineAssumption ==
  /\ Argvs \in [Programs -> SUBSET Seq(Seq(Chars))]
  /\ Ephemeral \in SinPorts \ {0}
  /\ IntSize \in Nat \ {0} /\ IntSize % 131072 = 0

VARIABLES
  program, \* which of the four runs
  argv,    \* the arguments behind the name of the program
  stage,   \* how far main has come
  ports,   \* the ports of the program, as it prints them
  bound,   \* sin_port of the sockets that are bound, or of the server's address
  path     \* whether the name of the file has been stored

vars == <<program, argv, stage, ports, bound, path>>

IsServer == program \in {"udp_server", "tcp_server"}

Digits(s) == \A i \in DOMAIN s : s[i] \in Digit

\* An int that runs over goes on at the other end, in every step of a loop or
\* once behind it.
IntOf(n) == ((n + IntSize \div 2) % IntSize) - IntSize \div 2

\* htons takes sixteen bits of the int.
SinPort(port) == port % 65536

-----------------------------------------------------------------------------
(***************************************************************************)
(* The servers.                                                            *)
(***************************************************************************)

\* Mutant: what is not a digit is skipped.
CharToIntSkips(s) == Number(SelectSeq(s, LAMBDA c : c \in Digit))

\* char_to_int; the exit of the program is None.
None == -1
CharToInt(s) == IF Len(s) <= 5 /\ Digits(s) THEN Number(s) ELSE None

\* Mutant: the last port is left out.
PortRangeOpen(first, last) == [i \in 1 .. last - first |-> first + i - 1]

\* number_of_ports ports from the first one on.
PortRange(first, last) == [i \in 1 .. last - first + 1 |-> first + i - 1]

FirstPort == CharToInt(argv[1])
LastPort  == IF Len(argv) > 1 THEN CharToInt(argv[2]) ELSE FirstPort

RangeTaken ==
  /\ Len(argv) >= 1
  /\ FirstPort >= 1
  /\ LastPort # None /\ LastPort >= FirstPort

\* get_and_init_ports: a failure is an exit at once.
GetPorts ==
  /\ stage' = IF RangeTaken THEN "bind" ELSE "exit"
  /\ ports' = IF RangeTaken THEN PortRange(FirstPort, LastPort) ELSE <<>>

\* Mutant: any number of five digits is a port.
GetPortUnchecked ==
  LET taken == Len(argv) = 1 /\ Len(argv[1]) <= 5 /\ Digits(argv[1])
  IN  /\ stage' = "bind"
      /\ ports' = IF taken THEN <<Number(argv[1])>> ELSE <<-1>>

PortTaken ==
  /\ Len(argv) = 1
  /\ Len(argv[1]) <= 5 /\ Digits(argv[1])
  /\ Number(argv[1]) <= 65535

\* get_port returns -1 for what is not a port, which main does not look at;
\* stoi throws on an argument without a digit.
GetPort ==
  IF Len(argv) = 1 /\ argv[1] = <<>>
  THEN stage' = "thrown" /\ UNCHANGED ports
  ELSE /\ stage' = "bind"
       /\ ports' = <<IF PortTaken THEN Number(argv[1]) ELSE -1>>

ParseServer ==
  /\ IsServer /\ stage = "parse"
  /\ \/ program = "udp_server" /\ GetPorts
     \/ program = "tcp_server" /\ GetPort
  /\ UNCHANGED <<program, argv, bound, path>>

\* For port 0 the kernel picks one.
Given(port) == IF SinPort(port) = 0 THEN Ephemeral ELSE SinPort(port)

\* The next socket is bound; a port is bound once at most.
Bind ==
  /\ stage = "bind" /\ Len(bound) < Len(ports)
  /\ LET given == Given(ports[Len(bound) + 1])
     IN  /\ given \notin Range(bound)
         /\ bound' = Append(bound, given)
  /\ UNCHANGED <<program, argv, stage, ports, path>>

\* A socket cannot be had, its port is in use, or listen or epoll fails: the
\* program ends.
SetUpFails ==
  /\ stage = "bind"
  /\ stage' = "exit"
  /\ UNCHANGED <<program, argv, ports, bound, path>>

Serve ==
  /\ stage = "bind" /\ Len(bound) = Len(ports)
  /\ stage' = "serving"
  /\ UNCHANGED <<program, argv, ports, bound, path>>

-----------------------------------------------------------------------------
(***************************************************************************)
(* The clients.                                                            *)
(***************************************************************************)

\* parse_cmd_to_addr stops behind the first colon; None where there is none.
PortText(s) == SubSeq(s, SelectInSeq(s, LAMBDA c : c = Colon) + 1, Len(s))

\* parse_cmd_to_port takes digits without end.
ParsePort(s) == IF Digits(s) THEN IntOf(Number(s)) ELSE None

\* Mutant: the name of the file is stored whatever the address looks like.
PathStoredFirst(port) == Len(argv) = 2

\* parse_cmd stores the name of the file last, after everything that can fail.
PathStored(port) == Len(argv) = 2 /\ port >= 0

\* parse_cmd; main does not look at its result.
ParseClient ==
  /\ ~IsServer /\ stage = "parse"
  /\ LET port == IF Len(argv) = 2 /\ Contains(argv[1], Colon)
                 THEN ParsePort(PortText(argv[1])) ELSE None
     IN  /\ ports' = IF port < 0 THEN <<>> ELSE <<port>>
         /\ path' = PathStored(port)
  /\ stage' = "check"
  /\ UNCHANGED <<program, argv, bound>>

\* if_file_exists: an empty name is never that of a file.  The TCP client's name
\* is an array nobody has set; what it holds is taken for no file's name.
NoFile ==
  /\ stage = "check"
  /\ stage' = "exit"
  /\ UNCHANGED <<program, argv, ports, bound, path>>

\* The file is there, and the address of the server is filled in; a port that
\* was not stored can be any.
FileFound ==
  /\ stage = "check" /\ path
  /\ stage' = "ready"
  /\ \E p \in IF ports = <<>> THEN {0, 65535} ELSE {ports[1]} :
       bound' = <<SinPort(p)>>
  /\ UNCHANGED <<program, argv, ports, path>>

-----------------------------------------------------------------------------
Init ==
  /\ program \in Programs
  /\ argv \in Argvs[program]
  /\ stage = "parse"
  /\ ports = <<>>
  /\ bound = <<>>
  /\ path = FALSE

Next == ParseServer \/ Bind \/ SetUpFails \/ Serve
          \/ ParseClient \/ NoFile \/ FileFound

Spec == Init /\ [][Next]_vars

-----------------------------------------------------------------------------
(***************************************************************************)
(* Properties                                                              *)
(***************************************************************************)

IsPort(s) ==
  s # <<>> /\ Len(s) <= 5 /\ Digits(s) /\ Value(s) \in SinPorts \ {0}

\* The arguments ask for ports there are.
Proper ==
  /\ IsServer
  /\ IF program = "tcp_server" THEN Len(argv) = 1 ELSE Len(argv) >= 1
  /\ \A k \in DOMAIN argv : k <= 2 => IsPort(argv[k])
  /\ Len(argv) > 1 => Value(argv[1]) <= Value(argv[2])

Asked == Value(argv[1]) .. (IF Len(argv) > 1 THEN Value(argv[2]) ELSE Value(argv[1]))

\* Ports that are asked for properly are taken, and once the server serves, its
\* sockets are bound to all of them and to nothing else.
ServesWhatIsAsked ==
  Proper =>
    /\ stage = "exit" => ports # <<>>
    /\ stage = "serving" => Range(bound) = Asked /\ Len(bound) = Cardinality(Asked)

\* Whatever the arguments of the UDP server are, once it serves they were numbers
\* of five digits at most, in order and from 1 on, and there is one socket for
\* each number of the range.  It is bound to the number itself only up to 65535;
\* beyond it to what sixteen bits leave: 65616 serves port 80, and 65536 a port
\* the kernel picks.
NothingElseServed ==
  program = "udp_server" /\ stage = "serving" =>
    /\ \A k \in DOMAIN argv : k <= 2 => Digits(argv[k]) /\ Len(argv[k]) <= 5
    /\ 0 \notin Asked /\ Len(bound) = Cardinality(Asked)
    /\ Range(bound) = {IF p % 65536 = 0 THEN Ephemeral ELSE p % 65536 : p \in Asked}

\* A number the TCP server takes from its argument is a port it can have: what
\* it prints and puts into its records is where it listens, except for 0.
TakenIsBound ==
  program = "tcp_server" /\ stage = "serving" /\ ports[1] > 0 => bound = ports

\* A client that gets past the parser talks to the port behind the first colon,
\* as far as sixteen bits hold it; although the result of parse_cmd is ignored,
\* arguments it rejects never get further than the test for the file.
TalksToGivenPort ==
  stage = "ready" =>
    /\ Len(argv) = 2
    /\ \E k \in DOMAIN argv[1] :
         LET text == SubSeq(argv[1], k + 1, Len(argv[1]))
         IN  /\ argv[1][k] = Colon
             /\ Digits(text)
             /\ bound = <<Value(text) % 65536>>

\* Each program is at a stage of its own main.
TypeOK ==
  /\ program \in Programs /\ argv \in Argvs[program]
  /\ IsServer => stage \in {"parse", "bind", "exit", "thrown", "serving"}
  /\ ~IsServer => stage \in {"parse", "check", "exit", "ready"}
  /\ ports \in Seq(Int) /\ bound \in Seq(SinPorts)
  /\ path \in BOOLEAN

\* Behind the parser the ports are what it made of the arguments.
ParsedOnce ==
  /\ stage = "parse" => ports = <<>> /\ bound = <<>> /\ ~path
  /\ program = "udp_server" /\ stage # "parse" =>
       IF RangeTaken THEN ports = PortRange(FirstPort, LastPort)
                     ELSE ports = <<>> /\ stage = "exit"
  /\ program = "tcp_server" /\ stage \notin {"parse", "thrown"} =>
       ports = <<IF PortTaken THEN Number(argv[1]) ELSE -1>>
  /\ path =>
       /\ Len(argv) = 2 /\ Contains(argv[1], Colon)
       /\ Digits(PortText(argv[1]))
       /\ ports = <<IntOf(Number(PortText(argv[1])))>>

\* The sockets are bound in the order of the ports.
BoundInOrder ==
  /\ IsServer => /\ Len(bound) <= Len(ports)
                 /\ \A i \in DOMAIN bound : bound[i] = Given(ports[i])
  /\ stage = "serving" => Len(bound) = Len(ports)
  /\ stage = "ready" => path /\ bound = <<SinPort(ports[1])>>

\* What every step keeps: how the ports and the sockets follow from the arguments.
IInv == TypeOK /\ ParsedOnce /\ BoundInOrder

\* What "Wrong port is passed" says: an argument that is called so is not served.
RejectedNotServed == program = "tcp_server" /\ stage = "serving" => ports[1] # -1
=============================================================================
