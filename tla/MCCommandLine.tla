---------------------------- MODULE MCCommandLine ----------------------------
(***************************************************************************)
(* Arguments for CommandLine: every short text of a few characters, and    *)
(* the numbers around the limits of a port.                                *)
(***************************************************************************)
EXTENDS CommandLine

\* Every text of these characters up to length n.
Texts(chars, n) == UNION {[1 .. k -> chars] : k \in 0 .. n}

Limits == {0, 1, 2, 9, 10, 80, 9999, 10000, 65534, 65535, 65536, 65537, 99999, 100000}
Edges  == {Numeral[n] : n \in Limits} \cup {<<0>> \o Numeral[80], <<0, 0, 0>> \o Numeral[80]}

Words == Texts({0, 1, 6, Letter}, 3) \cup Edges

\* The arguments of the servers: none, one, two or three; the ranges are short.
OneWord == {<<>>} \cup {<<w>> : w \in Words}
Ranges  == {<<Numeral[n], Numeral[n + k]>> : n \in Limits \ {100000}, k \in {0, 1, 2}}
             \cup {<<Numeral[10], Numeral[9]>>, <<Numeral[2], Numeral[1]>>, <<Numeral[80], <<Letter>>>>,
                   <<Numeral[80], <<>>>>, <<Numeral[80], Numeral[81], <<Letter>>>>}

\* Numbers around the limits of an int of twenty bits.
Wide == {524287, 524288, 589824, 1048575, 1048576, 1048656, 1638480}

ServerArgvs == OneWord \cup Ranges

\* The arguments of the clients: an address, a colon and a port; the file's name
\* is one letter.
File == <<Letter>>
Addresses == Texts({1, Colon}, 2)
ClientArgvs ==
  {<<>>, <<<<1, Colon, 8>>>>, <<<<1, Colon, 8>>, File, File>>}
    \cup {<<a \o <<Colon>> \o w, File>> : a \in Addresses, w \in Words}
    \cup {<<w, File>> : w \in Words}
    \cup {<<<<1, Colon>> \o Numeral[n], File>> : n \in Wide}

AllArgvs == [p \in Programs |-> IF p \in {"udp_server", "tcp_server"}
                               THEN ServerArgvs ELSE ClientArgvs]
=============================================================================
