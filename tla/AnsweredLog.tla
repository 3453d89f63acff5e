----------------------------- MODULE AnsweredLog -----------------------------
(***************************************************************************)
(* What the TCP pair promises, without sockets, buffers and tables: a log  *)
(* that is only appended to.  An entry is a message of its writer, later   *)
(* in its file than every one that stands in the log, or Junk, something   *)
(* that is no message.  Each entry of a writer whose connection is open    *)
(* makes one answer due, and a writer counts an answer at most once.  The  *)
(* promise ends with the connection: from then on answers may be lost, one *)
(* that was received may be counted again, and Junk is entered without any  *)
(* answer.  Once the log is closed it takes no message and makes no answer *)
(* due, and every writer that was being served has lost its connection.    *)
(***************************************************************************)
EXTENDS Integers, Sequences

CONSTANTS
  Writers,
  Lines,    \* how many messages each writer has
  Junk,     \* no number of a message
  Final     \* the entries of each writer that may close the log

VARIABLES
  log,      \* the entries of each writer
  due,      \* answers made and not yet received
  counted,  \* answers the writer has counted
  gone,     \* writers whose connection is over
  closed    \* whether the log is closed

vars == <<log, due, counted, gone, closed>>

Init ==
  /\ log = [w \in Writers |-> <<>>]
  /\ due = [w \in Writers |-> 0]
  /\ counted = [w \in Writers |-> 0]
  /\ gone = {}
  /\ closed = FALSE

Later(w, n) == \A k \in DOMAIN log[w] : log[w][k] # Junk => log[w][k] < n

\* An entry, which may be one that closes the log.
Enter(w, n) ==
  /\ ~closed
  /\ n # Junk => Later(w, n)
  /\ log' = [log EXCEPT ![w] = Append(@, n)]
  /\ due' = [due EXCEPT ![w] = @ + 1]
  /\ \/ UNCHANGED <<gone, closed>>
     \/ /\ n \in Final[w]
        /\ closed' = TRUE
        /\ gone' \in SUBSET Writers /\ gone \cup {w} \subseteq gone'
  /\ UNCHANGED counted

EnterJunk(w) ==
  /\ w \in gone
  /\ log' = [log EXCEPT ![w] = Append(@, Junk)]
  /\ UNCHANGED <<due, counted, gone, closed>>

\* An answer is received, and counted or taken for something else.
Take(w) ==
  /\ due[w] > 0
  /\ due' = [due EXCEPT ![w] = @ - 1]
  /\ counted' \in {counted, [counted EXCEPT ![w] = @ + 1]}
  /\ UNCHANGED <<log, gone, closed>>

TakeAgain(w) ==
  /\ w \in gone /\ due[w] = 0
  /\ counted' = [counted EXCEPT ![w] = @ + 1]
  /\ UNCHANGED <<log, due, gone, closed>>

Leave ==
  /\ gone' \in SUBSET Writers /\ gone \subseteq gone'
  /\ UNCHANGED <<log, due, counted, closed>>

LoseAnswers(w) ==
  /\ w \in gone
  /\ due' = [due EXCEPT ![w] = 0]
  /\ UNCHANGED <<log, counted, gone, closed>>

Next ==
  \/ Leave
  \/ \E w \in Writers :
       \/ \E n \in 0 .. Lines[w] - 1 \cup {Junk} : Enter(w, n)
       \/ EnterJunk(w) \/ Take(w) \/ TakeAgain(w) \/ LoseAnswers(w)

Spec == Init /\ [][Next]_vars
=============================================================================
