---------------------------- MODULE AckedTransfer ----------------------------
(***************************************************************************)
(* What the UDP pair promises, without sockets, buffers or processes: each *)
(* sender holds a set of numbered messages; the receiver accepts messages, *)
(* in any order and any number of times; a sender may drop a message once  *)
(* the receiver has accepted it.                                           *)
(*                                                                         *)
(* The promise does not cover message number 0, which a sender may drop    *)
(* without any acknowledgement: that is what the code does.                *)
(***************************************************************************)
EXTENDS Integers

CONSTANTS Clients, Lines

VARIABLES
  outstanding,  \* for each sender, the numbers of the messages it holds
  accepted      \* the messages the receiver has accepted

vars == <<outstanding, accepted>>

Init ==
  /\ outstanding = [c \in Clients |-> 0 .. (Lines[c] - 1)]
  /\ accepted = {}

Accept(c, n) ==
  /\ n \in 0 .. (Lines[c] - 1)
  /\ accepted' = accepted \cup {[from |-> c, num |-> n]}
  /\ UNCHANGED outstanding

Drop(c, S) ==
  /\ \A n \in S \ {0} : [from |-> c, num |-> n] \in accepted
  /\ outstanding' = [outstanding EXCEPT ![c] = @ \ S]
  /\ UNCHANGED accepted

Next ==
  \E c \in Clients :
    \/ \E n \in 0 .. (Lines[c] - 1) : Accept(c, n)
    \/ \E S \in SUBSET outstanding[c] : Drop(c, S)

Spec == Init /\ [][Next]_vars
=============================================================================
