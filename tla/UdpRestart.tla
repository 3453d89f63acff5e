------------------------------ MODULE UdpRestart ------------------------------
(***************************************************************************)
(* The UDP pair when the server is killed, or has ended, and is started    *)
(* again while clients and datagrams are still under way.                  *)
(*                                                                         *)
(* Nothing of the server outlives its process but msg.txt, and of that,    *)
(* if it was killed, only what the stream's buffer had passed on; the next *)
(* start truncates it.  The clients know nothing of all this: they see     *)
(* refused datagrams, and acknowledgements of the server that is gone.     *)
(***************************************************************************)
EXTENDS UdpSystem

CONSTANT MaxRestarts   \* bound: how often the server is started again

ASSUME RestartAssumption == MaxRestarts \in Nat

VARIABLES
  restarts,   \* how often it was
  lost        \* history: what servers that are gone had accepted

restartVars == <<restarts, lost>>

vars_r == <<vars, restartVars>>

InitR == Init /\ restarts = 0 /\ lost = {}

-----------------------------------------------------------------------------
\* The parts of the records written so far that may be in the file of a killed
\* server.
Flushed ==
  LET written == {r \in Records : file[r] > 0}
  IN  {[r \in Records |-> IF r \in written THEN f[r] ELSE 0] :
         f \in {g \in [written -> 0 .. MaxCopies] : \A r \in written : g[r] <= file[r]}}

\* The process is killed while it serves, or has come to its end, and another one
\* is about to be started.  The variables are those of a process not yet started,
\* and the kernel drops what is queued in the sockets; a process that ended by
\* itself has flushed its file.
ProcessEnds ==
  /\ phase # "off" /\ restarts < MaxRestarts
  /\ restarts' = restarts + 1
  /\ lost' = lost \cup {m \in Msg : Accepted(m)}
  /\ phase' = "off"
  /\ events' = {} /\ idx' = None /\ raw_numb' = 0 /\ raw_msg' = None
  /\ peer' = [p \in Ports |-> AnyHost] /\ echoes' = {}
  /\ client_database' = {}
  /\ stop_received' = FALSE
  /\ file' \in Flushed /\ (~Bound => file' = file)
  /\ inbox' = {}
  /\ UNCHANGED <<cliVars, toServer, replies, answers, unreachable>>

NextR == (Next /\ UNCHANGED restartVars) \/ ProcessEnds

SpecR == InitR /\ [][NextR]_vars_r

-----------------------------------------------------------------------------
(***************************************************************************)
(* Properties                                                              *)
(***************************************************************************)
RestartTypeOK ==
  /\ restarts \in 0 .. MaxRestarts
  /\ lost \subseteq Msg

\* However often the server is restarted, a client drops a message, other than
\* number 0, only if this server accepted it or an earlier one did: stale
\* acknowledgements lose no message that no server had.  Which is all: those an
\* earlier server had accepted are lost with its file.
LossOnlyByRestart ==
  \A m \in Msg : Dropped(m) /\ m.num # 0 => Accepted(m) \/ m \in lost

\* A server closes for a "stop" in its own file, and does not wait once there is
\* one; what was in the file of a server before it, the "stop" it ended for too,
\* has no part in this, although the file has the same name.
StopHonouredR ==
  /\ phase = "closed" => StopWritten
  /\ phase = "wait" => ~StopWritten

\* The inductive invariant: that of the pair, where the messages a reply may
\* name include those that servers before this one had accepted.
RInv == RestartTypeOK /\ SInv /\ HInv /\ AInv(lost)

\* Seen through all servers there were, the pair still implements the
\* acknowledged transfer.
TransferR == INSTANCE AckedTransfer
               WITH outstanding <- datagrams,
                    accepted <- {m \in Msg : Accepted(m)} \cup lost

ImplementsTransferR == TransferR!Spec
=============================================================================
