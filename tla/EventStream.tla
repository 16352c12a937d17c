----------------------------- MODULE EventStream -----------------------------
(***************************************************************************)
(* What the agent runtime promises the control plane about the events of a *)
(* run: at most one attempt is streamed at a time, and what is sent of an  *)
(* attempt is progress followed by at most one ending, which is an         *)
(* interruption, or the usage of the attempt and a result.  A stream may   *)
(* be closed anywhere.  Sessions, threads and budgets do not appear here.  *)
(***************************************************************************)
EXTENDS Naturals, Sequences

CONSTANTS Streams, NoStream

VARIABLES
  open,          (* the attempt that is streamed, or NoStream              *)
  sent           (* the events sent of every attempt                       *)

streamVars == <<open, sent>>

StreamInit ==
  /\ open = NoStream
  /\ sent = [a \in Streams |-> <<>>]

(* What may be sent next.                                                  *)
MayFollow(events) ==
  IF events = <<>> THEN {"progress"}
  ELSE LET last == events[Len(events)] IN
       IF last = "progress" THEN {"progress", "usage", "interrupted"}
       ELSE IF last = "usage" THEN {"completed", "failed"}
       ELSE {}

Open(a) ==
  /\ open = NoStream
  /\ sent[a] = <<>>
  /\ open' = a
  /\ UNCHANGED sent

Send(signal) ==
  /\ open # NoStream
  /\ signal \in MayFollow(sent[open])
  /\ sent' = [sent EXCEPT ![open] = Append(@, signal)]
  /\ UNCHANGED open

Close ==
  /\ open # NoStream
  /\ open' = NoStream
  /\ UNCHANGED sent

StreamNext ==
  \/ \E a \in Streams : Open(a)
  \/ \E s \in {"progress", "usage", "interrupted", "completed", "failed"} : Send(s)
  \/ Close

StreamSpec == StreamInit /\ [][StreamNext]_streamVars
=============================================================================
