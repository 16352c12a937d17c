---------------------------- MODULE KnowledgeBase ----------------------------
(***************************************************************************)
(* The knowledge base as the control plane keeps it: the catalogue of      *)
(* documents (infra/control_store.go) and the handlers that upload and     *)
(* delete them (api/server.go), each of which asks the runtime to process  *)
(* the document between two transactions.  The handlers' context ends when *)
(* their client leaves; the runtime's thread goes on.                      *)
(*                                                                         *)
(* Owners do not meet: a source is public or the private one of one owner. *)
(* Public documents are uploaded and deleted by administrators only.  The  *)
(* two reads of a deletion's look-up are one step.                         *)
(***************************************************************************)
EXTENDS Indexes

VARIABLES
  catalogue,        (* status of every document                            *)
  handler,          (* where the handler of every request is               *)
  seen,             (* status the handler read when it looked it up        *)
  left              (* requests whose client is gone                       *)

handlerVars == <<catalogue, handler, seen, left>>
vars == <<command, faults, jobVars, storeVars, indexVars, handlerVars>>

Statuses == {"none", "processing", "ready", "failed", "deleted"}

(* A handler's stages: call and wait are before and after the command was  *)
(* sent; result and fail are after the answer or the error; lost is in a   *)
(* process that was stopped.                                               *)
HandlerStages == {"idle", "call", "wait", "result", "fail", "done", "lost"}

TypeOK ==
  /\ IndexesTypeOK
  /\ catalogue \in [Requests -> Statuses]
  /\ handler \in [Requests -> HandlerStages]
  /\ seen \in [Requests -> Statuses]
  /\ left \in SUBSET Requests

Init ==
  /\ IndexesInit
  /\ catalogue = [d \in Requests |-> "none"]
  /\ handler = [h \in Requests |-> "idle"]
  /\ seen = [h \in Requests |-> "none"]
  /\ left = {}

Listed(d) == catalogue[d] \in {"processing", "ready", "failed"}
ListedAt(source) == {d \in Requests : Listed(d) /\ command[d].source = source}

Handles(h, stage) == handler[h] = stage
Advance(h, stage) == handler' = [handler EXCEPT ![h] = stage]
Record(d, status) ==
  catalogue' = IF Listed(d) THEN [catalogue EXCEPT ![d] = status] ELSE catalogue

-----------------------------------------------------------------------------
(* Faulty: a second document of the same name is let in.                   *)
UploadAgain(h, source) ==
  /\ Handles(h, "idle")
  /\ catalogue' = [catalogue EXCEPT ![h] = "processing"]
  /\ command' = [command EXCEPT ![h] = [kind |-> "ingest", document |-> h, source |-> source]]
  /\ Advance(h, "call")
  /\ UNCHANGED <<faults, jobVars, storeVars, indexVars, seen, left>>

(* CreateKBDocument: a source has one row, whatever its status.            *)
Upload(h, source) ==
  /\ Handles(h, "idle")
  /\ ListedAt(source) = {}
  /\ catalogue' = [catalogue EXCEPT ![h] = "processing"]
  /\ command' = [command EXCEPT ![h] = [kind |-> "ingest", document |-> h, source |-> source]]
  /\ Advance(h, "call")
  /\ UNCHANGED <<faults, jobVars, storeVars, indexVars, seen, left>>

(* The public document of a name hides the private one.                    *)
Lookup(name) ==
  IF ListedAt(<<"public", name>>) # {} THEN ListedAt(<<"public", name>>)
  ELSE ListedAt(<<"private", name>>)

Delete(h, name) ==
  /\ Handles(h, "idle")
  /\ \E d \in Lookup(name) :
       /\ command' = [command EXCEPT
            ![h] = [kind |-> "delete", document |-> d, source |-> command[d].source]]
       /\ seen' = [seen EXCEPT ![h] = catalogue[d]]
  /\ Advance(h, "call")
  /\ UNCHANGED <<faults, jobVars, storeVars, indexVars, catalogue, left>>

Send(h) ==
  /\ Handles(h, "call")
  /\ h \notin left
  /\ Goto(h, IF Ingests(h) THEN "save" ELSE "find")
  /\ Advance(h, "wait")
  /\ UNCHANGED <<command, faults, found, answer, storeVars, indexVars, catalogue, seen, left>>

Receive(h) ==
  /\ Handles(h, "wait")
  /\ At(h, "end")
  /\ h \notin left
  /\ Advance(h, "result")
  /\ UNCHANGED <<command, faults, jobVars, storeVars, indexVars, catalogue, seen, left>>

(* Faulty: an upload whose call fails is not recorded.                     *)
CallIsDropped(h) ==
  /\ handler[h] \in {"call", "wait"}
  /\ Advance(h, "done")
  /\ UNCHANGED <<command, faults, jobVars, storeVars, indexVars, catalogue, seen, left>>

(* The client left, the runtime is away or takes too long to answer.       *)
CallFails(h) ==
  /\ handler[h] \in {"call", "wait"}
  /\ Advance(h, IF Ingests(h) THEN "fail" ELSE "done")
  /\ UNCHANGED <<command, faults, jobVars, storeVars, indexVars, catalogue, seen, left>>

(* With a context that is not cancelled.                                   *)
RecordFailure(h) ==
  /\ Handles(h, "fail")
  /\ Record(h, "failed")
  /\ Advance(h, "done")
  /\ UNCHANGED <<command, faults, jobVars, storeVars, indexVars, seen, left>>

(* Faulty: the stage of the job is recorded for the status of its result.  *)
CompleteWithStage(h) ==
  /\ Handles(h, "result")
  /\ Ingests(h)
  /\ h \notin left
  /\ Record(h, job[h])
  /\ Advance(h, "done")
  /\ UNCHANGED <<command, faults, jobVars, storeVars, indexVars, seen, left>>

Complete(h) ==
  /\ Handles(h, "result")
  /\ Ingests(h)
  /\ h \notin left
  /\ Record(h, answer[h])
  /\ Advance(h, "done")
  /\ UNCHANGED <<command, faults, jobVars, storeVars, indexVars, seen, left>>

Remove(h) ==
  /\ Handles(h, "result")
  /\ Deletes(h)
  /\ h \notin left
  /\ answer[h] = "deleted"
  /\ Record(Document(h), "deleted")
  /\ Advance(h, "done")
  /\ UNCHANGED <<command, faults, jobVars, storeVars, indexVars, seen, left>>

(* The runtime did not delete, or the context has ended: the row stays.    *)
GiveUp(h) ==
  /\ Handles(h, "result")
  /\ h \in left \/ (Deletes(h) /\ answer[h] # "deleted")
  /\ Advance(h, "done")
  /\ UNCHANGED <<command, faults, jobVars, storeVars, indexVars, catalogue, seen, left>>

Handle(h) ==
  \/ Send(h) \/ Receive(h) \/ CallFails(h) \/ RecordFailure(h)
  \/ Complete(h) \/ Remove(h) \/ GiveUp(h)

-----------------------------------------------------------------------------
ClientLeaves(h) ==
  /\ handler[h] \notin {"idle", "done", "lost"}
  /\ h \notin left
  /\ left' = left \cup {h}
  /\ Fault
  /\ UNCHANGED <<command, jobVars, storeVars, indexVars, catalogue, handler, seen>>

(* Nothing looks at the catalogue when the control plane starts.           *)
Restart ==
  /\ handler' = [h \in Requests |-> IF handler[h] \in {"idle", "done"} THEN handler[h] ELSE "lost"]
  /\ Fault
  /\ UNCHANGED <<command, jobVars, storeVars, indexVars, catalogue, seen, left>>

RuntimeRestarts ==
  /\ Reload
  /\ UNCHANGED handlerVars

Next ==
  \/ \E h \in Requests :
       \/ \E source \in Sources : Upload(h, source)
       \/ \E name \in Names : Delete(h, name)
       \/ Handle(h)
       \/ Process(h) /\ UNCHANGED handlerVars
       \/ ClientLeaves(h)
  \/ (BuildReads \/ BuildEnds) /\ UNCHANGED handlerVars
  \/ Restart
  \/ RuntimeRestarts

Spec == Init /\ [][Next]_vars

(* A handler goes on by itself: its call has a timeout.                    *)
FairSpec == Spec /\ \A h \in Requests : WF_vars(Handle(h))
=============================================================================
