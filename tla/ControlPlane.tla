---------------------------- MODULE ControlPlane ----------------------------
(***************************************************************************)
(* The handlers of the control plane that drive a run (internal/app/       *)
(* control_plane.go): each HTTP request is a process that begins or        *)
(* resumes a run, freezes its execution snapshot, streams the runtime's    *)
(* events into the store and settles the run when the stream is over.      *)
(* Between two of its transactions any other request may act, the client   *)
(* may go away, and the process may be restarted.                          *)
(*                                                                         *)
(* The agent runtime is the environment here: after the POST of Execute a  *)
(* stream may carry any event of its attempt and may end at any time.      *)
(***************************************************************************)
EXTENDS RunStore

CONSTANTS
  Requests,      (* concurrent HTTP requests                               *)
  NoRun,         (* the run of an idle request                             *)
  MaxRestarts    (* bound on restarts of the control plane                 *)

ASSUME ControlPlaneAssumption ==
  /\ MaxRestarts \in Nat
  /\ NoRun \notin Runs

VARIABLES
  req,           (* the local state of every request                       *)
  shown,         (* runs whose "answer" event was written to a client      *)
  restarts

handlerVars == <<req, shown, restarts>>
vars == <<storeVars, handlerVars>>

(* Where a request stands:                                                 *)
(*   announce  run committed, run_started or run_resumed not yet written   *)
(*   replay    an idempotent repeat, about to replay the stored events     *)
(*   snapshot  in RunExecution, before its reads                           *)
(*   insert    in RunExecution, before its insert                          *)
(*   stream    reading the runtime's event stream                          *)
(*   deliver   an event was applied and is not yet written to the client   *)
(*   finish    the stream is over, before finishRuntimeCall reads the run  *)
(*   settle    finishRuntimeCall is about to interrupt the attempt it read *)
Stages == {"idle", "announce", "replay", "snapshot", "insert",
           "stream", "deliver", "finish", "settle"}

RequestState ==
  [pc        : Stages,
   run       : Runs \cup {NoRun},
   attempt   : 0..MaxAttempts,          \* of the run this request began
   body      : Bodies,
   recent    : SUBSET Message,          \* read by RunExecution
   event     : EventTypes,              \* being delivered
   settles   : 0..MaxAttempts,          \* attempt read by finishRuntimeCall
   connected : BOOLEAN]                 \* FALSE: the context is cancelled

Idle ==
  [pc |-> "idle", run |-> NoRun, attempt |-> 0, body |-> NoTask, recent |-> {},
   event |-> "progress", settles |-> 0, connected |-> TRUE]

TypeOK ==
  /\ RunStoreTypeOK
  /\ req \in [Requests -> RequestState]
  /\ shown \in SUBSET Runs
  /\ restarts \in 0..MaxRestarts

Init ==
  /\ RunStoreInit
  /\ req = [h \in Requests |-> Idle]
  /\ shown = {}
  /\ restarts = 0

At(h, pc) == req[h].pc = pc
Goto(h, pc) == req' = [req EXCEPT ![h].pc = pc]
Return(h) == req' = [req EXCEPT ![h] = Idle]

-----------------------------------------------------------------------------
(* POST copilot/chat(/stream): BeginRun commits and Start goes on to       *)
(* announce the run.                                                       *)
Start(h, k, body, r, t) ==
  /\ At(h, "idle")
  /\ BeginRun(k, body, r, t)
  /\ req' = [req EXCEPT ![h] = [Idle EXCEPT
       !.pc = "announce", !.run = r, !.attempt = 1, !.body = body]]
  /\ UNCHANGED <<shown, restarts>>

(* Faulty: the request hash is not compared.                               *)
StartAgainWithAnyBody(h, k, body) ==
  /\ At(h, "idle")
  /\ idempotency[k] # NoEntry
  /\ LET r == idempotency[k].run IN
       req' = [req EXCEPT ![h] = [Idle EXCEPT
         !.pc = "replay", !.run = r, !.attempt = runs[r].attempt, !.body = body]]
  /\ UNCHANGED <<storeVars, shown, restarts>>

(* The same key with the same request hash: nothing is written, the run    *)
(* the key names is replayed.  Another hash is refused (ErrIdempotency).   *)
StartAgain(h, k, body) ==
  /\ At(h, "idle")
  /\ idempotency[k] # NoEntry
  /\ idempotency[k].body = body
  /\ LET r == idempotency[k].run IN
       req' = [req EXCEPT ![h] = [Idle EXCEPT
         !.pc = "replay", !.run = r, !.attempt = runs[r].attempt, !.body = body]]
  /\ UNCHANGED <<storeVars, shown, restarts>>

(* POST copilot/runs/:id/resume                                            *)
Resume(h, r) ==
  /\ At(h, "idle")
  /\ PrepareResume(r)
  /\ req' = [req EXCEPT ![h] = [Idle EXCEPT
       !.pc = "announce", !.run = r, !.attempt = runs[r].attempt + 1,
       !.body = runs[r].body]]
  /\ UNCHANGED <<shown, restarts>>

(* Writing to a client that went away may fail or vanish in a buffer; a    *)
(* failed write makes Start and Resume return at once.                     *)
Announce(h) ==
  /\ At(h, "announce")
  /\ Goto(h, "snapshot")
  /\ UNCHANGED <<storeVars, shown, restarts>>

AnnounceFails(h) ==
  /\ At(h, "announce")
  /\ ~req[h].connected
  /\ Return(h)
  /\ UNCHANGED <<storeVars, shown, restarts>>

(* Replaying the events of the attempt the run was in; a stored result is  *)
(* shown with the run's answer message.                                    *)
Replay(h) ==
  /\ At(h, "replay")
  /\ LET r == req[h].run
         finished == \E e \in events :
                       e.run = r /\ e.attempt = req[h].attempt /\ e.type \in Finished
     IN  shown' = IF finished /\ req[h].connected THEN shown \cup {r} ELSE shown
  /\ Return(h)
  /\ UNCHANGED <<storeVars, restarts>>

(* RunExecution, up to its reads: a cancelled context fails it, a frozen   *)
(* snapshot is used as it is.                                              *)
ReadSnapshot(h) ==
  /\ At(h, "snapshot")
  /\ LET r == req[h].run IN
       req' = [req EXCEPT ![h] =
         IF ~req[h].connected THEN Idle
         ELSE IF execution[r][req[h].attempt] # NoSnapshot
              THEN [req[h] EXCEPT !.pc = "stream"]
              ELSE [req[h] EXCEPT !.pc = "insert", !.recent = RecentMessages(r)]]
  /\ UNCHANGED <<storeVars, shown, restarts>>

(* RunExecution, its insert: a snapshot of somebody else that differs is   *)
(* a conflict.  Start does not look at the run again before Execute.       *)
FreezeSnapshot(h) ==
  /\ At(h, "insert")
  /\ req[h].connected
  /\ LET r == req[h].run
         a == req[h].attempt
     IN  /\ InsertSnapshot(r, a, req[h].recent)
         /\ req' = [req EXCEPT ![h] =
              IF execution[r][a] \in {NoSnapshot, BuiltSnapshot(r, a, req[h].recent)}
              THEN [req[h] EXCEPT !.pc = "stream", !.recent = {}]
              ELSE Idle]
  /\ UNCHANGED <<shown, restarts>>

FreezeFails(h) ==
  /\ At(h, "insert")
  /\ ~req[h].connected \/ req[h].run \notin StoredRuns
  /\ Return(h)
  /\ UNCHANGED <<storeVars, shown, restarts>>

-----------------------------------------------------------------------------
(* accept: the next line of the stream is applied to the store.            *)
StreamEvent(h, seq, type, cites) ==
  /\ At(h, "stream")
  /\ req[h].connected
  /\ ApplyRunEvent(req[h].run, req[h].attempt, seq, type, cites)
  /\ req' = [req EXCEPT ![h].pc = "deliver", ![h].event = type]
  /\ UNCHANGED <<shown, restarts>>

(* Faulty: a line is written to the client before the store has seen it.   *)
RejectShown(h, seq, type, cites) ==
  /\ At(h, "stream")
  /\ ~Accepts(req[h].run, req[h].attempt, seq, type, cites)
  /\ shown' = IF type \in Finished THEN shown \cup {req[h].run} ELSE shown
  /\ Goto(h, "finish")
  /\ UNCHANGED <<storeVars, restarts>>

(* An event stored before with the same payload is passed over, which      *)
(* changes nothing; any other event the store does not accept ends the     *)
(* stream.                                                                 *)
StreamRejects(h, seq, type, cites) ==
  /\ At(h, "stream")
  /\ ~Accepts(req[h].run, req[h].attempt, seq, type, cites)
  /\ [run |-> req[h].run, attempt |-> req[h].attempt, seq |-> seq, type |-> type]
       \notin events
  /\ Goto(h, "finish")
  /\ UNCHANGED <<storeVars, shown, restarts>>

(* emitApplied                                                             *)
Deliver(h) ==
  /\ At(h, "deliver")
  /\ req' = [req EXCEPT ![h].pc = "stream", ![h].event = "progress"]
  /\ shown' = IF req[h].event \in Finished THEN shown \cup {req[h].run} ELSE shown
  /\ UNCHANGED <<storeVars, restarts>>

DeliverFails(h) ==
  /\ At(h, "deliver")
  /\ ~req[h].connected
  /\ req' = [req EXCEPT ![h].pc = "finish", ![h].event = "progress"]
  /\ UNCHANGED <<storeVars, shown, restarts>>

(* The runtime closes the stream, refuses the POST, breaks the connection  *)
(* or exceeds the client's timeout; a cancelled context aborts the read.   *)
StreamEnds(h) ==
  /\ At(h, "stream")
  /\ Goto(h, "finish")
  /\ UNCHANGED <<storeVars, shown, restarts>>

(* The run still has to be settled; faulty: by a connected client only.    *)
UnsettledHere(h) ==
  /\ req[h].connected
  /\ req[h].run \in StoredRuns
  /\ runs[req[h].run].status \notin Terminal \cup {"interrupted"}
Unsettled(h) ==
  /\ req[h].run \in StoredRuns
  /\ runs[req[h].run].status \notin Terminal \cup {"interrupted"}

(* finishRuntimeCall reads the run with a context that outlives the        *)
(* client, and returns if it is gone, has ended or is interrupted.         *)
ReadOutcome(h) ==
  /\ At(h, "finish")
  /\ req' = [req EXCEPT ![h] =
       IF Unsettled(h)
       THEN [req[h] EXCEPT !.pc = "settle", !.settles = runs[req[h].run].attempt]
       ELSE Idle]
  /\ UNCHANGED <<storeVars, shown, restarts>>

(* ... and interrupts the attempt it read, whichever that is.              *)
SettleInterrupts(h) ==
  /\ At(h, "settle")
  /\ InterruptRun(req[h].run, req[h].settles)
  /\ Return(h)
  /\ UNCHANGED <<shown, restarts>>

SettleFindsSettled(h) ==
  /\ At(h, "settle")
  /\ LET r == req[h].run IN
       \/ r \notin StoredRuns
       \/ runs[r].attempt # req[h].settles
       \/ runs[r].status \in Terminal \cup {"interrupted"}
  /\ Return(h)
  /\ UNCHANGED <<storeVars, shown, restarts>>

-----------------------------------------------------------------------------
(* Requests that are one transaction.  Cancel also notifies the runtime,   *)
(* which does not touch the store.                                         *)
Cancel(r) == CancelRun(r) /\ UNCHANGED handlerVars

Delete(t) == DeleteTask(t) /\ UNCHANGED handlerVars

(* Instances without memory ids leave the switch alone, too.               *)
EditMemory ==
  /\ Memories # {}
  /\ MemoryNext
  /\ UNCHANGED <<runVars, handlerVars>>

(* The client closes its connection: the request context is cancelled.     *)
Disconnect(h) ==
  /\ ~At(h, "idle")
  /\ req[h].connected
  /\ req' = [req EXCEPT ![h].connected = FALSE]
  /\ UNCHANGED <<storeVars, shown, restarts>>

(* The process stops and starts again: requests vanish, the store stays,   *)
(* and main does nothing to the runs it finds.                             *)
Restart ==
  /\ restarts < MaxRestarts
  /\ \E h \in Requests : ~At(h, "idle")
  /\ req' = [h \in Requests |-> Idle]
  /\ restarts' = restarts + 1
  /\ UNCHANGED <<storeVars, shown>>

(* A handler's own steps, which it takes without waiting for anybody.      *)
Advance(h) ==
  \/ Announce(h) \/ AnnounceFails(h) \/ Replay(h)
  \/ ReadSnapshot(h) \/ FreezeSnapshot(h) \/ FreezeFails(h)
  \/ Deliver(h) \/ DeliverFails(h)
  \/ ReadOutcome(h) \/ SettleInterrupts(h) \/ SettleFindsSettled(h)

(* A proposal naming several context items is accepted iff one naming each *)
(* of them is, so lines that name at most one are enough.                  *)
Stream(h) ==
  \E seq \in 1..MaxEvents, type \in EventTypes :
    \E cites \in IF type \in Finished
                  THEN {{}} \cup {{c} : c \in Citable} ELSE {{}} :
      StreamEvent(h, seq, type, cites) \/ StreamRejects(h, seq, type, cites)

Next ==
  \/ \E h \in Requests, k \in Keys, body \in Bodies :
       \/ \E r \in Runs, t \in Tasks : Start(h, k, body, r, t)
       \/ StartAgain(h, k, body)
  \/ \E h \in Requests, r \in Runs : Resume(h, r)
  \/ \E h \in Requests : Advance(h) \/ Stream(h) \/ StreamEnds(h) \/ Disconnect(h)
  \/ \E r \in Runs : Cancel(r)
  \/ \E t \in Tasks : Delete(t)
  \/ EditMemory
  \/ Restart

Spec == Init /\ [][Next]_vars

(* A handler goroutine keeps running, and the HTTP client of the runtime   *)
(* has a timeout, so every stream ends.  Nobody is obliged to cancel,      *)
(* resume, retry or disconnect.                                            *)
FairSpec ==
  Spec /\ \A h \in Requests : WF_vars(Advance(h)) /\ WF_vars(StreamEnds(h))
=============================================================================
