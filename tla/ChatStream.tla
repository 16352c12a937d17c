------------------------------ MODULE ChatStream ------------------------------
(***************************************************************************)
(* The streaming requests of one chat page: what the handlers of the       *)
(* control plane send on them (internal/api/server.go,                     *)
(* internal/app/control_plane.go) and how the page's client receives it    *)
(* (frontend/sse.js).  RunStore and ControlPlane have the handlers in full *)
(* detail; here a run is what its page can tell: a status.                 *)
(*                                                                         *)
(* A page sends no Idempotency-Key, so a question never resumes or replays *)
(* an earlier run: the run of a question is named by its request.  A       *)
(* request for the page's connection and the handler at its other end last *)
(* for different times: an aborted request may yet be handled, and its     *)
(* handler goes on until it notices.                                       *)
(***************************************************************************)
EXTENDS Naturals, Sequences

CONSTANTS
  MaxStreams,      (* bound on the questions and resumptions of a page     *)
  MaxBuffered      (* frames on their way beyond which no draft is sent    *)

ASSUME ChatStreamAssumption ==
  /\ MaxStreams \in Nat \ {0}
  /\ MaxBuffered \in Nat \ {0}

VARIABLES
  run,             (* status of every run                                  *)
  taskOf,          (* the task of every run, 0 before it is stored         *)
  newest,          (* the run of every task that was stored last           *)
  attached,        (* the files of every task (task_attachments)           *)
  server,          (* the handler of every request                         *)
  wire,            (* the frames a request has sent and the page not read  *)
  client           (* the page's end of every request                      *)

streamVars == <<run, taskOf, newest, attached, server, wire, client>>

Streams == 1..MaxStreams
StreamRuns == Streams
StreamTasks == Streams            (* a task is named by its first run      *)
NoId == 0

ClientStates == {"none", "reading", "refused", "aborted", "done", "failed"}
Ended == {"completed", "failed"}
RunStatus == {"none", "running", "interrupted", "cancelled"} \cup Ended
Frames ==
  [event : {"task_created", "run_started", "run_resumed", "draft_delta", "draft_discarded",
            "run_interrupted", "answer", "error"}]
    \cup [event : {"run_status"}, status : RunStatus]
Frame(event) == [event |-> event]
StatusFrame(status) == [event |-> "run_status", status |-> status]

(* A request before it is handled: the run to be resumed or, for a         *)
(* question, its own; the task and the files it names, if any.  A list of  *)
(* files that is left out and an empty one are the same to the handler.    *)
Request == [run : {NoId} \cup StreamRuns, task : {NoId} \cup StreamTasks, files : SUBSET Nat]
NoRequest == [run |-> NoId, task |-> NoId, files |-> {}]

(* The page may have been opened before, and question 1 be one of then:     *)
(* its connection is gone, but its handler may be at work.  If there was   *)
(* none, status is "none".                                                 *)
StreamInit(status, files) ==
  LET before(q) == q = 1 /\ status # "none"
      at == IF status = "running" THEN "open" ELSE "closed"
  IN  /\ run = [r \in StreamRuns |-> IF before(r) THEN status ELSE "none"]
      /\ taskOf = [r \in StreamRuns |-> IF before(r) THEN r ELSE NoId]
      /\ newest = [t \in StreamTasks |-> IF before(t) THEN t ELSE NoId]
      /\ attached = [t \in StreamTasks |-> IF before(t) THEN files ELSE {}]
      /\ server = [s \in Streams |-> IF before(s)
                     THEN [at |-> at, request |-> [run |-> s, task |-> NoId, files |-> files]]
                     ELSE [at |-> "none", request |-> NoRequest]]
      /\ wire = [s \in Streams |-> <<>>]
      /\ client = [s \in Streams |-> IF before(s) THEN "aborted" ELSE "none"]

IsResume(s) == server[s].request.run # s
RunOf(s) == server[s].request.run
Stored == {taskOf[r] : r \in StreamRuns} \ {NoId}
HandlerAt(s, at) == server[s].at = at
Reading(s) == client[s] = "reading"

-----------------------------------------------------------------------------
(* The page's end                                                          *)

(* AbortController.abort: the pending await rejects with an AbortError,    *)
(* which is swallowed, and no frame is read any more.  Only while the body *)
(* of an error response is being read the rejection is caught by the inner *)
(* try, and onError is called nevertheless.                                *)
Aborted(s) == [q \in Streams |-> IF q = s /\ Reading(q) THEN "aborted" ELSE client[q]]

-----------------------------------------------------------------------------
(* The handlers                                                            *)

Sends(s, frames) == wire' = [wire EXCEPT ![s] = IF Reading(s) THEN @ \o frames ELSE @]
Handler(s, at) == server' = [server EXCEPT ![s].at = at]
SetRun(s, status) == run' = [run EXCEPT ![RunOf(s)] = status]
ActiveOn(t) == {r \in StreamRuns : taskOf[r] = t /\ run[r] \in {"running", "interrupted"}}

(* Faulty: the answer is sent first.                                       *)
AnswerThenStatus(status) == <<Frame("answer"), StatusFrame(status)>>

(* emitApplied of a result: the status, then the answer it decides on.     *)
ResultFrames(status) == <<StatusFrame(status), Frame("answer")>>

(* Start: the task is created or has no active run; its files are those of *)
(* the request from now on, none if it names none.                         *)
Start(s) ==
  LET request == server[s].request
      task == IF request.task = NoId THEN s ELSE request.task
  IN  /\ HandlerAt(s, "asked") /\ ~IsResume(s)
      /\ ActiveOn(task) = {}
      /\ run' = [run EXCEPT ![s] = "running"]
      /\ taskOf' = [taskOf EXCEPT ![s] = task]
      /\ newest' = [newest EXCEPT ![task] = s]
      /\ attached' = [attached EXCEPT ![task] = request.files]
      /\ Sends(s, (IF request.task = NoId THEN <<Frame("task_created")>> ELSE <<>>)
                    \o <<Frame("run_started"), StatusFrame("running")>>)
      /\ Handler(s, "open")
      /\ UNCHANGED client

(* A question that Start refuses has status 200 and one frame: because of  *)
(* an active run, a task that was deleted, or its text.                    *)
StartFails(s) ==
  /\ HandlerAt(s, "asked") /\ ~IsResume(s)
  /\ Sends(s, <<Frame("error")>>)
  /\ Handler(s, "closed")
  /\ UNCHANGED <<run, taskOf, newest, attached, client>>

Resume(s) ==
  /\ HandlerAt(s, "asked") /\ IsResume(s)
  /\ run[RunOf(s)] = "interrupted"
  /\ SetRun(s, "running")
  /\ Sends(s, <<Frame("run_resumed"), StatusFrame("running")>>)
  /\ Handler(s, "open")
  /\ UNCHANGED <<taskOf, newest, attached, client>>

(* PrepareResume finds that the run changed since it was looked at, or the *)
(* memories of its snapshot did.                                           *)
ResumeFails(s) ==
  /\ HandlerAt(s, "asked") /\ IsResume(s)
  /\ Sends(s, <<Frame("error")>>)
  /\ Handler(s, "closed")
  /\ UNCHANGED <<run, taskOf, newest, attached, client>>

(* 401, 429, 503, and 409 for a run that is not interrupted: no stream.    *)
Refuse(s) ==
  /\ HandlerAt(s, "asked")
  /\ client' = [client EXCEPT ![s] = IF Reading(s) THEN "refused" ELSE @]
  /\ Handler(s, "closed")
  /\ UNCHANGED <<run, taskOf, newest, attached, wire>>

(* An accepted event that leaves the run running.                          *)
Drafts(s, event) ==
  /\ HandlerAt(s, "open") /\ run[RunOf(s)] = "running"
  /\ Len(wire[s]) < MaxBuffered
  /\ Sends(s, <<Frame(event)>>)
  /\ UNCHANGED <<run, taskOf, newest, attached, server, client>>

Finish(s, status) ==
  /\ HandlerAt(s, "open") /\ run[RunOf(s)] = "running"
  /\ SetRun(s, status)
  /\ Sends(s, ResultFrames(status))
  /\ Handler(s, "finished")
  /\ UNCHANGED <<taskOf, newest, attached, client>>

(* The runtime interrupts the run, fails or its stream just ends; in the   *)
(* second case finishRuntimeCall's error follows.                          *)
Interrupt(s, fails) ==
  /\ HandlerAt(s, "open") /\ run[RunOf(s)] = "running"
  /\ SetRun(s, "interrupted")
  /\ Sends(s, <<Frame("run_interrupted")>> \o IF fails THEN <<Frame("error")>> ELSE <<>>)
  /\ Handler(s, "closed")
  /\ UNCHANGED <<taskOf, newest, attached, client>>

(* A run that was cancelled takes no more events: the first one is an      *)
(* error of the call, or none comes any more.  No status is sent.          *)
CancelNoticed(s, fails) ==
  /\ HandlerAt(s, "open") /\ run[RunOf(s)] = "cancelled"
  /\ Sends(s, IF fails THEN <<Frame("error")>> ELSE <<>>)
  /\ Handler(s, "closed")
  /\ UNCHANGED <<run, taskOf, newest, attached, client>>

(* The connection is gone: the context of the handler is cancelled.  A run *)
(* that was not being executed yet is left running.                        *)
ClientGone(s) ==
  /\ HandlerAt(s, "open") /\ ~Reading(s)
  /\ \/ run[RunOf(s)] = "running" /\ SetRun(s, "interrupted")
     \/ UNCHANGED run
  /\ Handler(s, "closed")
  /\ UNCHANGED <<taskOf, newest, attached, wire, client>>

HandlerStep(s) ==
  \/ Start(s) \/ StartFails(s) \/ Resume(s) \/ ResumeFails(s) \/ Refuse(s)
  \/ \E event \in {"draft_delta", "draft_discarded"} : Drafts(s, event)
  \/ \E status \in Ended : Finish(s, status)
  \/ \E fails \in BOOLEAN : Interrupt(s, fails) \/ CancelNoticed(s, fails)
  \/ ClientGone(s)
=============================================================================
