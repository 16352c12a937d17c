------------------------------- MODULE ChatPage -------------------------------
(***************************************************************************)
(* The chat page (frontend/chat.js) with its composer (frontend/app.js).   *)
(* JavaScript runs one task at a time: a click, a frame, an answered fetch *)
(* is one action, and what belongs together is split where the code awaits.*)
(* Every callback of a stream compares the generation it was opened in     *)
(* with the current one; a load and a cancellation do not.                 *)
(*                                                                         *)
(* The messages a load shows are left out, and so are titles, thoughts and *)
(* tools; "body" is the part of the page that one question's answer or one *)
(* resume button is in.                                                    *)
(***************************************************************************)
EXTENDS ChatStream, FiniteSets

CONSTANTS
  MaxViews,        (* bound on the conversations looked at, one after another *)
  MaxUploads,      (* bound on the files picked                            *)
  EarlierRuns,     (* what has become of the run of an earlier visit       *)
  MaxClicks        (* bound on streams, further views and files together,  *)
                   (* and on the start and the logouts under way           *)

ASSUME ChatPageAssumption ==
  /\ MaxViews \in Nat \ {0}
  /\ MaxUploads \in Nat
  /\ MaxClicks \in Nat
  /\ EarlierRuns \subseteq RunStatus \ {"none"}

VARIABLES
  task,            (* _currentTaskId                                       *)
  generation,      (* _streamGeneration                                    *)
  abort,           (* the request whose controller is in _abortCurrent     *)
  active,          (* _activeRunId                                         *)
  stopping,        (* the cancellation under way (_stopPending)            *)
  label,           (* the text of #run-status, and can #btn-stop be clicked *)
  opened,          (* the generation the callbacks of every request hold   *)
  into,            (* the body they write into, and what status they were told *)
  body,            (* what every body shows                                *)
  load,            (* loadTask under way, by the view it was called for    *)
  composer,        (* attachments of the next question                     *)
  upload,          (* the files picked, and how far their upload is        *)
  view,            (* which conversation since the page was opened it is, *)
                   (* counted by the clicks that leave one                 *)
  visit            (* the task in the URL, whether the page is starting,   *)
                   (* and how many logouts are under way                   *)

pageVars == <<task, generation, abort, active, stopping, label, opened, into, body>>
vars == <<streamVars, pageVars, load, composer, upload, view, visit>>

Views == 1..MaxViews
Uploads == 1..MaxUploads
(* The body of a question, and the one of a loaded task's resume button.   *)
Bodies == 1..(MaxStreams + MaxViews)
LoadedBody(l) == MaxStreams + l
(* The first view is loaded by no click, only when the page starts.        *)
AtStart == 1

Busy == {"agent", "generation", "cancel_requested"}
Settled == {"interrupted", "cancelled"} \cup Ended
Labels == {"idle"} \cup Busy \cup Settled

TypeOK ==
  /\ run \in [StreamRuns -> RunStatus]
  /\ taskOf \in [StreamRuns -> {NoId} \cup StreamTasks]
  /\ newest \in [StreamTasks -> {NoId} \cup StreamRuns]
  /\ attached \in [StreamTasks -> SUBSET Uploads]
  /\ \A s \in Streams :
       /\ server[s].at \in {"none", "asked", "open", "closed", "finished"}
       /\ server[s].request \in Request
       /\ \A i \in DOMAIN wire[s] : wire[s][i] \in Frames
       /\ Reading(s) \/ wire[s] = <<>>
  /\ client \in [Streams -> ClientStates]
  /\ task \in {NoId} \cup StreamTasks
  /\ {abort, active} \subseteq {NoId} \cup Streams
  /\ stopping \in [run : {NoId} \cup StreamRuns, reply : {"none", "failed", "cancelled"} \cup Ended]
  /\ label \in [text : Labels, stop : BOOLEAN]
  /\ opened \in [Streams -> 0..generation]
  /\ into \in [Streams -> [body : {NoId} \cup Bodies, told : RunStatus]]
  /\ body \in [Bodies -> [shown : BOOLEAN, draft : BOOLEAN, answer : {NoId} \cup StreamRuns,
                           button : {NoId} \cup StreamRuns]]
  /\ load \in [Views -> [at : {"none", "asked", "read", "rating", "over"}, task : {NoId} \cup StreamTasks,
                          latest : {NoId} \cup StreamRuns, status : RunStatus, files : SUBSET Uploads]]
  /\ composer \in [files : SUBSET Uploads, dirty : BOOLEAN, uploading : BOOLEAN, generation : Nat]
  /\ upload \in [Uploads -> [at : {"none", "polling", "over"}, generation : Nat, view : {NoId} \cup Views]]
  /\ view \in Views
  /\ visit \in [url : {NoId} \cup StreamTasks, starting : BOOLEAN, leaving : Nat]

NoBody == [shown |-> FALSE, draft |-> FALSE, answer |-> NoId, button |-> NoId]
NotStopping == [run |-> NoId, reply |-> "none"]
NoLoad == [at |-> "none", task |-> NoId, latest |-> NoId, status |-> "none", files |-> {}]
LoadOver == [NoLoad EXCEPT !.at = "over"]

(* setRunState.                                                            *)
RunState(text, activeRun, pending) ==
  [text |-> text,
   stop |-> text \in Busy \ {"cancel_requested"} /\ activeRun # NoId /\ ~pending]
StopPending == stopping.run # NoId
SetRunState(text) == label' = RunState(text, active', StopPending)

(* An empty page that is opened, for the first time or once more: with a   *)
(* conversation that has files, perhaps, and whose task may be in the URL. *)
Opens(status, files) ==
  /\ StreamInit(status, files)
  /\ task = NoId /\ generation = 0 /\ abort = NoId /\ active = NoId
  /\ stopping = NotStopping
  /\ label = RunState("idle", NoId, FALSE)
  /\ opened = [s \in Streams |-> 0]
  /\ into = [s \in Streams |-> [body |-> NoId, told |-> "none"]]
  /\ body = [b \in Bodies |-> NoBody]
  /\ load = [l \in Views |-> NoLoad]
  /\ composer = [files |-> {}, dirty |-> FALSE, uploading |-> FALSE, generation |-> 0]
  /\ upload = [u \in Uploads |-> [at |-> IF u \in files THEN "over" ELSE "none", generation |-> 0, view |-> NoId]]
  /\ view = 1
  /\ \E url \in {NoId} \cup Stored : visit = [url |-> url, starting |-> TRUE, leaving |-> 0]

Init ==
  \/ Opens("none", {})
  \/ \E status \in EarlierRuns, files \in SUBSET (Uploads \cap {1}) : Opens(status, files)

-----------------------------------------------------------------------------
(* Streams                                                                 *)

Used == {s \in Streams : opened[s] # 0}
Clicks ==
  Cardinality(Used) + view - 1 + Cardinality({u \in Uploads : upload[u].view # NoId})
    + visit.leaving + IF visit.starting \/ load[AtStart].at # "none" THEN 1 ELSE 0
MayClick == Clicks < MaxClicks

NextStream == {s \in Streams : HandlerAt(s, "none") /\ \A q \in 1..(s - 1) : ~HandlerAt(q, "none")}

(* What a stream was told is used by its own callbacks only, and not once  *)
(* there is a new generation.                                              *)
Untold == [s \in Streams |-> [into[s] EXCEPT !.told = "none"]]

(* A new generation whose stream writes into body b.                       *)
Open(s, b, request) ==
  /\ MayClick
  /\ generation' = generation + 1
  /\ abort' = s
  /\ opened' = [opened EXCEPT ![s] = generation']
  /\ into' = [Untold EXCEPT ![s].body = b]
  /\ client' = [Aborted(abort) EXCEPT ![s] = "reading"]
  /\ server' = [server EXCEPT ![s] = [at |-> "asked", request |-> request]]
  /\ wire' = [q \in Streams |-> IF q = abort THEN <<>> ELSE wire[q]]
  /\ UNCHANGED <<run, taskOf, newest, attached>>

(* submit and sendMessage.                                                 *)
SendMessage(s) ==
  /\ s \in NextStream
  /\ ~composer.uploading
  /\ Open(s, s, [run |-> s, task |-> task, files |-> IF composer.dirty THEN composer.files ELSE {}])
  /\ active' = NoId
  /\ SetRunState("agent")
  /\ body' = [body EXCEPT ![s] = [NoBody EXCEPT !.shown = TRUE]]
  /\ composer' = [composer EXCEPT !.dirty = FALSE]
  /\ UNCHANGED <<task, stopping, load, upload, view, visit>>

(* A click on "continue this run", which is refused while a stream is read.*)
ClickResume(s, b) ==
  LET r == body[b].button IN
  /\ s \in NextStream
  /\ abort = NoId
  /\ body[b].shown /\ r # NoId
  /\ Open(s, b, [NoRequest EXCEPT !.run = r])
  /\ active' = r
  /\ SetRunState("agent")
  /\ body' = [body EXCEPT ![b].button = NoId]
  /\ UNCHANGED <<task, stopping, load, composer, upload, view, visit>>

(* Faulty: the callbacks of an aborted stream are not told apart.          *)
AnyStream(s) == opened[s] <= generation
IsCurrentStream(s) == opened[s] = generation

(* authoritativeRunStatus.  The status is kept at the body; every stream   *)
(* sets it before it is used.                                              *)
AuthoritativeRunStatus(status, frame) ==
  CASE frame.event \in {"run_started", "run_resumed"} -> "running"
    [] frame.event = "run_interrupted" -> "interrupted"
    [] frame.event = "run_status" -> frame.status
    [] OTHER -> status

ShouldDisplayAnswer(status) == status \in Ended

(* Faulty: the status is shown where the stage belongs.                    *)
StatusAsRunState(frame) ==
  CASE frame.event \in {"run_started", "run_resumed"} -> "agent"
    [] frame.event = "run_status" -> frame.status
    [] frame.event = "run_interrupted" -> "interrupted"
    [] frame.event = "draft_delta" -> "generation"
    [] OTHER -> "unchanged"

EventRunState(frame) ==
  CASE frame.event \in {"run_started", "run_resumed"} -> "agent"
    [] frame.event = "run_status" -> IF frame.status = "running" THEN "agent" ELSE frame.status
    [] frame.event = "run_interrupted" -> "interrupted"
    [] frame.event = "draft_delta" -> "generation"
    [] OTHER -> "unchanged"

(* What handleEvent makes of body b; r is the run of the stream.           *)
EventBody(b, r, frame, status) ==
  CASE frame.event = "run_interrupted" -> [body[b] EXCEPT !.button = r]
    [] frame.event = "draft_delta" -> [body[b] EXCEPT !.draft = TRUE]
    [] frame.event = "draft_discarded" -> [body[b] EXCEPT !.draft = FALSE]
    [] frame.event = "run_status" /\ status = "failed" -> [body[b] EXCEPT !.draft = FALSE]
    [] frame.event = "answer" ->
         [body[b] EXCEPT !.draft = FALSE, !.answer = IF ShouldDisplayAnswer(status) THEN r ELSE @]
    [] OTHER -> body[b]

HandleEvent(s) ==
  LET frame == Head(wire[s])
      b == into[s].body
      status == AuthoritativeRunStatus(into[s].told, frame)
      text == EventRunState(frame)
  IN  /\ Reading(s) /\ wire[s] # <<>>
      /\ IsCurrentStream(s)
      /\ wire' = [wire EXCEPT ![s] = Tail(@)]
      /\ into' = [into EXCEPT ![s].told = status]
      /\ IF frame.event = "task_created"
         THEN task' = taskOf[RunOf(s)] /\ visit' = [visit EXCEPT !.url = taskOf[RunOf(s)]]
         ELSE UNCHANGED <<task, visit>>
      /\ active' = CASE frame.event \in {"run_started", "run_resumed"} -> RunOf(s)
                     [] text \in Settled -> NoId
                     [] OTHER -> active
      /\ IF text = "unchanged" THEN UNCHANGED label ELSE SetRunState(text)
      /\ body' = [body EXCEPT ![b] = EventBody(b, RunOf(s), frame, status)]
      /\ UNCHANGED <<run, taskOf, newest, attached, server, client, generation, abort, stopping, opened,
                     load, composer, upload, view>>

(* onDone, when the connection was closed at its other end.                *)
Done(s) ==
  /\ Reading(s) /\ wire[s] = <<>> /\ server[s].at \in {"closed", "finished"}
  /\ client' = [client EXCEPT ![s] = "done"]
  /\ IF IsCurrentStream(s)
     THEN /\ active' = NoId /\ abort' = NoId
          /\ IF active # NoId THEN SetRunState("failed") ELSE UNCHANGED label
     ELSE UNCHANGED <<active, abort, label>>
  /\ UNCHANGED <<run, taskOf, newest, attached, server, wire, task, generation, stopping, opened, into, body,
                 load, composer, upload, view, visit>>

(* onError, after an error response or because the connection was lost; a  *)
(* resumption that was refused for a conflict leaves the page idle.        *)
Fails(s) ==
  /\ Reading(s) \/ client[s] = "refused"
  /\ client' = [client EXCEPT ![s] = "failed"]
  /\ wire' = [wire EXCEPT ![s] = <<>>]
  /\ IF IsCurrentStream(s)
     THEN /\ active' = NoId /\ abort' = NoId
          /\ \/ SetRunState(IF into[s].told \in Settled THEN into[s].told ELSE "failed")
             \/ client[s] = "refused" /\ IsResume(s) /\ SetRunState("idle")
     ELSE UNCHANGED <<active, abort, label>>
  /\ UNCHANGED <<run, taskOf, newest, attached, server, task, generation, stopping, opened, into, body,
                 load, composer, upload, view, visit>>

-----------------------------------------------------------------------------
(* Stopping                                                                *)

StopGeneration ==
  /\ label.stop
  /\ active # NoId /\ ~StopPending
  /\ stopping' = [run |-> active, reply |-> "none"]
  /\ label' = RunState("cancel_requested", active, TRUE)
  /\ UNCHANGED <<streamVars, task, generation, abort, active, opened, into, body, load, composer, upload, view, visit>>

(* The control plane cancels the run unless it has ended, and answers with *)
(* its status.                                                             *)
CancelRun ==
  /\ StopPending /\ stopping.reply = "none"
  /\ run' = [run EXCEPT ![stopping.run] = IF @ \in Ended THEN @ ELSE "cancelled"]
  /\ stopping' = [stopping EXCEPT !.reply = run'[stopping.run]]
  /\ UNCHANGED <<taskOf, newest, attached, server, wire, client, task, generation, abort, active, label, opened,
                 into, body, load, composer, upload, view, visit>>

(* The rest of stopGeneration, with its finally.  The request may fail     *)
(* whether it was handled or not.                                          *)
StopReturns(failed) ==
  LET mine == stopping.run = active
      text == IF failed THEN "failed" ELSE stopping.reply
  IN  /\ StopPending
      /\ failed \/ stopping.reply # "none"
      /\ stopping' = NotStopping
      /\ active' = IF mine THEN NoId ELSE active
      /\ label' = IF active' # NoId THEN RunState("cancel_requested", active', FALSE)
                  ELSE IF mine THEN RunState(text, NoId, FALSE) ELSE label
      /\ UNCHANGED <<streamVars, task, generation, abort, opened, into, body, load, composer, upload, view, visit>>

-----------------------------------------------------------------------------
(* Conversations                                                           *)

(* clearAttachment.                                                        *)
ClearAttachment(dirty) ==
  composer' = [files |-> {}, dirty |-> dirty, uploading |-> FALSE, generation |-> composer.generation + 1]

(* Faulty: what is shown counts as chosen by the user.                     *)
ChooseFiles(files) == composer' = [composer EXCEPT !.files = files, !.dirty = TRUE]

(* onAttachmentSelectionChanged: the files of a conversation are shown.    *)
ShowFiles(files) == composer' = [composer EXCEPT !.files = files, !.dirty = FALSE]

(* What loadTask and newConversation do first.                             *)
Switch(t) ==
  /\ generation' = generation + 1
  /\ client' = Aborted(abort)
  /\ wire' = [q \in Streams |-> IF q = abort THEN <<>> ELSE wire[q]]
  /\ abort' = NoId
  /\ task' = t
  /\ active' = NoId
  /\ SetRunState("idle")
  /\ into' = Untold
  /\ body' = [b \in Bodies |-> [body[b] EXCEPT !.shown = FALSE, !.button = NoId]]
  /\ UNCHANGED <<run, taskOf, newest, attached, server, stopping, opened, upload>>

(* The user leaves a conversation: whatever is picked or uploaded for it   *)
(* is dropped.                                                             *)
ClickAway ==
  /\ MayClick /\ view < MaxViews
  /\ view' = view + 1
  /\ ClearAttachment(FALSE)

NewConversation ==
  /\ ClickAway
  /\ Switch(NoId)
  /\ visit' = [visit EXCEPT !.url = NoId]
  /\ UNCHANGED load

Asked(l, t) == load' = [load EXCEPT ![l] = [NoLoad EXCEPT !.at = "asked", !.task = t]]

LoadTask(t) ==
  /\ t \in Stored
  /\ ClickAway
  /\ Switch(t)
  /\ visit' = [visit EXCEPT !.url = t]
  /\ Asked(view', t)

(* Logging out: the new conversation begins when the control plane has     *)
(* answered.  What is picked or asked meanwhile still belongs to the old   *)
(* one for the page.                                                       *)
Logout ==
  /\ ClickAway
  /\ visit' = [visit EXCEPT !.url = NoId, !.leaving = @ + 1]
  /\ UNCHANGED <<streamVars, pageVars, load, upload>>

(* newConversation after it; an upload goes on.                            *)
LoggedOut ==
  /\ visit.leaving > 0
  /\ Switch(NoId)
  /\ ShowFiles({})
  /\ visit' = [visit EXCEPT !.leaving = @ - 1]
  /\ UNCHANGED <<load, view>>

(* There is no session to be had: nothing follows.                         *)
LogoutFails ==
  /\ visit.leaving > 0
  /\ visit' = [visit EXCEPT !.leaving = @ - 1]
  /\ UNCHANGED <<streamVars, pageVars, load, composer, upload, view>>

(* The page has started, and loads the task that its URL names by then;    *)
(* what was picked or asked meanwhile stays in the composer.               *)
RestoreTask ==
  /\ visit.starting /\ visit.url # NoId
  /\ Switch(visit.url)
  /\ Asked(AtStart, visit.url)
  /\ visit' = [visit EXCEPT !.starting = FALSE]
  /\ UNCHANGED <<composer, view>>

(* It has failed to start, or there is no task.                            *)
Started ==
  /\ visit.starting
  /\ visit' = [visit EXCEPT !.starting = FALSE]
  /\ UNCHANGED <<streamVars, pageVars, load, composer, upload, view>>

(* GET /tasks/{id} is handled (TaskDetail).  The run that was updated last *)
(* is the one that was stored last: the ones before had ended by then.     *)
ReadTask(l) ==
  LET t == load[l].task
      latest == newest[t]
  IN  /\ load[l].at = "asked"
      /\ load' = [load EXCEPT ![l].at = "read", ![l].latest = latest,
                              ![l].status = run[latest], ![l].files = attached[t]]
      /\ UNCHANGED <<streamVars, pageVars, composer, upload, view, visit>>

(* Its answer reaches the page: _onAttachmentSelectionChanged is called,   *)
(* and the ratings are awaited.                                            *)
AttachmentsLoaded(l) ==
  /\ load[l].at = "read"
  /\ load' = [load EXCEPT ![l].at = "rating", ![l].files = {}]
  /\ ShowFiles(load[l].files)
  /\ UNCHANGED <<streamVars, pageVars, upload, view, visit>>

(* The rest of loadTask, on whatever the page shows by then.               *)
TaskLoaded(l) ==
  LET latest == load[l].latest
      status == load[l].status
  IN  /\ load[l].at = "rating"
      /\ load' = [load EXCEPT ![l] = LoadOver]
      /\ label' = RunState(IF status = "running" THEN "agent" ELSE status, active, StopPending)
      /\ active' = IF status = "running" THEN latest ELSE active
      /\ body' = IF status = "interrupted"
                 THEN [body EXCEPT ![LoadedBody(l)] = [NoBody EXCEPT !.shown = TRUE, !.button = latest]]
                 ELSE body
      /\ UNCHANGED <<streamVars, task, generation, abort, stopping, opened, into, composer, upload, view, visit>>

LoadFails(l) ==
  /\ load[l].at = "asked"
  /\ load' = [load EXCEPT ![l] = LoadOver]
  /\ UNCHANGED <<streamVars, pageVars, composer, upload, view, visit>>

-----------------------------------------------------------------------------
(* Attachments                                                             *)

PickFile(u) ==
  /\ MayClick /\ upload[u].at = "none"
  /\ \A w \in 1..(u - 1) : upload[w].at # "none"
  /\ composer' = [composer EXCEPT !.generation = @ + 1, !.uploading = TRUE]
  /\ upload' = [upload EXCEPT ![u] = [at |-> "polling", generation |-> composer'.generation, view |-> view]]
  /\ UNCHANGED <<streamVars, pageVars, load, view, visit>>

(* Faulty: a file is attached when it is ready, wherever the page is.      *)
AlwaysWanted(u) == upload[u].generation <= composer.generation
StillWanted(u) == upload[u].generation = composer.generation

(* The polling ends: the file is ready, or it failed or took too long.     *)
(* docs/guides/evidence-qa.md:9 promises a page that files get ready; what *)
(* makes them ready is not part of it.                                     *)
UploadEnds(u, ready) ==
  /\ upload[u].at = "polling"
  /\ upload' = [upload EXCEPT ![u].at = "over", ![u].generation = 0]
  /\ composer' =
       IF ~StillWanted(u) THEN composer
       ELSE IF ready THEN [composer EXCEPT !.files = {u}, !.dirty = TRUE, !.uploading = FALSE]
       ELSE [composer EXCEPT !.uploading = FALSE]
  /\ UNCHANGED <<streamVars, pageVars, load, view, visit>>

(* The button that takes the files away again.  That it is hidden during   *)
(* and after an upload that fails is left out: it may always be clicked.   *)
ClickClear ==
  /\ composer.files # {}
  /\ ClearAttachment(TRUE)
  /\ UNCHANGED <<streamVars, pageVars, load, upload, view, visit>>

-----------------------------------------------------------------------------
Server(s) == HandlerStep(s) /\ UNCHANGED <<pageVars, load, composer, upload, view, visit>>

Next ==
  \/ \E s \in Streams :
       Server(s) \/ SendMessage(s) \/ HandleEvent(s) \/ Done(s) \/ Fails(s)
         \/ \E b \in Bodies : ClickResume(s, b)
  \/ StopGeneration \/ CancelRun \/ \E failed \in BOOLEAN : StopReturns(failed)
  \/ NewConversation \/ \E t \in StreamTasks : LoadTask(t)
  \/ Logout \/ LoggedOut \/ LogoutFails \/ RestoreTask \/ Started
  \/ \E l \in Views : ReadTask(l) \/ AttachmentsLoaded(l) \/ TaskLoaded(l) \/ LoadFails(l)
  \/ \E u \in Uploads : PickFile(u) \/ UploadEnds(u, TRUE) \/ UploadEnds(u, FALSE)
  \/ ClickClear

Spec == Init /\ [][Next]_vars
=============================================================================
