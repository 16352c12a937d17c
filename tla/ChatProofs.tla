------------------------------ MODULE ChatProofs ------------------------------
(***************************************************************************)
(* The chat page, for any number of questions, resumptions, conversations  *)
(* and files: it reads one stream at a time, leaves files behind with the  *)
(* conversation they were picked in, keeps its types, and leaves the       *)
(* answer of every run that was read past its result.                      *)
(*                                                                         *)
(* The first two rest on generations that only grow: a callback that still *)
(* holds the current one was made for what the page does now, and none     *)
(* holds a later one.  The last rests on who writes where: a body in which *)
(* a stream is read, or was read to its end, has no button to continue the *)
(* run with, so that no second stream is opened into it.                   *)
(***************************************************************************)
EXTENDS ChatProperties, TLAPS

(* The callbacks of a request that can still be called.                    *)
Pending(s) == client[s] \in {"reading", "refused"}

GenerationsTyped ==
  /\ generation \in Nat
  /\ opened \in [Streams -> Nat]
  /\ client \in [Streams -> ClientStates]

NoneFromTheFuture == \A s \in Streams : opened[s] <= generation

(* Whoever may still call back in the current generation is the one that   *)
(* _abortCurrent names.                                                    *)
CurrentIsNamed == \A s \in Streams : Pending(s) /\ IsCurrentStream(s) => abort = s

StreamInv ==
  /\ GenerationsTyped
  /\ NoneFromTheFuture
  /\ CurrentIsNamed
  /\ OneStream

(* What the argument is about.                                             *)
streamsOfPage == <<generation, abort, opened, client>>

(* The page as it is opened, for the first time or once more.              *)
LEMMA Opening ==
  ASSUME Init
  PROVE  \E status \in RunStatus, files \in SUBSET Uploads : Opens(status, files)
<1>1. "none" \in RunStatus /\ {} \in SUBSET Uploads
  BY DEF RunStatus
<1>2. EarlierRuns \subseteq RunStatus
  BY ChatPageAssumption
<1> QED BY <1>1, <1>2 DEF Init

LEMMA OpenedPage ==
  ASSUME Init
  PROVE  /\ task = NoId /\ generation = 0 /\ abort = NoId /\ active = NoId
         /\ stopping = NotStopping
         /\ label = RunState("idle", NoId, FALSE)
         /\ opened = [s \in Streams |-> 0]
         /\ into = [s \in Streams |-> [body |-> NoId, told |-> "none"]]
         /\ body = [b \in Bodies |-> NoBody]
         /\ load = [l \in Views |-> NoLoad]
         /\ composer = [files |-> {}, dirty |-> FALSE, uploading |-> FALSE, generation |-> 0]
         /\ upload \in [Uploads -> [at : {"none", "over"}, generation : {0}, view : {NoId}]]
         /\ view = 1
         /\ \E url \in {NoId} \cup Stored : visit = [url |-> url, starting |-> TRUE, leaving |-> 0]
         /\ client \in [Streams -> {"none", "aborted"}]
         /\ wire = [s \in Streams |-> <<>>]
         /\ DOMAIN server = Streams
         /\ \A s \in Streams : server[s].at \in {"none", "open", "closed"}
<1>1. PICK status \in RunStatus, files \in SUBSET Uploads : Opens(status, files)
  BY Opening
<1>2. upload = [u \in Uploads |-> [at |-> IF u \in files THEN "over" ELSE "none", generation |-> 0, view |-> NoId]]
  BY <1>1 DEF Opens
<1>3. upload \in [Uploads -> [at : {"none", "over"}, generation : {0}, view : {NoId}]]
  BY <1>2
<1>4. /\ client \in [Streams -> {"none", "aborted"}]
      /\ wire = [s \in Streams |-> <<>>]
      /\ DOMAIN server = Streams
      /\ \A s \in Streams : server[s].at \in {"none", "open", "closed"}
  BY <1>1 DEF Opens, StreamInit
<1>5. \E url \in {NoId} \cup Stored : visit = [url |-> url, starting |-> TRUE, leaving |-> 0]
  BY <1>1 DEF Opens
<1> QED BY <1>1, <1>3, <1>4, <1>5 DEF Opens

LEMMA StreamInvInit == Init => StreamInv
<1> SUFFICES ASSUME Init PROVE StreamInv
  OBVIOUS
<1>1. /\ generation = 0 /\ opened = [s \in Streams |-> 0]
      /\ client \in [Streams -> {"none", "aborted"}]
  BY OpenedPage
<1> QED
  BY <1>1 DEF StreamInv, GenerationsTyped, NoneFromTheFuture, CurrentIsNamed, OneStream, Pending, Reading,
              ClientStates

(* A step that has nothing to do with streams.                             *)
LEMMA StreamInvStutter ==
  ASSUME StreamInv, UNCHANGED streamsOfPage
  PROVE  StreamInv'
  BY DEF streamsOfPage, StreamInv, GenerationsTyped, NoneFromTheFuture, CurrentIsNamed, OneStream,
         Pending, Reading, IsCurrentStream

(* Aborting leaves no stream that is read.                                 *)
LEMMA AbortEnds ==
  ASSUME StreamInv, NEW q \in Streams
  PROVE  /\ Aborted(abort)[q] \in ClientStates
         /\ Aborted(abort)[q] # "reading"
  BY DEF StreamInv, GenerationsTyped, OneStream, Reading, Aborted, ClientStates

LEMMA StreamInvOpen ==
  ASSUME StreamInv, NEW s \in Streams, NEW b, NEW request, Open(s, b, request)
  PROVE  StreamInv'
<1>1. /\ generation' = generation + 1
      /\ abort' = s
      /\ opened' = [opened EXCEPT ![s] = generation']
      /\ client' = [Aborted(abort) EXCEPT ![s] = "reading"]
  BY DEF Open
<1>2. GenerationsTyped'
  BY <1>1, AbortEnds DEF StreamInv, GenerationsTyped, Aborted, ClientStates
<1>3. NoneFromTheFuture'
  BY <1>1 DEF StreamInv, GenerationsTyped, NoneFromTheFuture
<1>4. ASSUME NEW q \in Streams, q # s
      PROVE  opened'[q] # generation' /\ client'[q] # "reading"
  BY <1>1, <1>4, AbortEnds DEF StreamInv, GenerationsTyped, NoneFromTheFuture, Aborted
<1>5. CurrentIsNamed'
  BY <1>1, <1>4 DEF CurrentIsNamed, IsCurrentStream
<1>6. OneStream'
  BY <1>1, <1>4 DEF StreamInv, GenerationsTyped, OneStream, IsCurrentStream, Reading
<1> QED BY <1>2, <1>3, <1>5, <1>6 DEF StreamInv

LEMMA StreamInvSwitch ==
  ASSUME StreamInv, NEW t, Switch(t)
  PROVE  StreamInv'
<1>1. /\ generation' = generation + 1
      /\ client' = Aborted(abort)
      /\ opened' = opened
  BY DEF Switch
<1>2. GenerationsTyped'
  BY <1>1, AbortEnds DEF StreamInv, GenerationsTyped, Aborted
<1>3. NoneFromTheFuture' /\ \A q \in Streams : opened'[q] # generation'
  BY <1>1 DEF StreamInv, GenerationsTyped, NoneFromTheFuture
<1>4. CurrentIsNamed'
  BY <1>3 DEF CurrentIsNamed, IsCurrentStream
<1>5. OneStream'
  BY <1>1, AbortEnds DEF OneStream, Reading
<1> QED BY <1>2, <1>3, <1>4, <1>5 DEF StreamInv

(* The last callback of a request: it resets the page only in its own      *)
(* generation.                                                             *)
LEMMA StreamInvCallback ==
  ASSUME StreamInv, NEW s \in Streams, NEW end \in ClientStates \ {"reading", "refused"},
         Pending(s),
         client' = [client EXCEPT ![s] = end],
         IF IsCurrentStream(s) THEN abort' = NoId ELSE abort' = abort,
         UNCHANGED <<generation, opened>>
  PROVE  StreamInv'
<1>1. GenerationsTyped' /\ NoneFromTheFuture'
  BY DEF StreamInv, GenerationsTyped, NoneFromTheFuture
<1>2. \A q \in Streams : Pending(q)' => q # s /\ Pending(q)
  BY DEF StreamInv, GenerationsTyped, Pending
<1>3. \A q \in Streams : IsCurrentStream(q)' <=> IsCurrentStream(q)
  BY DEF IsCurrentStream
<1>4. CurrentIsNamed'
  BY <1>2, <1>3 DEF StreamInv, CurrentIsNamed
<1>5. OneStream'
  BY <1>2, <1>3, <1>4 DEF StreamInv, CurrentIsNamed, OneStream, Pending, Reading
<1> QED BY <1>1, <1>4, <1>5 DEF StreamInv

(* A handler that refuses a request changes how its end will be called.    *)
LEMMA StreamInvServer ==
  ASSUME StreamInv, NEW s \in Streams, Server(s)
  PROVE  StreamInv'
<1>1. UNCHANGED <<generation, abort, opened>>
  BY DEF Server, pageVars
<1>2. CASE client' = client
  BY <1>1, <1>2, StreamInvStutter DEF streamsOfPage
<1>3. CASE Refuse(s)
  <2>1. client' = [client EXCEPT ![s] = IF Reading(s) THEN "refused" ELSE @]
    BY <1>3 DEF Refuse, Reading
  <2>2. GenerationsTyped' /\ NoneFromTheFuture'
    BY <1>1, <2>1 DEF StreamInv, GenerationsTyped, NoneFromTheFuture, ClientStates
  <2>3. \A q \in Streams : (Pending(q)' => Pending(q)) /\ (Reading(q)' => Reading(q))
    BY <2>1 DEF StreamInv, GenerationsTyped, Pending, Reading
  <2>4. CurrentIsNamed' /\ OneStream'
    BY <1>1, <2>3 DEF StreamInv, CurrentIsNamed, OneStream, IsCurrentStream
  <2> QED BY <2>2, <2>4 DEF StreamInv
<1>4. client' = client \/ Refuse(s)
  BY DEF Server, HandlerStep, Start, StartFails, Resume, ResumeFails, Drafts, Finish, Interrupt,
         CancelNoticed, ClientGone
<1> QED BY <1>2, <1>3, <1>4

LEMMA StreamInvNext ==
  ASSUME StreamInv, [Next]_vars
  PROVE  StreamInv'
<1>1. ASSUME NEW s \in Streams, Server(s) PROVE StreamInv'
  BY <1>1, StreamInvServer
<1>2. ASSUME NEW s \in Streams, SendMessage(s) PROVE StreamInv'
  BY <1>2, StreamInvOpen DEF SendMessage
<1>3. ASSUME NEW s \in Streams, NEW b \in Bodies, ClickResume(s, b) PROVE StreamInv'
  BY <1>3, StreamInvOpen DEF ClickResume
<1>4. ASSUME NEW s \in Streams, HandleEvent(s) PROVE StreamInv'
  BY <1>4, StreamInvStutter DEF HandleEvent, streamsOfPage
<1>5. ASSUME NEW s \in Streams, Done(s) PROVE StreamInv'
  <2>1. Pending(s) /\ client' = [client EXCEPT ![s] = "done"] /\ UNCHANGED <<generation, opened>>
    BY <1>5 DEF Done, Pending, Reading
  <2>2. IF IsCurrentStream(s) THEN abort' = NoId ELSE abort' = abort
    BY <1>5 DEF Done
  <2>3. "done" \in ClientStates \ {"reading", "refused"}
    BY DEF ClientStates
  <2> QED BY <2>1, <2>2, <2>3, StreamInvCallback
<1>6. ASSUME NEW s \in Streams, Fails(s) PROVE StreamInv'
  <2>1. Pending(s) /\ client' = [client EXCEPT ![s] = "failed"] /\ UNCHANGED <<generation, opened>>
    BY <1>6 DEF Fails, Pending, Reading
  <2>2. IF IsCurrentStream(s) THEN abort' = NoId ELSE abort' = abort
    BY <1>6 DEF Fails
  <2>3. "failed" \in ClientStates \ {"reading", "refused"}
    BY DEF ClientStates
  <2> QED BY <2>1, <2>2, <2>3, StreamInvCallback
<1>7. ASSUME StopGeneration \/ CancelRun \/ \E failed \in BOOLEAN : StopReturns(failed)
      PROVE  StreamInv'
  BY <1>7, StreamInvStutter DEF StopGeneration, CancelRun, StopReturns, streamsOfPage, streamVars
<1>8. ASSUME NewConversation \/ LoggedOut \/ RestoreTask \/ \E t \in StreamTasks : LoadTask(t)
      PROVE  StreamInv'
  BY <1>8, StreamInvSwitch DEF NewConversation, LoadTask, LoggedOut, RestoreTask
<1>9. ASSUME NEW l \in Views, ReadTask(l) \/ AttachmentsLoaded(l) \/ TaskLoaded(l) \/ LoadFails(l)
      PROVE  StreamInv'
  BY <1>9, StreamInvStutter
     DEF ReadTask, AttachmentsLoaded, TaskLoaded, LoadFails, streamsOfPage, streamVars, pageVars
<1>10. ASSUME ClickClear \/ \E u \in Uploads : PickFile(u) \/ UploadEnds(u, TRUE) \/ UploadEnds(u, FALSE)
       PROVE  StreamInv'
  BY <1>10, StreamInvStutter DEF ClickClear, PickFile, UploadEnds, streamsOfPage, streamVars, pageVars
<1>11. CASE Logout \/ LogoutFails \/ Started \/ UNCHANGED vars
  BY <1>11, StreamInvStutter DEF Logout, LogoutFails, Started, vars, streamsOfPage, streamVars, pageVars
<1> QED
  BY <1>1, <1>2, <1>3, <1>4, <1>5, <1>6, <1>7, <1>8, <1>9, <1>10, <1>11 DEF Next

(* The page never reads two streams at once, and the one it reads is the   *)
(* one that the next question or conversation will abort.                  *)
THEOREM PageReadsOneStream == Spec => []OneStream
<1>1. Init => StreamInv
  BY StreamInvInit
<1>2. StreamInv /\ [Next]_vars => StreamInv'
  BY StreamInvNext
<1>3. StreamInv => OneStream
  BY DEF StreamInv
<1> QED BY <1>1, <1>2, <1>3, PTL DEF Spec

-----------------------------------------------------------------------------
(* Files                                                                   *)

(* What the files of the task hold when they are loaded does not matter:   *)
(* they are not dirty.                                                     *)
FilesTyped ==
  /\ composer = [files |-> composer.files, dirty |-> composer.dirty,
                 uploading |-> composer.uploading, generation |-> composer.generation]
  /\ composer.generation \in Nat
  /\ upload \in [Uploads -> [at : {"none", "polling", "over"}, generation : Nat, view : Nat]]
  /\ view \in Nat
  /\ DOMAIN server = Streams

NoLaterUpload == \A u \in Uploads : upload[u].generation <= composer.generation

(* An upload that will be attached was started in this view.               *)
WantedIsOfThisView ==
  \A u \in Uploads : upload[u].at = "polling" /\ StillWanted(u) => upload[u].view = view

DirtyIsOfThisView ==
  composer.dirty = TRUE => \A u \in composer.files : upload[u].view = view /\ u \in Uploads

FilesInv ==
  /\ FilesTyped
  /\ NoLaterUpload
  /\ WantedIsOfThisView
  /\ DirtyIsOfThisView

filesOfPage == <<composer, upload, view>>

LEMMA FilesInvInit == Init => FilesInv
<1> SUFFICES ASSUME Init PROVE FilesInv
  OBVIOUS
<1>1. /\ composer = [files |-> {}, dirty |-> FALSE, uploading |-> FALSE, generation |-> 0]
      /\ upload \in [Uploads -> [at : {"none", "over"}, generation : {0}, view : {NoId}]]
      /\ view = 1 /\ DOMAIN server = Streams
  BY OpenedPage
<1>2. FilesTyped
  BY <1>1 DEF FilesTyped, NoId
<1>3. NoLaterUpload /\ WantedIsOfThisView /\ DirtyIsOfThisView
  BY <1>1 DEF NoLaterUpload, WantedIsOfThisView, DirtyIsOfThisView
<1> QED BY <1>2, <1>3 DEF FilesInv

(* A step that has nothing to do with files.                               *)
LEMMA FilesInvStutter ==
  ASSUME FilesInv, UNCHANGED filesOfPage, DOMAIN server' = DOMAIN server
  PROVE  FilesInv'
  BY DEF filesOfPage, FilesInv, FilesTyped, NoLaterUpload, WantedIsOfThisView, DirtyIsOfThisView, StillWanted

(* A new generation: whatever is being uploaded is not wanted any more.    *)
LEMMA FilesInvClear ==
  ASSUME FilesInv, NEW dirty \in BOOLEAN, ClearAttachment(dirty), UNCHANGED <<upload, server>>, view' \in Nat
  PROVE  FilesInv'
  BY DEF ClearAttachment, FilesInv, FilesTyped, NoLaterUpload, WantedIsOfThisView, DirtyIsOfThisView, StillWanted

(* What is selected is not dirty, or stays as it is.                       *)
LEMMA FilesInvSelect ==
  ASSUME FilesInv, NEW files,
         composer' = [composer EXCEPT !.files = files, !.dirty = FALSE],
         UNCHANGED <<upload, view>>, DOMAIN server' = DOMAIN server
  PROVE  FilesInv'
<1>1. /\ composer'.dirty = FALSE
      /\ composer'.generation = composer.generation
      /\ composer' = [files |-> composer'.files, dirty |-> composer'.dirty,
                      uploading |-> composer'.uploading, generation |-> composer'.generation]
  BY DEF FilesInv, FilesTyped
<1> QED
  BY <1>1 DEF FilesInv, FilesTyped, NoLaterUpload, WantedIsOfThisView, DirtyIsOfThisView, StillWanted

LEMMA FilesInvPick ==
  ASSUME FilesInv, NEW u \in Uploads, PickFile(u)
  PROVE  FilesInv'
<1>1. /\ composer' = [composer EXCEPT !.generation = @ + 1, !.uploading = TRUE]
      /\ upload' = [upload EXCEPT ![u] =
           [at |-> "polling", generation |-> composer'.generation, view |-> view]]
      /\ view' = view /\ server' = server
  BY DEF PickFile, streamVars
<1>2. /\ composer'.generation = composer.generation + 1
      /\ composer'.files = composer.files /\ composer'.dirty = composer.dirty
      /\ composer' = [files |-> composer'.files, dirty |-> composer'.dirty,
                      uploading |-> composer'.uploading, generation |-> composer'.generation]
  BY <1>1 DEF FilesInv, FilesTyped
<1>3. FilesTyped'
  BY <1>1, <1>2 DEF FilesInv, FilesTyped
<1>4. NoLaterUpload' /\ WantedIsOfThisView'
  BY <1>1, <1>2 DEF FilesInv, FilesTyped, NoLaterUpload, WantedIsOfThisView, StillWanted
<1>5. DirtyIsOfThisView'
  BY <1>1, <1>2 DEF FilesInv, FilesTyped, DirtyIsOfThisView
<1> QED BY <1>3, <1>4, <1>5 DEF FilesInv

LEMMA FilesInvUploadEnds ==
  ASSUME FilesInv, NEW u \in Uploads, NEW ready \in BOOLEAN, UploadEnds(u, ready)
  PROVE  FilesInv'
<1>1. /\ upload[u].at = "polling"
      /\ upload' = [upload EXCEPT ![u].at = "over", ![u].generation = 0]
      /\ view' = view /\ server' = server
  BY DEF UploadEnds, streamVars
<1>2. /\ upload' \in [Uploads -> [at : {"none", "polling", "over"}, generation : Nat, view : Nat]]
      /\ \A v \in Uploads : /\ upload'[v].view = upload[v].view
                             /\ upload'[v].generation \in {0, upload[v].generation}
                             /\ upload'[v].at = "polling" =>
                                  upload[v].at = "polling" /\ upload'[v].generation = upload[v].generation
  BY <1>1 DEF FilesInv, FilesTyped
<1>3. CASE ~StillWanted(u) \/ ~ready
  <2>1. /\ composer'.files = composer.files /\ composer'.dirty = composer.dirty
        /\ composer'.generation = composer.generation
        /\ composer' = [files |-> composer'.files, dirty |-> composer'.dirty,
                        uploading |-> composer'.uploading, generation |-> composer'.generation]
    BY <1>3 DEF UploadEnds, FilesInv, FilesTyped
  <2> QED
    BY <1>1, <1>2, <2>1
       DEF FilesInv, FilesTyped, NoLaterUpload, WantedIsOfThisView, DirtyIsOfThisView, StillWanted
<1>4. CASE StillWanted(u) /\ ready
  <2>1. /\ composer'.files = {u}
        /\ composer'.generation = composer.generation
        /\ composer' = [files |-> composer'.files, dirty |-> composer'.dirty,
                        uploading |-> composer'.uploading, generation |-> composer'.generation]
    BY <1>4 DEF UploadEnds, FilesInv, FilesTyped
  <2>2. upload[u].view = view
    BY <1>1, <1>4 DEF FilesInv, WantedIsOfThisView
  <2> QED
    BY <1>1, <1>2, <2>1, <2>2
       DEF FilesInv, FilesTyped, NoLaterUpload, WantedIsOfThisView, DirtyIsOfThisView, StillWanted
<1> QED BY <1>3, <1>4

LEMMA FilesInvNext ==
  ASSUME FilesInv, [Next]_vars
  PROVE  FilesInv'
<1>1. ASSUME NEW s \in Streams, Server(s) PROVE FilesInv'
  <2>1. DOMAIN server' = DOMAIN server
    BY <1>1 DEF Server, HandlerStep, Start, StartFails, Resume, ResumeFails, Refuse, Drafts, Finish,
                Interrupt, CancelNoticed, ClientGone, Handler
  <2> QED BY <1>1, <2>1, FilesInvStutter DEF Server, filesOfPage
<1>2. ASSUME NEW s \in Streams, SendMessage(s) PROVE FilesInv'
  <2>1. DOMAIN server' = DOMAIN server /\ UNCHANGED <<upload, view>>
    BY <1>2 DEF SendMessage, Open
  <2>2. composer' = [composer EXCEPT !.files = composer.files, !.dirty = FALSE]
    BY <1>2 DEF SendMessage, FilesInv, FilesTyped
  <2> QED BY <2>1, <2>2, FilesInvSelect
<1>3. ASSUME NEW s \in Streams, NEW b \in Bodies, ClickResume(s, b) PROVE FilesInv'
  BY <1>3, FilesInvStutter DEF ClickResume, Open, filesOfPage
<1>4. ASSUME NEW s \in Streams, HandleEvent(s) \/ Done(s) \/ Fails(s) PROVE FilesInv'
  BY <1>4, FilesInvStutter DEF HandleEvent, Done, Fails, filesOfPage
<1>5. ASSUME StopGeneration \/ CancelRun \/ \E failed \in BOOLEAN : StopReturns(failed)
      PROVE  FilesInv'
  BY <1>5, FilesInvStutter DEF StopGeneration, CancelRun, StopReturns, filesOfPage, streamVars
<1>6. ASSUME NewConversation \/ Logout \/ \E t \in StreamTasks : LoadTask(t) PROVE FilesInv'
  <2>1. view' = view + 1 /\ UNCHANGED <<upload, server>> /\ ClearAttachment(FALSE)
    BY <1>6 DEF NewConversation, Logout, LoadTask, ClickAway, Switch, streamVars
  <2>2. view' \in Nat
    BY <2>1 DEF FilesInv, FilesTyped
  <2> QED BY <2>1, <2>2, FilesInvClear
<1>7. CASE LoggedOut
  <2>1. ShowFiles({}) /\ UNCHANGED <<upload, view, server>>
    BY <1>7 DEF LoggedOut, Switch
  <2> QED BY <2>1, FilesInvSelect DEF ShowFiles
<1>8. ASSUME NEW l \in Views, ReadTask(l) \/ TaskLoaded(l) \/ LoadFails(l) PROVE FilesInv'
  BY <1>8, FilesInvStutter DEF ReadTask, TaskLoaded, LoadFails, filesOfPage, streamVars, pageVars
<1>9. ASSUME NEW l \in Views, AttachmentsLoaded(l) PROVE FilesInv'
  BY <1>9, FilesInvSelect DEF AttachmentsLoaded, ShowFiles, streamVars
<1>10. ASSUME NEW u \in Uploads, PickFile(u) PROVE FilesInv'
  BY <1>10, FilesInvPick
<1>11. ASSUME NEW u \in Uploads, UploadEnds(u, TRUE) \/ UploadEnds(u, FALSE) PROVE FilesInv'
  BY <1>11, FilesInvUploadEnds
<1>12. ASSUME ClickClear PROVE FilesInv'
  BY <1>12, FilesInvClear DEF ClickClear, streamVars, FilesInv, FilesTyped
<1>13. CASE RestoreTask \/ Started \/ LogoutFails \/ UNCHANGED vars
  BY <1>13, FilesInvStutter DEF RestoreTask, Switch, Started, LogoutFails, vars, filesOfPage, streamVars
<1> QED
  BY <1>1, <1>2, <1>3, <1>4, <1>5, <1>6, <1>7, <1>8, <1>9, <1>10, <1>11, <1>12, <1>13 DEF Next

Asks(s) == HandlerAt(s, "none") /\ server'[s].at = "asked"
FilesAreOfThisView(s) == \A u \in server'[s].request.files : upload[u].view = view

(* Only a question and a resumption are new requests, and only a question  *)
(* names files.                                                            *)
LEMMA RequestNamesOwnFiles ==
  ASSUME FilesInv, [Next]_vars, NEW s \in Streams, Asks(s)
  PROVE  FilesAreOfThisView(s)
<1>1. ASSUME NEW q \in Streams, Server(q) PROVE FALSE
  <2>1. ~HandlerAt(q, "none")
    BY <1>1 DEF Server, HandlerStep, Start, StartFails, Resume, ResumeFails, Refuse, Drafts, Finish,
                Interrupt, CancelNoticed, ClientGone, HandlerAt
  <2>2. server'[s] = server[s] \/ s = q
    BY <1>1 DEF Server, HandlerStep, Start, StartFails, Resume, ResumeFails, Refuse, Drafts, Finish,
                Interrupt, CancelNoticed, ClientGone, Handler, FilesInv, FilesTyped
  <2> QED BY <2>1, <2>2 DEF Asks, HandlerAt
<1>2. ASSUME NEW q \in Streams, SendMessage(q) PROVE FilesAreOfThisView(s)
  <2>1. PICK request : /\ request.files = IF composer.dirty THEN composer.files ELSE {}
                       /\ server' = [server EXCEPT ![q] = [at |-> "asked", request |-> request]]
    BY <1>2 DEF SendMessage, Open
  <2>2. s = q
    BY <2>1 DEF Asks, HandlerAt, FilesInv, FilesTyped
  <2>3. server'[s].request.files = IF composer.dirty THEN composer.files ELSE {}
    BY <2>1, <2>2 DEF FilesInv, FilesTyped
  <2> QED BY <2>3 DEF FilesAreOfThisView, FilesInv, DirtyIsOfThisView
<1>3. ASSUME NEW q \in Streams, NEW b \in Bodies, ClickResume(q, b) PROVE FilesAreOfThisView(s)
  <2>1. PICK request : /\ request.files = {}
                       /\ server' = [server EXCEPT ![q] = [at |-> "asked", request |-> request]]
    BY <1>3 DEF ClickResume, Open, NoRequest
  <2>2. s = q
    BY <2>1 DEF Asks, HandlerAt, FilesInv, FilesTyped
  <2> QED BY <2>1, <2>2 DEF FilesAreOfThisView, FilesInv, FilesTyped
<1>4. ASSUME server' = server PROVE FALSE
  BY <1>4 DEF Asks, HandlerAt
<1>5. ASSUME NEW q \in Streams, HandleEvent(q) \/ Done(q) \/ Fails(q) PROVE server' = server
  BY <1>5 DEF HandleEvent, Done, Fails
<1>6. ASSUME \/ StopGeneration \/ CancelRun \/ \E failed \in BOOLEAN : StopReturns(failed)
             \/ NewConversation \/ \E t \in StreamTasks : LoadTask(t)
             \/ Logout \/ LoggedOut \/ LogoutFails \/ RestoreTask \/ Started
      PROVE  server' = server
  BY <1>6 DEF StopGeneration, CancelRun, StopReturns, NewConversation, LoadTask, Logout, LoggedOut, LogoutFails,
              RestoreTask, Started, Switch, streamVars
<1>7. ASSUME \/ \E l \in Views : ReadTask(l) \/ AttachmentsLoaded(l) \/ TaskLoaded(l) \/ LoadFails(l)
             \/ \E u \in Uploads : PickFile(u) \/ UploadEnds(u, TRUE) \/ UploadEnds(u, FALSE)
             \/ ClickClear \/ UNCHANGED vars
      PROVE  server' = server
  BY <1>7 DEF ReadTask, AttachmentsLoaded, TaskLoaded, LoadFails, PickFile, UploadEnds, ClickClear,
              vars, streamVars
<1> QED BY <1>1, <1>2, <1>3, <1>4, <1>5, <1>6, <1>7 DEF Next

(* No question takes along a file that was picked before the last click    *)
(* that left a conversation: an upload that is still wanted was started    *)
(* after it, and files that are only shown are not the user's choice.      *)
THEOREM PageKeepsFilesApart == Spec => FilesAreLeftBehind
<1>1. Init => FilesInv
  BY FilesInvInit
<1>2. FilesInv /\ [Next]_vars => FilesInv'
  BY FilesInvNext
<1>3. FilesInv /\ [Next]_vars =>
        [\A s \in Streams : Asks(s) => FilesAreOfThisView(s)]_vars
  BY RequestNamesOwnFiles
<1>4. [\A s \in Streams : Asks(s) => FilesAreOfThisView(s)]_vars =>
        [\A s \in Streams : HandlerAt(s, "none") /\ server'[s].at = "asked" =>
           \A u \in server'[s].request.files : upload[u].view = view]_vars
  BY DEF Asks, FilesAreOfThisView
<1> QED BY <1>1, <1>2, <1>3, <1>4, PTL DEF Spec, FilesAreLeftBehind

-----------------------------------------------------------------------------
(* Types                                                                   *)

(* The status of a frame: the handlers send only these.                    *)
SentFrames ==
  {Frame(event) : event \in {"task_created", "run_started", "run_resumed", "draft_delta",
                             "draft_discarded", "run_interrupted", "answer", "error"}}
    \cup {StatusFrame(status) : status \in {"running"} \cup Ended}

HandlerStates == {"none", "asked", "open", "closed", "finished"}
Requests == [run : {NoId} \cup StreamRuns, task : {NoId} \cup StreamTasks, files : SUBSET Uploads]

(* A task that is stored has a newest run, and that has begun.             *)
RunsTyped ==
  /\ run \in [StreamRuns -> RunStatus]
  /\ taskOf \in [StreamRuns -> {NoId} \cup StreamTasks]
  /\ newest \in [StreamTasks -> {NoId} \cup StreamRuns]
  /\ attached \in [StreamTasks -> SUBSET Uploads]
  /\ \A r \in StreamRuns : taskOf[r] # NoId => run[r] # "none" /\ newest[taskOf[r]] # NoId
  /\ \A t \in StreamTasks : newest[t] # NoId => run[newest[t]] # "none"

WiresTyped ==
  /\ server \in [Streams -> [at : HandlerStates, request : Requests]]
  /\ wire \in [Streams -> Seq(SentFrames)]
  /\ client \in [Streams -> ClientStates]

(* A request that was made names its run, and its handler has sent nothing *)
(* before it is called.  Frames are kept only for a page that reads them.  *)
RequestsNamed ==
  \A s \in Streams :
    /\ HandlerAt(s, "none") => client[s] = "none" /\ RunOf(s) = NoId
    /\ HandlerAt(s, "none") \/ RunOf(s) \in StreamRuns
    /\ HandlerAt(s, "asked") => wire[s] = <<>>
    /\ Reading(s) \/ wire[s] = <<>>

(* A run begins only with the question that it is named by.                *)
NotBegun(r) == run[r] = "none" /\ taskOf[r] = NoId
BegunByQuestion ==
  \A s \in Streams : HandlerAt(s, "none") \/ HandlerAt(s, "asked") \/ IsResume(s) => NotBegun(s)

ServerInv == RunsTyped /\ WiresTyped /\ RequestsNamed /\ BegunByQuestion

LEMMA NumbersTyped ==
  /\ Streams \subseteq Nat /\ NoId \notin Streams
  /\ StreamRuns = Streams /\ StreamTasks = Streams
  BY ChatStreamAssumption DEF Streams, StreamRuns, StreamTasks, NoId

LEMMA ServerInvInit == Init => ServerInv
<1> SUFFICES ASSUME Init PROVE ServerInv
  OBVIOUS
<1>1. PICK status \in RunStatus, files \in SUBSET Uploads : StreamInit(status, files)
  BY Opening DEF Opens
<1>2. RunsTyped
  BY <1>1, NumbersTyped DEF StreamInit, RunsTyped, RunStatus
<1>3. WiresTyped
  BY <1>1, NumbersTyped DEF StreamInit, WiresTyped, HandlerStates, Requests, NoRequest, ClientStates
<1>4. RequestsNamed /\ BegunByQuestion
  BY <1>1, NumbersTyped
     DEF StreamInit, RequestsNamed, BegunByQuestion, NotBegun, HandlerAt, RunOf, IsResume, Reading, NoRequest
<1> QED BY <1>2, <1>3, <1>4 DEF ServerInv

(* A handler goes on: its request stays, and so do those of the others.    *)
LEMMA HandlerMoves ==
  ASSUME WiresTyped, NEW s \in Streams, NEW to \in HandlerStates, Handler(s, to)
  PROVE  /\ server' \in [Streams -> [at : HandlerStates, request : Requests]]
         /\ server'[s].at = to
         /\ \A q \in Streams : server'[q].request = server[q].request
         /\ \A q \in Streams : q # s => server'[q].at = server[q].at
  BY DEF WiresTyped, Handler

LEMMA FramesSent ==
  ASSUME WiresTyped, NEW s \in Streams, NEW frames \in Seq(SentFrames), Sends(s, frames)
  PROVE  /\ wire' \in [Streams -> Seq(SentFrames)]
         /\ wire'[s] = IF Reading(s) THEN wire[s] \o frames ELSE wire[s]
         /\ \A q \in Streams : q # s => wire'[q] = wire[q]
  BY DEF WiresTyped, Sends

(* What a handler does to runs while the page's end stays as it is.        *)
LEMMA ServerInvHandler ==
  ASSUME ServerInv, NEW s \in Streams, ~HandlerAt(s, "none"),
         NEW to \in {"open", "closed", "finished"}, Handler(s, to),
         NEW frames \in Seq(SentFrames), Sends(s, frames),
         client' = client, RunsTyped',
         \A r \in StreamRuns : NotBegun(r) /\ ~(r = s /\ ~IsResume(s)) => NotBegun(r)'
  PROVE  ServerInv'
<1>1. /\ server' \in [Streams -> [at : HandlerStates, request : Requests]]
      /\ server'[s].at = to
      /\ \A q \in Streams : server'[q].request = server[q].request
      /\ \A q \in Streams : q # s => server'[q].at = server[q].at
  BY HandlerMoves DEF ServerInv, HandlerStates
<1>2. /\ wire' \in [Streams -> Seq(SentFrames)]
      /\ wire'[s] = IF Reading(s) THEN wire[s] \o frames ELSE wire[s]
      /\ \A q \in Streams : q # s => wire'[q] = wire[q]
  BY FramesSent DEF ServerInv
<1>3. WiresTyped'
  BY <1>1, <1>2 DEF WiresTyped, ServerInv
<1>4. RequestsNamed'
  BY <1>1, <1>2, NumbersTyped, SMTT(60) DEF ServerInv, RequestsNamed, HandlerAt, RunOf, Reading
<1>5. BegunByQuestion'
  BY <1>1, NumbersTyped DEF ServerInv, BegunByQuestion, HandlerAt, IsResume
<1> QED BY <1>3, <1>4, <1>5 DEF ServerInv

LEMMA FramesAreFrames ==
  /\ \A event \in {"task_created", "run_started", "run_resumed", "draft_delta", "draft_discarded",
                   "run_interrupted", "answer", "error"} : Frame(event) \in SentFrames
  /\ \A status \in {"running"} \cup Ended : StatusFrame(status) \in SentFrames
  BY DEF SentFrames

(* The runs after a step on one that has begun.                            *)
LEMMA RunSet ==
  ASSUME ServerInv, NEW s \in Streams, NEW status \in RunStatus \ {"none"},
         RunOf(s) \in StreamRuns, run[RunOf(s)] # "none",
         SetRun(s, status), UNCHANGED <<taskOf, newest, attached>>
  PROVE  RunsTyped' /\ \A r \in StreamRuns : NotBegun(r) => NotBegun(r)'
  BY DEF ServerInv, RunsTyped, SetRun, NotBegun

LEMMA ServerInvStart ==
  ASSUME ServerInv, NEW s \in Streams, Start(s)
  PROVE  ServerInv'
<1> DEFINE request == server[s].request
<1> DEFINE task0 == IF request.task = NoId THEN s ELSE request.task
<1>1. /\ HandlerAt(s, "asked") /\ ~IsResume(s)
      /\ run' = [run EXCEPT ![s] = "running"]
      /\ taskOf' = [taskOf EXCEPT ![s] = task0]
      /\ newest' = [newest EXCEPT ![task0] = s]
      /\ attached' = [attached EXCEPT ![task0] = request.files]
      /\ Sends(s, (IF request.task = NoId THEN <<Frame("task_created")>> ELSE <<>>)
                    \o <<Frame("run_started"), StatusFrame("running")>>)
      /\ Handler(s, "open")
      /\ client' = client
  BY DEF Start
<1>2. request \in Requests
  BY DEF ServerInv, WiresTyped
<1>3. task0 \in StreamTasks /\ request.files \in SUBSET Uploads
  BY <1>2, NumbersTyped DEF Requests
<1>4. RunsTyped'
  <2>1. run' \in [StreamRuns -> RunStatus] /\ taskOf' \in [StreamRuns -> {NoId} \cup StreamTasks]
    BY <1>1, <1>3 DEF ServerInv, RunsTyped, RunStatus
  <2>2. attached' \in [StreamTasks -> SUBSET Uploads]
    BY <1>1, <1>3 DEF ServerInv, RunsTyped
  <2>3. /\ newest' \in [StreamTasks -> {NoId} \cup StreamRuns]
        /\ \A t \in StreamTasks : newest'[t] = IF t = task0 THEN s ELSE newest[t]
    BY <1>1, <1>3, NumbersTyped DEF ServerInv, RunsTyped
  <2>4. \A r \in StreamRuns : /\ taskOf'[r] = IF r = s THEN task0 ELSE taskOf[r]
                              /\ run'[r] = IF r = s THEN "running" ELSE run[r]
    BY <1>1 DEF ServerInv, RunsTyped
  <2>5. \A r \in StreamRuns : taskOf'[r] # NoId => run'[r] # "none" /\ newest'[taskOf'[r]] # NoId
    BY <2>1, <2>3, <2>4, NumbersTyped DEF ServerInv, RunsTyped
  <2>6. \A t \in StreamTasks : newest'[t] # NoId => run'[newest'[t]] # "none"
    <3>1. ASSUME NEW t \in StreamTasks, newest'[t] # NoId PROVE run'[newest'[t]] # "none"
      <4>1. newest'[t] \in StreamRuns
        BY <2>3, <3>1
      <4>2. newest'[t] = s \/ run[newest'[t]] # "none"
        BY <2>3, <3>1 DEF ServerInv, RunsTyped
      <4> QED BY <2>4, <4>1, <4>2
    <3> QED BY <3>1
  <2> QED BY <2>1, <2>2, <2>3, <2>5, <2>6 DEF RunsTyped
<1>5. \A r \in StreamRuns : NotBegun(r) /\ ~(r = s /\ ~IsResume(s)) => NotBegun(r)'
  BY <1>1, NumbersTyped DEF ServerInv, RunsTyped, NotBegun
<1>6. (IF request.task = NoId THEN <<Frame("task_created")>> ELSE <<>>)
        \o <<Frame("run_started"), StatusFrame("running")>> \in Seq(SentFrames)
  BY FramesAreFrames
<1>7. ~HandlerAt(s, "none")
  BY <1>1 DEF HandlerAt
<1> HIDE DEF request, task0
<1> QED BY <1>1, <1>4, <1>5, <1>6, <1>7, ServerInvHandler

LEMMA ServerInvSends ==
  ASSUME ServerInv, NEW s \in Streams,
         StartFails(s) \/ ResumeFails(s) \/ \E fails \in BOOLEAN : CancelNoticed(s, fails)
  PROVE  ServerInv'
<1>0. <<>> \in Seq(SentFrames) /\ <<Frame("error")>> \in Seq(SentFrames)
  BY FramesAreFrames
<1>1. PICK frames \in Seq(SentFrames) : Sends(s, frames)
  BY <1>0 DEF StartFails, ResumeFails, CancelNoticed
<1>2. ~HandlerAt(s, "none") /\ Handler(s, "closed") /\ UNCHANGED <<run, taskOf, newest, attached, client>>
  BY DEF StartFails, ResumeFails, CancelNoticed, HandlerAt
<1>3. RunsTyped' /\ \A r \in StreamRuns : NotBegun(r) => NotBegun(r)'
  BY <1>2 DEF ServerInv, RunsTyped, NotBegun
<1> QED BY <1>1, <1>2, <1>3, ServerInvHandler

LEMMA ServerInvDrafts ==
  ASSUME ServerInv, NEW s \in Streams, NEW event \in {"draft_delta", "draft_discarded"}, Drafts(s, event)
  PROVE  ServerInv'
<1>1. <<Frame(event)>> \in Seq(SentFrames) /\ Sends(s, <<Frame(event)>>)
  BY FramesAreFrames DEF Drafts
<1>2. ~HandlerAt(s, "none") /\ UNCHANGED <<run, taskOf, newest, attached, client>>
  BY DEF Drafts, HandlerAt
<1>3. Handler(s, "open")
  BY DEF Drafts, HandlerAt, Handler, ServerInv, WiresTyped
<1>4. RunsTyped' /\ \A r \in StreamRuns : NotBegun(r) => NotBegun(r)'
  BY <1>2 DEF ServerInv, RunsTyped, NotBegun
<1> QED BY <1>1, <1>2, <1>3, <1>4, ServerInvHandler

(* The steps that set a run: a resumption, a result, an interruption.      *)
LEMMA ServerInvSets ==
  ASSUME ServerInv, NEW s \in Streams,
         \/ Resume(s)
         \/ \E status \in Ended : Finish(s, status)
         \/ \E fails \in BOOLEAN : Interrupt(s, fails)
  PROVE  ServerInv'
<1>1. PICK status \in RunStatus \ {"none"}, to \in {"open", "closed", "finished"},
           frames \in Seq(SentFrames) :
        SetRun(s, status) /\ Handler(s, to) /\ Sends(s, frames)
  <2>1. CASE Resume(s)
    <3>1. <<Frame("run_resumed"), StatusFrame("running")>> \in Seq(SentFrames)
      BY FramesAreFrames
    <3> QED BY <2>1, <3>1 DEF Resume, RunStatus
  <2>2. ASSUME NEW status \in Ended, Finish(s, status)
        PROVE  /\ SetRun(s, status) /\ Handler(s, "finished") /\ Sends(s, ResultFrames(status))
               /\ ResultFrames(status) \in Seq(SentFrames) /\ status \in RunStatus \ {"none"}
    BY <2>2, FramesAreFrames DEF Finish, ResultFrames, RunStatus, Ended
  <2>3. ASSUME NEW fails \in BOOLEAN, Interrupt(s, fails)
        PROVE  /\ SetRun(s, "interrupted") /\ Handler(s, "closed")
               /\ \E frames \in Seq(SentFrames) : Sends(s, frames)
    <3>1. <<Frame("run_interrupted")>> \o (IF fails THEN <<Frame("error")>> ELSE <<>>) \in Seq(SentFrames)
      BY FramesAreFrames
    <3> QED BY <2>3, <3>1 DEF Interrupt
  <2>4. CASE \E status \in Ended : Finish(s, status)
    BY <2>2, <2>4
  <2>5. CASE \E fails \in BOOLEAN : Interrupt(s, fails)
    BY <2>3, <2>5 DEF RunStatus
  <2> QED BY <2>1, <2>4, <2>5
<1>2. ~HandlerAt(s, "none") /\ run[RunOf(s)] # "none" /\ UNCHANGED <<taskOf, newest, attached, client>>
  BY DEF Resume, Finish, Interrupt, HandlerAt
<1>3. RunOf(s) \in StreamRuns
  BY <1>2 DEF ServerInv, RequestsNamed
<1>4. RunsTyped' /\ \A r \in StreamRuns : NotBegun(r) => NotBegun(r)'
  BY <1>1, <1>2, <1>3, RunSet
<1> QED BY <1>1, <1>2, <1>4, ServerInvHandler

LEMMA ServerInvGone ==
  ASSUME ServerInv, NEW s \in Streams, ClientGone(s)
  PROVE  ServerInv'
<1>1. /\ HandlerAt(s, "open") /\ ~Reading(s) /\ Handler(s, "closed")
      /\ UNCHANGED <<taskOf, newest, attached, wire, client>>
  BY DEF ClientGone
<1>2. ~HandlerAt(s, "none") /\ RunOf(s) \in StreamRuns
  BY <1>1 DEF HandlerAt, ServerInv, RequestsNamed
<1>3. Sends(s, <<>>) /\ <<>> \in Seq(SentFrames)
  BY <1>1 DEF Sends, ServerInv, WiresTyped
<1>4. RunsTyped' /\ \A r \in StreamRuns : NotBegun(r) => NotBegun(r)'
  <2>1. CASE run' = run
    BY <1>1, <2>1 DEF ServerInv, RunsTyped, NotBegun
  <2>2. CASE run[RunOf(s)] = "running" /\ SetRun(s, "interrupted")
    BY <1>1, <1>2, <2>2, RunSet DEF RunStatus
  <2> QED BY <2>1, <2>2 DEF ClientGone
<1> QED BY <1>1, <1>2, <1>3, <1>4, ServerInvHandler

LEMMA ServerInvRefuse ==
  ASSUME ServerInv, NEW s \in Streams, Refuse(s)
  PROVE  ServerInv'
<1>1. /\ HandlerAt(s, "asked") /\ Handler(s, "closed")
      /\ client' = [client EXCEPT ![s] = IF Reading(s) THEN "refused" ELSE @]
      /\ UNCHANGED <<run, taskOf, newest, attached, wire>>
  BY DEF Refuse, Reading
<1>2. /\ server' \in [Streams -> [at : HandlerStates, request : Requests]]
      /\ server'[s].at = "closed"
      /\ \A q \in Streams : server'[q].request = server[q].request
      /\ \A q \in Streams : q # s => server'[q].at = server[q].at
  BY <1>1, HandlerMoves DEF ServerInv, HandlerStates
<1>3. /\ client' \in [Streams -> ClientStates]
      /\ \A q \in Streams : q # s => client'[q] = client[q]
      /\ client'[s] # "reading"
  BY <1>1 DEF ServerInv, WiresTyped, ClientStates, Reading
<1>4. RunsTyped' /\ WiresTyped'
  BY <1>1, <1>2, <1>3 DEF ServerInv, RunsTyped, WiresTyped
<1>5. RequestsNamed'
  BY <1>1, <1>2, <1>3, NumbersTyped DEF ServerInv, RequestsNamed, HandlerAt, RunOf, Reading
<1>6. BegunByQuestion'
  BY <1>1, <1>2, NumbersTyped DEF ServerInv, BegunByQuestion, NotBegun, HandlerAt, IsResume
<1> QED BY <1>4, <1>5, <1>6 DEF ServerInv

(* The page's own state.                                                   *)
Replies == {"none", "failed", "cancelled"} \cup Ended
NamesTyped ==
  /\ task \in {NoId} \cup StreamTasks
  /\ abort \in {NoId} \cup Streams /\ active \in {NoId} \cup StreamRuns
  /\ stopping \in [run : {NoId} \cup StreamRuns, reply : Replies]
  /\ label \in [text : Labels, stop : BOOLEAN]
  /\ into \in [Streams -> [body : {NoId} \cup Bodies, told : RunStatus]]
  /\ body \in [Bodies -> [shown : BOOLEAN, draft : BOOLEAN, answer : {NoId} \cup StreamRuns,
                           button : {NoId} \cup StreamRuns]]
ClicksTyped ==
  /\ load \in [Views -> [at : {"none", "asked", "read", "rating", "over"}, task : {NoId} \cup StreamTasks,
                          latest : {NoId} \cup StreamRuns, status : RunStatus, files : SUBSET Uploads]]
  /\ composer \in [files : SUBSET Uploads, dirty : BOOLEAN, uploading : BOOLEAN, generation : Nat]
  /\ upload \in [Uploads -> [at : {"none", "polling", "over"}, generation : Nat, view : {NoId} \cup Views]]
  /\ view \in Views
  /\ visit \in [url : {NoId} \cup StreamTasks, starting : BOOLEAN, leaving : Nat]

(* Whatever run the page knows of has begun: from a frame of its stream,   *)
(* or from a conversation that is loaded.                                  *)
Begun(r) == run[r] # "none"
OnlyBegun ==
  /\ active # NoId => Begun(active)
  /\ stopping.run # NoId => Begun(stopping.run)
  /\ \A b \in Bodies : body[b].button # NoId => Begun(body[b].button)
  /\ \A s \in Streams : \A i \in DOMAIN wire[s] : wire[s][i] # Frame("error") => Begun(RunOf(s))
LoadsStored ==
  /\ visit.url # NoId => visit.url \in Stored
  /\ \A l \in Views :
       /\ load[l].at = "asked" => load[l].task \in Stored
       /\ load[l].at \in {"read", "rating"} =>
            load[l].status # "none" /\ load[l].latest \in StreamRuns /\ Begun(load[l].latest)

TypedInv == StreamInv /\ ServerInv /\ NamesTyped /\ ClicksTyped /\ OnlyBegun /\ LoadsStored

LEMMA TypedIsTypeOK == TypedInv => TypeOK
<1> SUFFICES ASSUME TypedInv PROVE TypeOK
  OBVIOUS
<1>1. /\ run \in [StreamRuns -> RunStatus]
      /\ taskOf \in [StreamRuns -> {NoId} \cup StreamTasks]
      /\ newest \in [StreamTasks -> {NoId} \cup StreamRuns]
      /\ attached \in [StreamTasks -> SUBSET Uploads]
  BY DEF TypedInv, ServerInv, RunsTyped
<1>2. \A s \in Streams :
       /\ server[s].at \in {"none", "asked", "open", "closed", "finished"}
       /\ server[s].request \in Request
       /\ \A i \in DOMAIN wire[s] : wire[s][i] \in Frames
       /\ Reading(s) \/ wire[s] = <<>>
  <2>1. Uploads \subseteq Nat
    BY DEF Uploads
  <2>2. Requests \subseteq Request
    BY <2>1 DEF Requests, Request
  <2>3. \A event \in {"task_created", "run_started", "run_resumed", "draft_delta", "draft_discarded",
                      "run_interrupted", "answer", "error"} : Frame(event) \in Frames
    BY DEF Frame, Frames
  <2>4. \A status \in RunStatus : StatusFrame(status) \in Frames
    BY DEF StatusFrame, Frames
  <2>5. SentFrames \subseteq Frames
    BY <2>3, <2>4 DEF SentFrames, RunStatus
  <2> QED BY <2>2, <2>5 DEF TypedInv, ServerInv, WiresTyped, RequestsNamed, HandlerStates
<1>3. client \in [Streams -> ClientStates]
  BY DEF TypedInv, ServerInv, WiresTyped
<1>4. opened \in [Streams -> 0..generation]
  BY DEF TypedInv, StreamInv, GenerationsTyped, NoneFromTheFuture
<1>5. {abort, active} \subseteq {NoId} \cup Streams
  BY NumbersTyped DEF TypedInv, NamesTyped
<1> QED
  BY <1>1, <1>2, <1>3, <1>4, <1>5 DEF TypedInv, NamesTyped, ClicksTyped, Replies, TypeOK

-----------------------------------------------------------------------------
(* A request that is aborted has no frames any more and is not read.       *)
LEMMA AbortedTyped ==
  ASSUME TypedInv, wire' = [q \in Streams |-> IF q = abort THEN <<>> ELSE wire[q]]
  PROVE  /\ wire' \in [Streams -> Seq(SentFrames)]
         /\ Aborted(abort) \in [Streams -> ClientStates]
         /\ \A q \in Streams : wire'[q] = <<>>
         /\ \A q \in Streams : client[q] # "reading" => Aborted(abort)[q] = client[q]
<1>1. wire' \in [Streams -> Seq(SentFrames)]
  BY DEF TypedInv, ServerInv, WiresTyped
<1>2. Aborted(abort) \in [Streams -> ClientStates]
  BY DEF TypedInv, ServerInv, WiresTyped, Aborted, ClientStates
<1>3. \A q \in Streams : wire'[q] = <<>>
  BY DEF TypedInv, ServerInv, RequestsNamed, StreamInv, OneStream
<1>4. \A q \in Streams : client[q] # "reading" => Aborted(abort)[q] = client[q]
  BY DEF Aborted, Reading
<1> QED BY <1>1, <1>2, <1>3, <1>4

LEMMA ServerInvOpen ==
  ASSUME TypedInv, NEW s \in NextStream, NEW b, NEW request \in Requests, request.run \in StreamRuns,
         Open(s, b, request)
  PROVE  ServerInv'
<1>1. /\ s \in Streams /\ HandlerAt(s, "none")
      /\ client' = [Aborted(abort) EXCEPT ![s] = "reading"]
      /\ server' = [server EXCEPT ![s] = [at |-> "asked", request |-> request]]
      /\ wire' = [q \in Streams |-> IF q = abort THEN <<>> ELSE wire[q]]
      /\ UNCHANGED <<run, taskOf, newest, attached>>
  BY DEF Open, NextStream
<1>2. RunsTyped'
  BY <1>1 DEF TypedInv, ServerInv, RunsTyped
<1>3. /\ wire' \in [Streams -> Seq(SentFrames)]
      /\ Aborted(abort) \in [Streams -> ClientStates]
      /\ \A q \in Streams : wire'[q] = <<>>
      /\ \A q \in Streams : client[q] # "reading" => Aborted(abort)[q] = client[q]
  BY <1>1, AbortedTyped
<1>4. WiresTyped'
  BY <1>1, <1>3 DEF TypedInv, ServerInv, WiresTyped, HandlerStates, ClientStates
<1>5. server'[s].at = "asked" /\ server'[s].request = request
      /\ \A q \in Streams : q # s => server'[q] = server[q] /\ client'[q] = Aborted(abort)[q]
  BY <1>1, <1>3 DEF TypedInv, ServerInv, WiresTyped
<1>6. RequestsNamed'
  BY <1>3, <1>5, NumbersTyped DEF TypedInv, ServerInv, RequestsNamed, HandlerAt, RunOf
<1>7. BegunByQuestion'
  BY <1>1, <1>5, NumbersTyped DEF TypedInv, ServerInv, BegunByQuestion, NotBegun, HandlerAt, IsResume
<1> QED BY <1>2, <1>4, <1>6, <1>7 DEF ServerInv

LEMMA ServerInvSwitch ==
  ASSUME TypedInv, NEW t, Switch(t)
  PROVE  ServerInv'
<1>1. /\ client' = Aborted(abort)
      /\ wire' = [q \in Streams |-> IF q = abort THEN <<>> ELSE wire[q]]
      /\ UNCHANGED <<run, taskOf, newest, attached, server>>
  BY DEF Switch
<1>2. /\ wire' \in [Streams -> Seq(SentFrames)]
      /\ client' \in [Streams -> ClientStates]
      /\ \A q \in Streams : wire'[q] = <<>>
      /\ \A q \in Streams : client[q] # "reading" => client'[q] = client[q]
  BY <1>1, AbortedTyped
<1>3. RunsTyped' /\ WiresTyped'
  BY <1>1, <1>2 DEF TypedInv, ServerInv, RunsTyped, WiresTyped
<1>4. RequestsNamed' /\ BegunByQuestion'
  BY <1>1, <1>2, NumbersTyped
     DEF TypedInv, ServerInv, RequestsNamed, BegunByQuestion, NotBegun, HandlerAt, IsResume, RunOf
<1> QED BY <1>3, <1>4 DEF ServerInv

(* The page reads a frame, or its end of a request changes.                *)
LEMMA ServerInvPageEnd ==
  ASSUME TypedInv, NEW s \in Streams, HandleEvent(s) \/ Done(s) \/ Fails(s)
  PROVE  ServerInv'
<1>1. UNCHANGED <<run, taskOf, newest, attached, server>>
  BY DEF HandleEvent, Done, Fails
<1>2. client[s] # "none" /\ client' \in [Streams -> ClientStates]
      /\ \A q \in Streams : q # s => client'[q] = client[q]
  BY DEF HandleEvent, Done, Fails, Reading, TypedInv, ServerInv, WiresTyped, ClientStates
<1>3. /\ wire' \in [Streams -> Seq(SentFrames)]
      /\ \A q \in Streams : q # s => wire'[q] = wire[q]
      /\ client'[s] = "reading" \/ wire'[s] = <<>>
      /\ HandlerAt(s, "asked") => wire'[s] = <<>>
  <2>1. /\ wire \in [Streams -> Seq(SentFrames)] /\ client \in [Streams -> ClientStates]
        /\ HandlerAt(s, "asked") => wire[s] = <<>>
    BY DEF TypedInv, ServerInv, WiresTyped, RequestsNamed
  <2>2. CASE HandleEvent(s)
    <3>1. wire[s] # <<>> /\ wire' = [wire EXCEPT ![s] = Tail(@)] /\ client' = client /\ client[s] = "reading"
      BY <2>2 DEF HandleEvent, Reading
    <3>2. Tail(wire[s]) \in Seq(SentFrames)
      BY <2>1, <3>1
    <3> QED BY <2>1, <3>1, <3>2
  <2>3. CASE Done(s)
    BY <2>1, <2>3 DEF Done
  <2>4. CASE Fails(s)
    BY <2>1, <2>4 DEF Fails
  <2> QED BY <2>2, <2>3, <2>4
<1>4. RunsTyped' /\ WiresTyped' /\ BegunByQuestion'
  BY <1>1, <1>2, <1>3
     DEF TypedInv, ServerInv, RunsTyped, WiresTyped, BegunByQuestion, NotBegun, HandlerAt, IsResume, RunOf
<1>5. RequestsNamed'
  BY <1>1, <1>2, <1>3 DEF TypedInv, ServerInv, RequestsNamed, HandlerAt, RunOf, Reading
<1> QED BY <1>4, <1>5 DEF ServerInv

LEMMA ServerInvCancel ==
  ASSUME TypedInv, CancelRun
  PROVE  ServerInv'
<1>1. /\ stopping.run \in StreamRuns /\ Begun(stopping.run)
      /\ UNCHANGED <<taskOf, newest, attached, server, wire, client>>
  BY DEF CancelRun, StopPending, TypedInv, NamesTyped, OnlyBegun
<1>2. run' = [run EXCEPT ![stopping.run] = IF @ \in Ended THEN @ ELSE "cancelled"]
  BY DEF CancelRun
<1>3. run' \in [StreamRuns -> RunStatus] /\ \A r \in StreamRuns : Begun(r)' <=> Begun(r)
  BY <1>1, <1>2 DEF TypedInv, ServerInv, RunsTyped, RunStatus, Begun, Ended
<1>4. RunsTyped' /\ WiresTyped'
  BY <1>1, <1>3 DEF TypedInv, ServerInv, RunsTyped, WiresTyped, Begun
<1>5. RequestsNamed' /\ BegunByQuestion'
  BY <1>1, <1>3, NumbersTyped
     DEF TypedInv, ServerInv, RequestsNamed, BegunByQuestion, NotBegun, Begun, HandlerAt, IsResume, RunOf, Reading
<1> QED BY <1>4, <1>5 DEF ServerInv

(* A new request, of a question or of a resumption.                        *)
LEMMA RequestsOpen ==
  ASSUME TypedInv, NEW s \in Streams, SendMessage(s) \/ \E b \in Bodies : ClickResume(s, b)
  PROVE  /\ s \in NextStream
         /\ \E b \in Bodies, request \in Requests :
              /\ request.run \in StreamRuns
              /\ Open(s, b, request)
              /\ SendMessage(s) => b = s
<1>0. Streams \subseteq Bodies
  BY ChatStreamAssumption, ChatPageAssumption DEF Streams, Bodies
<1>1. CASE SendMessage(s)
  <2> DEFINE request == [run |-> s, task |-> task,
                         files |-> IF composer.dirty THEN composer.files ELSE {}]
  <2>1. s \in NextStream /\ Open(s, s, request)
    BY <1>1 DEF SendMessage
  <2>2. request \in Requests /\ request.run \in StreamRuns
    BY NumbersTyped DEF Requests, TypedInv, NamesTyped, ClicksTyped
  <2> HIDE DEF request
  <2> QED BY <1>0, <2>1, <2>2
<1>2. ASSUME NEW b \in Bodies, ClickResume(s, b), ~SendMessage(s)
      PROVE  s \in NextStream /\ \E request \in Requests : request.run \in StreamRuns /\ Open(s, b, request)
  <2> DEFINE request == [NoRequest EXCEPT !.run = body[b].button]
  <2>1. s \in NextStream /\ Open(s, b, request) /\ body[b].button # NoId
    BY <1>2 DEF ClickResume
  <2>2. request \in Requests /\ request.run \in StreamRuns
    BY <2>1 DEF NoRequest, Requests, TypedInv, NamesTyped
  <2> HIDE DEF request
  <2> QED BY <2>1, <2>2
<1> QED BY <1>1, <1>2

LEMMA ServerInvStep ==
  ASSUME ServerInv, NEW s \in Streams, Server(s)
  PROVE  ServerInv'
  BY ServerInvStart, ServerInvSends, ServerInvDrafts, ServerInvSets, ServerInvGone, ServerInvRefuse
     DEF Server, HandlerStep

LEMMA ServerInvNext ==
  ASSUME TypedInv, [Next]_vars
  PROVE  ServerInv'
<1>0. ServerInv
  BY DEF TypedInv
<1>1. ASSUME NEW s \in Streams, Server(s) PROVE ServerInv'
  BY <1>0, <1>1, ServerInvStep
<1>2. ASSUME NEW s \in Streams, SendMessage(s) \/ \E b \in Bodies : ClickResume(s, b) PROVE ServerInv'
  BY <1>2, RequestsOpen, ServerInvOpen
<1>3. ASSUME NEW s \in Streams, HandleEvent(s) \/ Done(s) \/ Fails(s) PROVE ServerInv'
  BY <1>3, ServerInvPageEnd
<1>4. CASE CancelRun
  BY <1>4, ServerInvCancel
<1>5. CASE NewConversation \/ LoggedOut \/ RestoreTask \/ \E t \in StreamTasks : LoadTask(t)
  BY <1>5, ServerInvSwitch DEF NewConversation, LoadTask, LoggedOut, RestoreTask
<1>6. ASSUME UNCHANGED streamVars PROVE ServerInv'
  BY <1>0, <1>6 DEF streamVars, ServerInv, RunsTyped, WiresTyped, RequestsNamed, BegunByQuestion, NotBegun,
                    HandlerAt, IsResume, RunOf, Reading
<1>7. CASE \/ StopGeneration \/ \E failed \in BOOLEAN : StopReturns(failed)
           \/ Logout \/ LogoutFails \/ Started
  BY <1>6, <1>7 DEF StopGeneration, StopReturns, Logout, LogoutFails, Started
<1>8. CASE \/ \E l \in Views : ReadTask(l) \/ AttachmentsLoaded(l) \/ TaskLoaded(l) \/ LoadFails(l)
           \/ \E u \in Uploads : PickFile(u) \/ UploadEnds(u, TRUE) \/ UploadEnds(u, FALSE)
           \/ ClickClear \/ UNCHANGED vars
  BY <1>6, <1>8 DEF ReadTask, AttachmentsLoaded, TaskLoaded, LoadFails, PickFile, UploadEnds, ClickClear, vars
<1> QED BY <1>1, <1>2, <1>3, <1>4, <1>5, <1>7, <1>8 DEF Next

-----------------------------------------------------------------------------
(* A run goes on: what has begun stays begun, what has ended stays so, and *)
(* a run stays in its task.                                                *)
Onward(r) ==
  /\ Begun(r) => Begun(r)'
  /\ run[r] \in Ended => run'[r] = run[r]
  /\ taskOf[r] # NoId => taskOf'[r] = taskOf[r]

LEMMA RunsOnwardServer ==
  ASSUME ServerInv, NEW s \in Streams, Server(s), NEW r \in StreamRuns
  PROVE  Onward(r)
<1>1. run \in [StreamRuns -> RunStatus] /\ taskOf \in [StreamRuns -> {NoId} \cup StreamTasks]
  BY DEF ServerInv, RunsTyped
<1>2. CASE Start(s)
  <2>1. NotBegun(s) /\ s \in StreamRuns
    BY <1>2, NumbersTyped DEF Start, ServerInv, BegunByQuestion
  <2> QED BY <1>1, <1>2, <2>1 DEF Start, Onward, Begun, NotBegun, Ended
<1>3. CASE \/ Resume(s)
           \/ \E status \in Ended : Finish(s, status)
           \/ \E fails \in BOOLEAN : Interrupt(s, fails)
           \/ ClientGone(s)
  <2>1. \/ run' = run
        \/ \E status \in {"running", "interrupted"} \cup Ended :
             /\ run' = [run EXCEPT ![RunOf(s)] = status]
             /\ run[RunOf(s)] \in {"running", "interrupted"}
    BY <1>3 DEF Resume, Finish, Interrupt, ClientGone, SetRun
  <2>2. taskOf' = taskOf
    BY <1>3 DEF Resume, Finish, Interrupt, ClientGone
  <2> QED BY <1>1, <2>1, <2>2 DEF Onward, Begun, Ended
<1>4. ASSUME UNCHANGED <<run, taskOf>> PROVE Onward(r)
  BY <1>4 DEF Onward, Begun
<1>5. CASE \/ StartFails(s) \/ ResumeFails(s) \/ Refuse(s)
           \/ \E event \in {"draft_delta", "draft_discarded"} : Drafts(s, event)
           \/ \E fails \in BOOLEAN : CancelNoticed(s, fails)
  BY <1>4, <1>5 DEF StartFails, ResumeFails, Refuse, Drafts, CancelNoticed
<1> QED BY <1>2, <1>3, <1>5 DEF Server, HandlerStep

LEMMA RunsOnward ==
  ASSUME TypedInv, [Next]_vars, NEW r \in StreamRuns
  PROVE  Onward(r)
<1>0. ServerInv
  BY DEF TypedInv
<1>1. ASSUME NEW s \in Streams, Server(s) PROVE Onward(r)
  BY <1>0, <1>1, RunsOnwardServer
<1>2. CASE CancelRun
  <2>1. run' = [run EXCEPT ![stopping.run] = IF @ \in Ended THEN @ ELSE "cancelled"] /\ taskOf' = taskOf
    BY <1>2 DEF CancelRun
  <2> QED BY <1>0, <2>1 DEF ServerInv, RunsTyped, Onward, Begun, Ended
<1>3. ASSUME UNCHANGED <<run, taskOf>> PROVE Onward(r)
  BY <1>3 DEF Onward, Begun
<1>4. CASE \E s \in Streams : \/ SendMessage(s) \/ HandleEvent(s) \/ Done(s) \/ Fails(s)
                              \/ \E b \in Bodies : ClickResume(s, b)
  BY <1>3, <1>4 DEF SendMessage, HandleEvent, Done, Fails, ClickResume, Open
<1>5. CASE \/ StopGeneration \/ \E failed \in BOOLEAN : StopReturns(failed)
           \/ NewConversation \/ \E t \in StreamTasks : LoadTask(t)
           \/ Logout \/ LoggedOut \/ LogoutFails \/ RestoreTask \/ Started
  BY <1>3, <1>5 DEF StopGeneration, StopReturns, NewConversation, LoadTask, Logout, LoggedOut, LogoutFails,
                    RestoreTask, Started, Switch, streamVars
<1>6. CASE \/ \E l \in Views : ReadTask(l) \/ AttachmentsLoaded(l) \/ TaskLoaded(l) \/ LoadFails(l)
           \/ \E u \in Uploads : PickFile(u) \/ UploadEnds(u, TRUE) \/ UploadEnds(u, FALSE)
           \/ ClickClear \/ UNCHANGED vars
  BY <1>3, <1>6 DEF ReadTask, AttachmentsLoaded, TaskLoaded, LoadFails, PickFile, UploadEnds, ClickClear,
                    vars, streamVars
<1> QED BY <1>1, <1>2, <1>4, <1>5, <1>6 DEF Next

-----------------------------------------------------------------------------
(* What is on a wire                                                       *)

EndFrames == {StatusFrame(status) : status \in Ended}

(* Frames that neither end a run nor interrupt it.                         *)
OpenFrames ==
  {Frame(event) : event \in {"task_created", "run_started", "run_resumed", "draft_delta", "draft_discarded"}}
    \cup {StatusFrame("running")}

(* Whatever a handler sends: an error, or what its run is then.            *)
SentBy(s, frame) ==
  \/ frame = Frame("error")
  \/ Begun(RunOf(s))' /\ frame \in OpenFrames
  \/ HandlerAt(s, "closed")' /\ Begun(RunOf(s))' /\ frame = Frame("run_interrupted")
  \/ HandlerAt(s, "finished")' /\ run'[RunOf(s)] \in Ended /\ frame \in EndFrames \cup {Frame("answer")}

LEMMA FramesDiffer ==
  /\ \A event : Frame(event).event = event
  /\ \A status : StatusFrame(status).event = "run_status" /\ StatusFrame(status).status = status
  BY DEF Frame, StatusFrame

LEMMA WireAppended ==
  ASSUME ServerInv, NEW s \in Streams, NEW frames \in Seq(SentFrames), Sends(s, frames),
         \A i \in DOMAIN frames : SentBy(s, frames[i]), NEW i \in DOMAIN wire'[s]
  PROVE  (i \in DOMAIN wire[s] /\ wire'[s][i] = wire[s][i]) \/ SentBy(s, wire'[s][i])
<1>1. wire[s] \in Seq(SentFrames)
  BY DEF ServerInv, WiresTyped
<1>2. CASE Reading(s)
  <2>1. wire'[s] = wire[s] \o frames
    BY <1>2, FramesSent DEF ServerInv
  <2>2. CASE i <= Len(wire[s])
    BY <1>1, <2>1, <2>2
  <2>3. CASE i > Len(wire[s])
    <3>1. i - Len(wire[s]) \in DOMAIN frames /\ wire'[s][i] = frames[i - Len(wire[s])]
      BY <1>1, <2>1, <2>3
    <3> QED BY <3>1
  <2> QED BY <1>1, <2>1, <2>2, <2>3
<1>3. CASE ~Reading(s)
  BY <1>3, FramesSent DEF ServerInv
<1> QED BY <1>2, <1>3

LEMMA WireOfServer ==
  ASSUME ServerInv, NEW s \in Streams, Server(s)
  PROVE  /\ \A i \in DOMAIN wire'[s] :
              (i \in DOMAIN wire[s] /\ wire'[s][i] = wire[s][i]) \/ SentBy(s, wire'[s][i])
         /\ \A q \in Streams : q # s => wire'[q] = wire[q]
         /\ \A q \in Streams : RunOf(q)' = RunOf(q)
<1>0. /\ server \in [Streams -> [at : HandlerStates, request : Requests]]
      /\ run \in [StreamRuns -> RunStatus] /\ wire \in [Streams -> Seq(SentFrames)]
  BY DEF ServerInv, WiresTyped, RunsTyped
<1>1. ~HandlerAt(s, "none") /\ RunOf(s) \in StreamRuns
  <2>1. ~HandlerAt(s, "none")
    BY DEF Server, HandlerStep, Start, StartFails, Resume, ResumeFails, Refuse, Drafts, Finish, Interrupt,
           CancelNoticed, ClientGone, HandlerAt
  <2> QED BY <2>1 DEF ServerInv, RequestsNamed
<1>2. \A q \in Streams : RunOf(q)' = RunOf(q)
  <2>1. server' = server \/ \E to : Handler(s, to)
    BY DEF Server, HandlerStep, Start, StartFails, Resume, ResumeFails, Refuse, Drafts, Finish, Interrupt,
           CancelNoticed, ClientGone
  <2> QED BY <1>0, <2>1, SMTT(30) DEF Handler, RunOf
<1>3. Begun(RunOf(s)) => Begun(RunOf(s))'
  BY <1>1, <1>2, RunsOnwardServer DEF Onward, Begun
<1>4. wire' = wire \/ \E frames \in Seq(SentFrames) :
                        Sends(s, frames) /\ \A i \in DOMAIN frames : SentBy(s, frames[i])
  <2>1. CASE Start(s)
    <3>1. RunOf(s) = s /\ Begun(RunOf(s))'
      BY <1>0, <1>2, <2>1, NumbersTyped DEF Start, IsResume, RunOf, Begun
    <3>2. \A frame \in OpenFrames : SentBy(s, frame)
      BY <3>1 DEF SentBy
    <3> DEFINE opening == (IF server[s].request.task = NoId THEN <<Frame("task_created")>> ELSE <<>>)
                            \o <<Frame("run_started"), StatusFrame("running")>>
    <3>3. opening \in Seq(SentFrames) /\ \A i \in DOMAIN opening : opening[i] \in OpenFrames
      BY FramesAreFrames DEF OpenFrames
    <3>4. Sends(s, opening)
      BY <2>1 DEF Start
    <3> HIDE DEF opening
    <3> QED BY <3>2, <3>3, <3>4
  <2>2. CASE Resume(s)
    <3>1. Begun(RunOf(s))'
      BY <1>2, <1>3, <2>2 DEF Resume, Begun
    <3> DEFINE frames == <<Frame("run_resumed"), StatusFrame("running")>>
    <3>2. frames \in Seq(SentFrames) /\ \A i \in DOMAIN frames : SentBy(s, frames[i])
      BY <3>1, FramesAreFrames DEF SentBy, OpenFrames
    <3> QED BY <2>2, <3>2 DEF Resume
  <2>3. ASSUME NEW event \in {"draft_delta", "draft_discarded"}, Drafts(s, event)
        PROVE  \E frames \in Seq(SentFrames) : Sends(s, frames) /\ \A i \in DOMAIN frames : SentBy(s, frames[i])
    <3>1. Begun(RunOf(s))'
      BY <1>2, <1>3, <2>3 DEF Drafts, Begun
    <3> DEFINE frames == <<Frame(event)>>
    <3>2. frames \in Seq(SentFrames) /\ \A i \in DOMAIN frames : SentBy(s, frames[i])
      BY <3>1, FramesAreFrames DEF SentBy, OpenFrames
    <3> QED BY <2>3, <3>2 DEF Drafts
  <2>4. ASSUME NEW status \in Ended, Finish(s, status)
        PROVE  \E frames \in Seq(SentFrames) : Sends(s, frames) /\ \A i \in DOMAIN frames : SentBy(s, frames[i])
    <3>1. HandlerAt(s, "finished")' /\ run'[RunOf(s)] \in Ended
      BY <1>0, <1>1, <2>4 DEF Finish, Handler, SetRun, HandlerAt, RunOf
    <3> DEFINE frames == <<StatusFrame(status), Frame("answer")>>
    <3>2. frames \in Seq(SentFrames) /\ \A i \in DOMAIN frames : SentBy(s, frames[i])
      BY <1>2, <3>1, FramesAreFrames DEF SentBy, EndFrames
    <3> QED BY <2>4, <3>2 DEF Finish, ResultFrames
  <2>5. ASSUME NEW fails \in BOOLEAN, Interrupt(s, fails)
        PROVE  \E frames \in Seq(SentFrames) : Sends(s, frames) /\ \A i \in DOMAIN frames : SentBy(s, frames[i])
    <3>1. HandlerAt(s, "closed")' /\ Begun(RunOf(s))'
      BY <1>0, <1>2, <1>3, <2>5 DEF Interrupt, Handler, HandlerAt, Begun
    <3> DEFINE frames == <<Frame("run_interrupted")>> \o (IF fails THEN <<Frame("error")>> ELSE <<>>)
    <3>2. frames \in Seq(SentFrames) /\ \A i \in DOMAIN frames : SentBy(s, frames[i])
      BY <3>1, FramesAreFrames DEF SentBy
    <3> QED BY <2>5, <3>2 DEF Interrupt
  <2>6. CASE StartFails(s) \/ ResumeFails(s) \/ \E fails \in BOOLEAN : CancelNoticed(s, fails)
    <3>1. /\ <<Frame("error")>> \in Seq(SentFrames) /\ <<>> \in Seq(SentFrames)
          /\ \A frames \in {<<Frame("error")>>, <<>>} : \A i \in DOMAIN frames : SentBy(s, frames[i])
      BY FramesAreFrames DEF SentBy
    <3> QED BY <2>6, <3>1 DEF StartFails, ResumeFails, CancelNoticed
  <2>7. CASE Refuse(s) \/ ClientGone(s)
    BY <2>7 DEF Refuse, ClientGone
  <2> QED BY <2>1, <2>2, <2>3, <2>4, <2>5, <2>6, <2>7 DEF Server, HandlerStep
<1>5. \A q \in Streams : q # s => wire'[q] = wire[q]
  BY <1>0, <1>4 DEF Sends
<1>6. \A i \in DOMAIN wire'[s] :
        (i \in DOMAIN wire[s] /\ wire'[s][i] = wire[s][i]) \/ SentBy(s, wire'[s][i])
  BY <1>4, WireAppended
<1> QED BY <1>2, <1>5, <1>6

-----------------------------------------------------------------------------
(* The page's own state, step by step                                      *)

LEMMA LabelTyped ==
  ASSUME NEW text \in Labels, NEW r, NEW pending \in BOOLEAN
  PROVE  RunState(text, r, pending) \in [text : Labels, stop : BOOLEAN]
  BY DEF RunState

LEMMA LabelSet ==
  ASSUME NEW text \in Labels, SetRunState(text)
  PROVE  label' \in [text : Labels, stop : BOOLEAN]
  BY LabelTyped DEF SetRunState, StopPending

LEMMA SentFrameEvents ==
  ASSUME NEW frame \in SentFrames
  PROVE  /\ AuthoritativeRunStatus("none", frame) \in RunStatus
         /\ \A status \in RunStatus : AuthoritativeRunStatus(status, frame) \in RunStatus
         /\ EventRunState(frame) \in Labels \cup {"unchanged"}
<1>1. \/ \E event \in {"task_created", "run_started", "run_resumed", "draft_delta", "draft_discarded",
                       "run_interrupted", "answer", "error"} : frame = Frame(event)
      \/ \E status \in {"running"} \cup Ended : frame = StatusFrame(status)
  BY DEF SentFrames
<1>2. CASE \E event \in {"task_created", "run_started", "run_resumed", "draft_delta", "draft_discarded",
                         "run_interrupted", "answer", "error"} : frame = Frame(event)
  <2>1. frame.event \in {"task_created", "run_started", "run_resumed", "draft_delta", "draft_discarded",
                         "run_interrupted", "answer", "error"}
    BY <1>2, FramesDiffer
  <2> QED BY <2>1 DEF AuthoritativeRunStatus, EventRunState, RunStatus, Labels, Busy, Settled
<1>3. CASE \E status \in {"running"} \cup Ended : frame = StatusFrame(status)
  <2>1. frame.event = "run_status" /\ frame.status \in {"running"} \cup Ended
    BY <1>3, FramesDiffer
  <2> QED BY <2>1 DEF AuthoritativeRunStatus, EventRunState, RunStatus, Labels, Busy, Settled
<1> QED BY <1>1, <1>2, <1>3

LEMMA BodyOfEventTyped ==
  ASSUME NamesTyped, NEW b \in Bodies, NEW r \in StreamRuns, NEW frame, NEW status
  PROVE  EventBody(b, r, frame, status) \in
           [shown : BOOLEAN, draft : BOOLEAN, answer : {NoId} \cup StreamRuns, button : {NoId} \cup StreamRuns]
  BY ZenonT(60) DEF NamesTyped, EventBody

(* The frame that is read next, and the run it is of.                      *)
LEMMA NextFrame ==
  ASSUME ServerInv, NEW s \in Streams, Reading(s), wire[s] # <<>>
  PROVE  Head(wire[s]) \in SentFrames /\ RunOf(s) \in StreamRuns
  BY DEF ServerInv, WiresTyped, RequestsNamed, Reading

LEMMA NamesTypedEvent ==
  ASSUME TypedInv, NEW s \in Streams, HandleEvent(s)
  PROVE  NamesTyped'
<1> DEFINE frame == Head(wire[s])
           b == into[s].body
           status == AuthoritativeRunStatus(into[s].told, frame)
           text == EventRunState(frame)
<1>1. frame \in SentFrames /\ RunOf(s) \in StreamRuns
  BY NextFrame DEF HandleEvent, TypedInv
<1>2. NamesTyped /\ taskOf \in [StreamRuns -> {NoId} \cup StreamTasks]
  BY DEF TypedInv, ServerInv, RunsTyped
<1>3. into[s].told \in RunStatus
  BY <1>2 DEF NamesTyped
<1>4. status \in RunStatus /\ text \in Labels \cup {"unchanged"}
  BY <1>1, <1>3, SentFrameEvents
<1>5. /\ into' = [into EXCEPT ![s].told = status]
      /\ task' = IF frame.event = "task_created" THEN taskOf[RunOf(s)] ELSE task
      /\ active' = CASE frame.event \in {"run_started", "run_resumed"} -> RunOf(s)
                     [] text \in Settled -> NoId
                     [] OTHER -> active
      /\ (IF text = "unchanged" THEN UNCHANGED label ELSE SetRunState(text))
      /\ body' = [body EXCEPT ![b] = EventBody(b, RunOf(s), frame, status)]
      /\ UNCHANGED <<abort, stopping>>
  BY DEF HandleEvent
<1>6. label' \in [text : Labels, stop : BOOLEAN]
  <2> HIDE DEF text, frame, status, b
  <2>1. CASE text = "unchanged"
    BY <1>2, <1>5, <2>1 DEF NamesTyped
  <2>2. CASE text # "unchanged"
    BY <1>4, <1>5, <2>2, LabelSet
  <2> QED BY <2>1, <2>2
<1>7. body' \in [Bodies -> [shown : BOOLEAN, draft : BOOLEAN, answer : {NoId} \cup StreamRuns,
                             button : {NoId} \cup StreamRuns]]
  <2>1. CASE b \in Bodies
    BY <1>1, <1>2, <1>5, <2>1, BodyOfEventTyped DEF NamesTyped
  <2>2. CASE b \notin Bodies
    BY <1>2, <1>5, <2>2 DEF NamesTyped
  <2> QED BY <2>1, <2>2
<1>8. into' \in [Streams -> [body : {NoId} \cup Bodies, told : RunStatus]]
  BY <1>2, <1>4, <1>5 DEF NamesTyped
<1>9. /\ task' \in {NoId} \cup StreamTasks
      /\ active' \in {NoId} \cup StreamRuns
      /\ abort' \in {NoId} \cup Streams
      /\ stopping' \in [run : {NoId} \cup StreamRuns, reply : Replies]
  <2> HIDE DEF frame, text, status, b
  <2> QED BY <1>1, <1>2, <1>5 DEF NamesTyped
<1> QED BY <1>6, <1>7, <1>8, <1>9 DEF NamesTyped

LEMMA NamesTypedOpen ==
  ASSUME TypedInv, NEW s \in Streams, SendMessage(s) \/ \E b \in Bodies : ClickResume(s, b)
  PROVE  NamesTyped'
<1>1. PICK c, request : c \in Bodies /\ Open(s, c, request)
  BY RequestsOpen
<1>2. abort' = s /\ into' \in [Streams -> [body : {NoId} \cup Bodies, told : RunStatus]]
  BY <1>1, ZenonT(60) DEF Open, Untold, TypedInv, NamesTyped, RunStatus
<1>3. UNCHANGED <<task, stopping>> /\ SetRunState("agent")
  BY DEF SendMessage, ClickResume
<1>4. label' \in [text : Labels, stop : BOOLEAN]
  BY <1>3, LabelSet DEF Labels, Busy
<1>5. active' \in {NoId} \cup StreamRuns
  BY DEF SendMessage, ClickResume, TypedInv, NamesTyped
<1>6. body' \in [Bodies -> [shown : BOOLEAN, draft : BOOLEAN, answer : {NoId} \cup StreamRuns,
                             button : {NoId} \cup StreamRuns]]
  <2>1. CASE SendMessage(s)
    BY <2>1 DEF SendMessage, TypedInv, NamesTyped, NoBody
  <2>2. ASSUME NEW b \in Bodies, ClickResume(s, b)
        PROVE  body' \in [Bodies -> [shown : BOOLEAN, draft : BOOLEAN, answer : {NoId} \cup StreamRuns,
                                      button : {NoId} \cup StreamRuns]]
    <3>1. body' = [body EXCEPT ![b].button = NoId]
      BY <2>2 DEF ClickResume
    <3> QED BY <3>1 DEF TypedInv, NamesTyped
  <2> QED BY <2>1, <2>2
<1> QED BY <1>2, <1>3, <1>4, <1>5, <1>6 DEF TypedInv, NamesTyped

LEMMA NamesTypedEnd ==
  ASSUME TypedInv, NEW s \in Streams, Done(s) \/ Fails(s)
  PROVE  NamesTyped'
<1>1. UNCHANGED <<task, stopping, into, body>>
  BY DEF Done, Fails
<1>2. abort' \in {NoId} \cup Streams /\ active' \in {NoId} \cup StreamRuns
  BY DEF Done, Fails, TypedInv, NamesTyped
<1>3. label' = label \/ \E text \in Labels : SetRunState(text)
  <2>1. CASE Done(s)
    BY <2>1 DEF Done, Labels, Settled, Ended
  <2>2. CASE Fails(s)
    <3>1. IF into[s].told \in Settled THEN into[s].told \in Labels ELSE "failed" \in Labels
      BY DEF Labels, Settled, Ended
    <3>2. "idle" \in Labels
      BY DEF Labels
    <3> QED BY <2>2, <3>1, <3>2 DEF Fails
  <2> QED BY <2>1, <2>2
<1>4. label' \in [text : Labels, stop : BOOLEAN]
  BY <1>3, LabelSet DEF TypedInv, NamesTyped
<1> QED BY <1>1, <1>2, <1>4 DEF TypedInv, NamesTyped

LEMMA NamesTypedStop ==
  ASSUME TypedInv, StopGeneration \/ CancelRun \/ \E failed \in BOOLEAN : StopReturns(failed)
  PROVE  NamesTyped'
<1>0. NamesTyped
  BY DEF TypedInv
<1>1. CASE StopGeneration
  <2>1. label' \in [text : Labels, stop : BOOLEAN]
    BY <1>1, LabelTyped DEF StopGeneration, Labels, Busy
  <2>2. stopping' \in [run : {NoId} \cup StreamRuns, reply : Replies]
    BY <1>0, <1>1 DEF StopGeneration, NamesTyped, Replies
  <2> QED BY <1>0, <1>1, <2>1, <2>2 DEF StopGeneration, NamesTyped
<1>2. CASE CancelRun
  <2>1. stopping.run \in StreamRuns /\ run \in [StreamRuns -> RunStatus]
    BY <1>0, <1>2 DEF CancelRun, StopPending, NamesTyped, TypedInv, ServerInv, RunsTyped
  <2>2. run'[stopping.run] \in Replies
    BY <1>2, <2>1 DEF CancelRun, Replies
  <2>3. stopping' \in [run : {NoId} \cup StreamRuns, reply : Replies]
    BY <1>0, <1>2, <2>2 DEF CancelRun, NamesTyped
  <2> QED BY <1>0, <1>2, <2>3 DEF CancelRun, NamesTyped
<1>3. ASSUME NEW failed \in BOOLEAN, StopReturns(failed) PROVE NamesTyped'
  <2> DEFINE text == IF failed THEN "failed" ELSE stopping.reply
  <2>1. text \in Labels
    BY <1>0, <1>3 DEF StopReturns, NamesTyped, Replies, Labels, Settled, Ended
  <2>2. label' = label \/ label' = RunState("cancel_requested", active', FALSE)
          \/ label' = RunState(text, NoId, FALSE)
    BY <1>3 DEF StopReturns
  <2>3. label' \in [text : Labels, stop : BOOLEAN]
    <3>1. "cancel_requested" \in Labels
      BY DEF Labels, Busy
    <3>2. label \in [text : Labels, stop : BOOLEAN]
      BY <1>0 DEF NamesTyped
    <3> HIDE DEF text
    <3>3. /\ RunState("cancel_requested", active', FALSE) \in [text : Labels, stop : BOOLEAN]
          /\ RunState(text, NoId, FALSE) \in [text : Labels, stop : BOOLEAN]
      BY <2>1, <3>1, LabelTyped
    <3> QED BY <2>2, <3>2, <3>3
  <2>4. active' \in {NoId} \cup StreamRuns /\ stopping' \in [run : {NoId} \cup StreamRuns, reply : Replies]
    BY <1>0, <1>3 DEF StopReturns, NotStopping, NamesTyped, Replies
  <2> QED BY <1>0, <1>3, <2>3, <2>4 DEF StopReturns, NamesTyped
<1> QED BY <1>1, <1>2, <1>3

LEMMA NamesTypedSwitch ==
  ASSUME TypedInv, NEW t \in {NoId} \cup StreamTasks, Switch(t)
  PROVE  NamesTyped'
<1>1. label' \in [text : Labels, stop : BOOLEAN]
  <2>1. "idle" \in Labels /\ SetRunState("idle")
    BY DEF Switch, Labels
  <2> QED BY <2>1, LabelSet
<1>2. body' \in [Bodies -> [shown : BOOLEAN, draft : BOOLEAN, answer : {NoId} \cup StreamRuns,
                             button : {NoId} \cup StreamRuns]]
  BY ZenonT(60) DEF Switch, TypedInv, NamesTyped
<1>3. into' \in [Streams -> [body : {NoId} \cup Bodies, told : RunStatus]]
  BY ZenonT(60) DEF Switch, Untold, TypedInv, NamesTyped, RunStatus
<1> QED BY <1>1, <1>2, <1>3 DEF Switch, TypedInv, NamesTyped

LEMMA LoadedBodies ==
  ASSUME NEW l \in Views
  PROVE  LoadedBody(l) \in Bodies /\ LoadedBody(l) \notin Streams
  BY ChatStreamAssumption, ChatPageAssumption DEF Views, LoadedBody, Bodies, Streams

LEMMA NamesTypedLoaded ==
  ASSUME TypedInv, NEW l \in Views, TaskLoaded(l)
  PROVE  NamesTyped'
<1>0. /\ load[l].status \in RunStatus \ {"none"} /\ load[l].latest \in StreamRuns
      /\ NamesTyped
  BY DEF TypedInv, LoadsStored, ClicksTyped, TaskLoaded
<1>1. label' \in [text : Labels, stop : BOOLEAN]
  <2> DEFINE text == IF load[l].status = "running" THEN "agent" ELSE load[l].status
  <2>1. text \in Labels
    BY <1>0 DEF Labels, Settled, Busy, RunStatus
  <2>2. label' = RunState(text, active, StopPending)
    BY DEF TaskLoaded
  <2> HIDE DEF text
  <2> QED BY <2>1, <2>2, LabelTyped DEF StopPending
<1>2. active' \in {NoId} \cup StreamRuns
  BY <1>0 DEF TaskLoaded, NamesTyped
<1>3. body' \in [Bodies -> [shown : BOOLEAN, draft : BOOLEAN, answer : {NoId} \cup StreamRuns,
                             button : {NoId} \cup StreamRuns]]
  BY <1>0 DEF TaskLoaded, NamesTyped, NoBody
<1> QED BY <1>0, <1>1, <1>2, <1>3 DEF TaskLoaded, NamesTyped

LEMMA NamesTypedNext ==
  ASSUME TypedInv, [Next]_vars
  PROVE  NamesTyped'
<1>1. CASE \E s \in Streams : SendMessage(s) \/ \E b \in Bodies : ClickResume(s, b)
  BY <1>1, NamesTypedOpen
<1>2. CASE \E s \in Streams : HandleEvent(s) \/ Done(s) \/ Fails(s)
  BY <1>2, NamesTypedEvent, NamesTypedEnd
<1>3. CASE StopGeneration \/ CancelRun \/ \E failed \in BOOLEAN : StopReturns(failed)
  BY <1>3, NamesTypedStop
<1>4. CASE NewConversation \/ LoggedOut \/ RestoreTask \/ \E t \in StreamTasks : LoadTask(t)
  <2>1. visit.url \in {NoId} \cup StreamTasks
    BY DEF TypedInv, ClicksTyped
  <2> QED BY <1>4, <2>1, NamesTypedSwitch DEF NewConversation, LoadTask, LoggedOut, RestoreTask
<1>5. CASE \E l \in Views : TaskLoaded(l)
  BY <1>5, NamesTypedLoaded
<1>6. ASSUME UNCHANGED pageVars PROVE NamesTyped'
  BY <1>6 DEF pageVars, TypedInv, NamesTyped
<1>7. CASE \/ \E s \in Streams : Server(s)
           \/ \E l \in Views : ReadTask(l) \/ AttachmentsLoaded(l) \/ LoadFails(l)
           \/ \E u \in Uploads : PickFile(u) \/ UploadEnds(u, TRUE) \/ UploadEnds(u, FALSE)
           \/ ClickClear \/ Logout \/ LogoutFails \/ Started \/ UNCHANGED vars
  BY <1>6, <1>7 DEF Server, ReadTask, AttachmentsLoaded, LoadFails, PickFile, UploadEnds, ClickClear, Logout,
                    LogoutFails, Started, vars
<1> QED BY <1>1, <1>2, <1>3, <1>4, <1>5, <1>7 DEF Next

-----------------------------------------------------------------------------
(* Conversations that are loaded, files and views                          *)

LEMMA TaskRead ==
  ASSUME TypedInv, NEW l \in Views, ReadTask(l)
  PROVE  LET latest == newest[load[l].task]
         IN  /\ latest \in StreamRuns /\ Begun(latest) /\ attached[load[l].task] \subseteq Uploads
             /\ load' = [load EXCEPT ![l].at = "read", ![l].latest = latest,
                                     ![l].status = run[latest], ![l].files = attached[load[l].task]]
<1>1. load[l].task \in Stored
  BY DEF ReadTask, TypedInv, LoadsStored
<1>2. load[l].task \in StreamTasks /\ newest[load[l].task] # NoId
  BY <1>1 DEF Stored, TypedInv, ServerInv, RunsTyped
<1>3. newest[load[l].task] \in StreamRuns /\ Begun(newest[load[l].task])
  BY <1>2 DEF TypedInv, ServerInv, RunsTyped, Begun
<1>4. attached[load[l].task] \subseteq Uploads
  BY <1>2 DEF TypedInv, ServerInv, RunsTyped
<1>5. load' = [load EXCEPT ![l].at = "read", ![l].latest = newest[load[l].task],
                           ![l].status = run[newest[load[l].task]], ![l].files = attached[load[l].task]]
  BY DEF ReadTask
<1> QED BY <1>3, <1>4, <1>5

(* A click that leaves a conversation.                                     *)
LEMMA ClicksTypedAway ==
  ASSUME TypedInv, ClickAway
  PROVE  /\ composer' \in [files : SUBSET Uploads, dirty : BOOLEAN, uploading : BOOLEAN, generation : Nat]
         /\ view' \in Views /\ view' = view + 1
<1>1. view' \in Views
  BY ChatPageAssumption DEF ClickAway, TypedInv, ClicksTyped, Views
<1>2. composer' \in [files : SUBSET Uploads, dirty : BOOLEAN, uploading : BOOLEAN, generation : Nat]
  BY DEF ClickAway, ClearAttachment, TypedInv, ClicksTyped
<1> QED BY <1>1, <1>2 DEF ClickAway

LEMMA ShownTyped ==
  ASSUME TypedInv, NEW files \in SUBSET Uploads, ShowFiles(files)
  PROVE  composer' \in [files : SUBSET Uploads, dirty : BOOLEAN, uploading : BOOLEAN, generation : Nat]
<1>1. ASSUME NEW old \in [files : SUBSET Uploads, dirty : BOOLEAN, uploading : BOOLEAN, generation : Nat]
      PROVE  [old EXCEPT !.files = files, !.dirty = FALSE]
               \in [files : SUBSET Uploads, dirty : BOOLEAN, uploading : BOOLEAN, generation : Nat]
  OBVIOUS
<1> QED BY <1>1 DEF ShowFiles, TypedInv, ClicksTyped

LEMMA AskedTyped ==
  ASSUME TypedInv, NEW l \in Views, NEW t \in {NoId} \cup StreamTasks, Asked(l, t)
  PROVE  load' \in [Views -> [at : {"none", "asked", "read", "rating", "over"}, task : {NoId} \cup StreamTasks,
                             latest : {NoId} \cup StreamRuns, status : RunStatus, files : SUBSET Uploads]]
<1>1. [NoLoad EXCEPT !.at = "asked", !.task = t]
        \in [at : {"none", "asked", "read", "rating", "over"}, task : {NoId} \cup StreamTasks,
            latest : {NoId} \cup StreamRuns, status : RunStatus, files : SUBSET Uploads]
  BY DEF NoLoad, RunStatus
<1> QED BY <1>1 DEF Asked, TypedInv, ClicksTyped

LEMMA ClicksTypedFiles ==
  ASSUME TypedInv, ClickClear \/ \E u \in Uploads : PickFile(u) \/ UploadEnds(u, TRUE) \/ UploadEnds(u, FALSE)
  PROVE  ClicksTyped'
<1>0. ClicksTyped /\ NoId = 0
  BY DEF TypedInv, NoId
<1>1. CASE ClickClear
  BY <1>0, <1>1 DEF ClickClear, ClearAttachment, ClicksTyped
<1>2. ASSUME NEW u \in Uploads, PickFile(u) PROVE ClicksTyped'
  <2>1. composer'.generation \in Nat
        /\ composer' \in [files : SUBSET Uploads, dirty : BOOLEAN, uploading : BOOLEAN, generation : Nat]
    <3>1. composer.generation + 1 \in Nat
      BY <1>0 DEF ClicksTyped
    <3>2. composer' = [files |-> composer.files, dirty |-> composer.dirty, uploading |-> TRUE,
                       generation |-> composer.generation + 1]
      BY <1>0, <1>2 DEF PickFile, ClicksTyped
    <3> QED BY <1>0, <3>1, <3>2 DEF ClicksTyped
  <2>2. upload' = [upload EXCEPT ![u] = [at |-> "polling", generation |-> composer'.generation, view |-> view]]
        /\ UNCHANGED <<load, view, visit>>
    BY <1>2 DEF PickFile
  <2> QED BY <1>0, <2>1, <2>2 DEF ClicksTyped
<1>3. ASSUME NEW u \in Uploads, NEW ready \in BOOLEAN, UploadEnds(u, ready) PROVE ClicksTyped'
  <2>1. upload' = [upload EXCEPT ![u].at = "over", ![u].generation = 0] /\ UNCHANGED <<load, view, visit>>
    BY <1>3 DEF UploadEnds
  <2>2. composer' \in [files : SUBSET Uploads, dirty : BOOLEAN, uploading : BOOLEAN, generation : Nat]
    BY <1>0, <1>3, ZenonT(60) DEF UploadEnds, ClicksTyped
  <2>3. ASSUME NEW old \in [Uploads -> [at : {"none", "polling", "over"}, generation : Nat, view : {NoId} \cup Views]]
        PROVE  [old EXCEPT ![u].at = "over", ![u].generation = 0]
                 \in [Uploads -> [at : {"none", "polling", "over"}, generation : Nat, view : {NoId} \cup Views]]
    OBVIOUS
  <2> QED BY <1>0, <2>1, <2>2, <2>3 DEF ClicksTyped
<1> QED BY <1>1, <1>2, <1>3

LEMMA ClicksTypedNext ==
  ASSUME TypedInv, [Next]_vars
  PROVE  ClicksTyped'
<1>0. ClicksTyped
  BY DEF TypedInv
<1>1. CASE \E s \in Streams : SendMessage(s)
  BY <1>0, <1>1 DEF SendMessage, ClicksTyped
<1>2. ASSUME UNCHANGED <<load, composer, upload, view>>,
             visit' \in [url : {NoId} \cup StreamTasks, starting : BOOLEAN, leaving : Nat]
      PROVE  ClicksTyped'
  BY <1>0, <1>2 DEF ClicksTyped
<1>3. CASE \/ \E s \in Streams : \/ Server(s) \/ Done(s) \/ Fails(s)
                                 \/ \E b \in Bodies : ClickResume(s, b)
           \/ StopGeneration \/ CancelRun \/ \E failed \in BOOLEAN : StopReturns(failed)
           \/ UNCHANGED vars
  <2>1. UNCHANGED <<load, composer, upload, view, visit>>
    BY <1>3 DEF Server, Done, Fails, ClickResume, StopGeneration, CancelRun, StopReturns, vars
  <2> QED BY <1>0, <1>2, <2>1 DEF ClicksTyped
<1>4. CASE LogoutFails \/ Started
  <2>1. UNCHANGED <<load, composer, upload, view>>
    BY <1>4 DEF LogoutFails, Started
  <2>2. CASE LogoutFails
    BY <1>0, <1>2, <2>1, <2>2 DEF LogoutFails, ClicksTyped
  <2>3. CASE Started
    BY <1>0, <1>2, <2>1, <2>3 DEF Started, ClicksTyped
  <2> QED BY <1>4, <2>2, <2>3
<1>10. ASSUME NEW s \in Streams, HandleEvent(s) PROVE ClicksTyped'
  <2>1. RunOf(s) \in StreamRuns
    BY <1>10, NextFrame DEF HandleEvent, TypedInv
  <2>2. taskOf[RunOf(s)] \in {NoId} \cup StreamTasks
    BY <2>1 DEF TypedInv, ServerInv, RunsTyped
  <2>3. visit' = visit \/ visit' = [visit EXCEPT !.url = taskOf[RunOf(s)]]
    BY <1>10 DEF HandleEvent
  <2>4. visit' \in [url : {NoId} \cup StreamTasks, starting : BOOLEAN, leaving : Nat]
    BY <1>0, <2>2, <2>3 DEF ClicksTyped
  <2> QED BY <1>2, <1>10, <2>4 DEF HandleEvent
<1>11. CASE NewConversation \/ Logout
  <2>1. ClickAway /\ UNCHANGED <<load, upload>>
    BY <1>11 DEF NewConversation, Logout, Switch
  <2>2. visit' \in [url : {NoId} \cup StreamTasks, starting : BOOLEAN, leaving : Nat]
    <3>1. visit' = [visit EXCEPT !.url = NoId] \/ visit' = [visit EXCEPT !.url = NoId, !.leaving = @ + 1]
      BY <1>11 DEF NewConversation, Logout
    <3>2. visit \in [url : {NoId} \cup StreamTasks, starting : BOOLEAN, leaving : Nat]
      BY <1>0 DEF ClicksTyped
    <3>3. visit.leaving + 1 \in Nat
      BY <3>2
    <3> QED BY <3>1, <3>2, <3>3
  <2> QED BY <1>0, <2>1, <2>2, ClicksTypedAway DEF ClicksTyped
<1>12. CASE LoggedOut
  <2>1. ShowFiles({}) /\ UNCHANGED <<load, upload, view>>
    BY <1>12 DEF LoggedOut, Switch
  <2>2. visit' \in [url : {NoId} \cup StreamTasks, starting : BOOLEAN, leaving : Nat]
    BY <1>0, <1>12 DEF LoggedOut, ClicksTyped
  <2> QED BY <1>0, <2>1, <2>2, ShownTyped DEF ClicksTyped
<1>13. CASE RestoreTask
  <2>1. Asked(AtStart, visit.url) /\ UNCHANGED <<composer, upload, view>>
    BY <1>13 DEF RestoreTask, Switch
  <2>2. AtStart \in Views /\ visit.url \in {NoId} \cup StreamTasks
    BY <1>0, ChatPageAssumption DEF AtStart, Views, ClicksTyped
  <2>3. visit' \in [url : {NoId} \cup StreamTasks, starting : BOOLEAN, leaving : Nat]
    BY <1>0, <1>13 DEF RestoreTask, ClicksTyped
  <2> QED BY <1>0, <2>1, <2>2, <2>3, AskedTyped DEF ClicksTyped
<1>5. ASSUME NEW t \in StreamTasks, LoadTask(t) PROVE ClicksTyped'
  <2>1. ClickAway /\ Asked(view', t) /\ upload' = upload /\ visit' = [visit EXCEPT !.url = t]
    BY <1>5 DEF LoadTask, Switch
  <2>2. visit' \in [url : {NoId} \cup StreamTasks, starting : BOOLEAN, leaving : Nat]
    BY <1>0, <2>1 DEF ClicksTyped
  <2> QED BY <1>0, <2>1, <2>2, ClicksTypedAway, AskedTyped DEF ClicksTyped
<1>6. ASSUME NEW l \in Views, ReadTask(l) PROVE ClicksTyped'
  <2>1. PICK latest \in StreamRuns, files \in SUBSET Uploads :
          load' = [load EXCEPT ![l].at = "read", ![l].latest = latest, ![l].status = run[latest],
                               ![l].files = files]
    BY <1>6, TaskRead
  <2>2. run[latest] \in RunStatus
    BY DEF TypedInv, ServerInv, RunsTyped
  <2>3. UNCHANGED <<composer, upload, view, visit>>
    BY <1>6 DEF ReadTask
  <2>4. load' \in [Views -> [at : {"none", "asked", "read", "rating", "over"}, task : {NoId} \cup StreamTasks,
                             latest : {NoId} \cup StreamRuns, status : RunStatus, files : SUBSET Uploads]]
    <3> DEFINE Typed == [Views -> [at : {"none", "asked", "read", "rating", "over"}, task : {NoId} \cup StreamTasks,
                             latest : {NoId} \cup StreamRuns, status : RunStatus, files : SUBSET Uploads]]
    <3>1. ASSUME NEW old \in Typed
          PROVE  [old EXCEPT ![l].at = "read", ![l].latest = latest] \in Typed
      OBVIOUS
    <3>2. ASSUME NEW read \in Typed
          PROVE  [read EXCEPT ![l].status = run[latest], ![l].files = files] \in Typed
      BY <2>2
    <3>3. load \in Typed
      BY <1>0 DEF ClicksTyped
    <3> QED BY <2>1, <3>1, <3>2, <3>3
  <2> QED BY <1>0, <2>3, <2>4 DEF ClicksTyped
<1>7. ASSUME NEW l \in Views, AttachmentsLoaded(l) PROVE ClicksTyped'
  <2>1. /\ load' = [load EXCEPT ![l].at = "rating", ![l].files = {}] /\ UNCHANGED <<upload, view, visit>>
        /\ ShowFiles(load[l].files)
    BY <1>7 DEF AttachmentsLoaded
  <2>2. load[l].files \in SUBSET Uploads
    BY <1>0 DEF ClicksTyped
  <2>3. load' \in [Views -> [at : {"none", "asked", "read", "rating", "over"}, task : {NoId} \cup StreamTasks,
                             latest : {NoId} \cup StreamRuns, status : RunStatus, files : SUBSET Uploads]]
    <3>1. ASSUME NEW old \in [Views -> [at : {"none", "asked", "read", "rating", "over"},
                                       task : {NoId} \cup StreamTasks, latest : {NoId} \cup StreamRuns,
                                       status : RunStatus, files : SUBSET Uploads]]
          PROVE  [old EXCEPT ![l].at = "rating", ![l].files = {}]
                   \in [Views -> [at : {"none", "asked", "read", "rating", "over"},
                                 task : {NoId} \cup StreamTasks, latest : {NoId} \cup StreamRuns,
                                 status : RunStatus, files : SUBSET Uploads]]
      OBVIOUS
    <3> QED BY <1>0, <2>1, <3>1 DEF ClicksTyped
  <2> QED BY <1>0, <2>1, <2>2, <2>3, ShownTyped DEF ClicksTyped
<1>8. ASSUME NEW l \in Views, TaskLoaded(l) \/ LoadFails(l) PROVE ClicksTyped'
  <2>1. load' = [load EXCEPT ![l] = LoadOver] /\ UNCHANGED <<composer, upload, view, visit>>
    BY <1>8 DEF TaskLoaded, LoadFails
  <2>2. LoadOver \in [at : {"none", "asked", "read", "rating", "over"}, task : {NoId} \cup StreamTasks,
                      latest : {NoId} \cup StreamRuns, status : RunStatus, files : SUBSET Uploads]
    BY DEF LoadOver, NoLoad, RunStatus
  <2> QED BY <1>0, <2>1, <2>2 DEF ClicksTyped
<1>9. CASE ClickClear \/ \E u \in Uploads : PickFile(u) \/ UploadEnds(u, TRUE) \/ UploadEnds(u, FALSE)
  BY <1>9, ClicksTypedFiles
<1> QED
  BY <1>1, <1>3, <1>4, <1>5, <1>6, <1>7, <1>8, <1>9, <1>10, <1>11, <1>12, <1>13 DEF Next

(* A task that is stored stays so, and the runs that are known have begun. *)
LEMMA StoredGrows ==
  ASSUME TypedInv, [Next]_vars, NEW t \in Stored
  PROVE  t \in Stored'
<1>1. PICK r \in StreamRuns : taskOf[r] = t /\ t # NoId
  BY DEF Stored
<1>2. taskOf'[r] = t
  BY <1>1, RunsOnward DEF Onward
<1> QED BY <1>1, <1>2 DEF Stored

LEMMA LoadsStoredNext ==
  ASSUME TypedInv, [Next]_vars
  PROVE  LoadsStored'
<1>0. /\ load \in [Views -> [at : {"none", "asked", "read", "rating", "over"}, task : {NoId} \cup StreamTasks,
                             latest : {NoId} \cup StreamRuns, status : RunStatus, files : SUBSET Uploads]]
      /\ visit \in [url : {NoId} \cup StreamTasks, starting : BOOLEAN, leaving : Nat]
      /\ LoadsStored
  BY DEF TypedInv, ClicksTyped
<1>1. \A r \in StreamRuns : Begun(r) => Begun(r)'
  BY RunsOnward DEF Onward
<1>2. \A t \in Stored : t \in Stored'
  BY StoredGrows
<1>3. ASSUME UNCHANGED load, visit'.url = visit.url \/ visit'.url = NoId \/ visit'.url \in Stored
      PROVE  LoadsStored'
  BY <1>0, <1>1, <1>2, <1>3 DEF LoadsStored
<1>4. CASE \/ \E s \in Streams : \/ Server(s) \/ SendMessage(s) \/ Done(s) \/ Fails(s)
                                 \/ \E b \in Bodies : ClickResume(s, b)
           \/ StopGeneration \/ CancelRun \/ \E failed \in BOOLEAN : StopReturns(failed)
           \/ \E u \in Uploads : PickFile(u) \/ UploadEnds(u, TRUE) \/ UploadEnds(u, FALSE)
           \/ ClickClear \/ UNCHANGED vars
  BY <1>3, <1>4 DEF Server, SendMessage, Done, Fails, ClickResume, StopGeneration, CancelRun,
                    StopReturns, PickFile, UploadEnds, ClickClear, vars
<1>9. CASE NewConversation \/ Logout \/ LoggedOut \/ LogoutFails \/ Started
  <2>1. load' = load
    BY <1>9 DEF NewConversation, Logout, LoggedOut, LogoutFails, Started
  <2>2. visit'.url \in {NoId, visit.url}
    BY <1>0, <1>9 DEF NewConversation, Logout, LoggedOut, LogoutFails, Started
  <2> QED BY <1>3, <2>1, <2>2
<1>10. ASSUME NEW s \in Streams, HandleEvent(s) PROVE LoadsStored'
  <2>1. RunOf(s) \in StreamRuns
    BY <1>10, NextFrame DEF HandleEvent, TypedInv
  <2>2. taskOf[RunOf(s)] \in {NoId} \cup Stored
    BY <2>1 DEF Stored
  <2>3. visit' = visit \/ visit' = [visit EXCEPT !.url = taskOf[RunOf(s)]]
    BY <1>10 DEF HandleEvent
  <2>4. load' = load
    BY <1>10 DEF HandleEvent
  <2> QED BY <1>0, <1>3, <2>2, <2>3, <2>4
<1>11. ASSUME NEW l \in Views, NEW t \in Stored, Asked(l, t), visit'.url \in {visit.url, t}
       PROVE  LoadsStored'
  <2>1. PICK asked : asked = [NoLoad EXCEPT !.at = "asked", !.task = t]
    OBVIOUS
  <2>2. asked.at = "asked" /\ asked.task = t /\ load' = [load EXCEPT ![l] = asked]
    BY <1>11, <2>1 DEF Asked, NoLoad
  <2> QED BY <1>0, <1>1, <1>2, <1>11, <2>2 DEF LoadsStored
<1>5. ASSUME NEW t \in StreamTasks, LoadTask(t) PROVE LoadsStored'
  <2>1. t \in Stored /\ Asked(view', t) /\ visit'.url = t
    BY <1>0, <1>5 DEF LoadTask
  <2>2. view' \in Views
    BY <1>5, ClicksTypedAway DEF LoadTask
  <2> QED BY <1>11, <2>1, <2>2
<1>12. CASE RestoreTask
  <2>1. visit.url \in Stored /\ Asked(AtStart, visit.url) /\ visit'.url = visit.url
    BY <1>0, <1>12 DEF RestoreTask, LoadsStored
  <2>2. AtStart \in Views
    BY ChatPageAssumption DEF AtStart, Views
  <2> QED BY <1>11, <2>1, <2>2
<1>6. ASSUME NEW l \in Views, ReadTask(l) PROVE LoadsStored'
  <2>1. PICK latest \in StreamRuns, files \in SUBSET Uploads :
          /\ Begun(latest)
          /\ load' = [load EXCEPT ![l].at = "read", ![l].latest = latest, ![l].status = run[latest],
                                  ![l].files = files]
    BY <1>6, TaskRead
  <2>2. Begun(latest)' /\ run[latest] # "none"
    BY <1>1, <2>1 DEF Begun
  <2>3. /\ load'[l].status # "none" /\ load'[l].latest = latest /\ load'[l].at = "read"
        /\ \A v \in Views : v # l => load'[v] = load[v]
        /\ visit' = visit
    BY <1>0, <1>6, <2>1, <2>2 DEF ReadTask
  <2> QED BY <1>0, <1>1, <1>2, <2>2, <2>3 DEF LoadsStored
<1>7. ASSUME NEW l \in Views, AttachmentsLoaded(l) PROVE LoadsStored'
  <2>1. load' = [load EXCEPT ![l].at = "rating", ![l].files = {}] /\ load[l].at = "read" /\ visit' = visit
    BY <1>7 DEF AttachmentsLoaded
  <2> QED BY <1>0, <1>1, <1>2, <2>1 DEF LoadsStored
<1>8. ASSUME NEW l \in Views, TaskLoaded(l) \/ LoadFails(l) PROVE LoadsStored'
  <2>1. load' = [load EXCEPT ![l] = LoadOver] /\ visit' = visit /\ LoadOver.at = "over"
    BY <1>8 DEF TaskLoaded, LoadFails, LoadOver, NoLoad
  <2> QED BY <1>0, <1>1, <1>2, <2>1 DEF LoadsStored
<1> QED BY <1>4, <1>5, <1>6, <1>7, <1>8, <1>9, <1>10, <1>12 DEF Next

-----------------------------------------------------------------------------
(* Only runs that have begun are known                                     *)

WiresBegun == \A s \in Streams : \A i \in DOMAIN wire[s] : wire[s][i] # Frame("error") => Begun(RunOf(s))
PageBegun ==
  /\ active # NoId => Begun(active)
  /\ stopping.run # NoId => Begun(stopping.run)
  /\ \A b \in Bodies : body[b].button # NoId => Begun(body[b].button)

LEMMA BegunParts == OnlyBegun <=> WiresBegun /\ PageBegun
  BY DEF OnlyBegun, WiresBegun, PageBegun

LEMMA RunsStayBegun ==
  ASSUME TypedInv, [Next]_vars
  PROVE  \A r \in StreamRuns : Begun(r) => Begun(r)'
  BY RunsOnward DEF Onward

(* The run of a request whose frames are read or kept.                     *)
LEMMA WiresNamed ==
  ASSUME ServerInv, NEW s \in Streams, wire[s] # <<>>
  PROVE  RunOf(s) \in StreamRuns
  BY DEF ServerInv, RequestsNamed, Reading

LEMMA WiresBegunServer ==
  ASSUME TypedInv, NEW s \in Streams, Server(s)
  PROVE  WiresBegun'
<1>0. ServerInv /\ WiresBegun /\ [Next]_vars /\ wire \in [Streams -> Seq(SentFrames)]
  BY BegunParts DEF TypedInv, Next, ServerInv, WiresTyped
<1>1. /\ \A i \in DOMAIN wire'[s] :
            (i \in DOMAIN wire[s] /\ wire'[s][i] = wire[s][i]) \/ SentBy(s, wire'[s][i])
      /\ \A q \in Streams : q # s => wire'[q] = wire[q]
      /\ \A q \in Streams : RunOf(q)' = RunOf(q)
  BY <1>0, WireOfServer
<1>2. \A q \in Streams : wire[q] # <<>> /\ Begun(RunOf(q)) => Begun(RunOf(q))'
  <2>1. ASSUME NEW q \in Streams, wire[q] # <<>>, Begun(RunOf(q)) PROVE run'[RunOf(q)] # "none"
    <3>1. RunOf(q) \in StreamRuns
      BY <1>0, <2>1, WiresNamed
    <3> QED BY <1>0, <2>1, <3>1, RunsOnwardServer DEF Onward, Begun
  <2> QED BY <1>1, <2>1 DEF Begun
<1>3. ASSUME NEW q \in Streams, NEW i \in DOMAIN wire[q], wire[q][i] # Frame("error")
      PROVE  Begun(RunOf(q))'
  <2>1. Begun(RunOf(q)) /\ wire[q] # <<>>
    BY <1>0, <1>3 DEF WiresBegun
  <2> QED BY <1>2, <2>1
<1>4. ASSUME NEW i \in DOMAIN wire'[s], wire'[s][i] # Frame("error")
      PROVE  Begun(RunOf(s))'
  <2>1. CASE i \in DOMAIN wire[s] /\ wire'[s][i] = wire[s][i]
    BY <1>3, <1>4, <2>1
  <2>2. CASE SentBy(s, wire'[s][i])
    BY <1>1, <1>4, <2>2 DEF SentBy, Begun, Ended
  <2> QED BY <1>1, <2>1, <2>2
<1> QED BY <1>1, <1>3, <1>4 DEF WiresBegun

LEMMA WiresBegunNext ==
  ASSUME TypedInv, [Next]_vars
  PROVE  WiresBegun'
<1>0. ServerInv /\ WiresBegun /\ wire \in [Streams -> Seq(SentFrames)]
  BY BegunParts DEF TypedInv, ServerInv, WiresTyped
<1>1. \A r \in StreamRuns : Begun(r) => Begun(r)'
  BY RunsStayBegun
<1>2. ASSUME \A q \in Streams : wire'[q] = <<>> PROVE WiresBegun'
  BY <1>2 DEF WiresBegun
<1>3. ASSUME server' = server,
             \A q \in Streams : \A i \in DOMAIN wire'[q] : \E j \in DOMAIN wire[q] : wire'[q][i] = wire[q][j]
      PROVE  WiresBegun'
  <2>1. ASSUME NEW q \in Streams, NEW i \in DOMAIN wire'[q], wire'[q][i] # Frame("error")
        PROVE  Begun(RunOf(q))'
    <3>1. wire[q] # <<>> /\ Begun(RunOf(q))
      BY <1>0, <1>3, <2>1 DEF WiresBegun
    <3>2. RunOf(q) \in StreamRuns /\ RunOf(q)' = RunOf(q)
      BY <1>0, <1>3, <3>1, WiresNamed DEF RunOf
    <3> QED BY <1>1, <3>1, <3>2 DEF Begun
  <2> QED BY <2>1 DEF WiresBegun
<1>4. CASE \E s \in Streams : Server(s)
  BY <1>4, WiresBegunServer
<1>5. ASSUME NEW s \in Streams, SendMessage(s) \/ \E b \in Bodies : ClickResume(s, b) PROVE WiresBegun'
  <2>1. wire' = [q \in Streams |-> IF q = abort THEN <<>> ELSE wire[q]]
    BY <1>5 DEF SendMessage, ClickResume, Open
  <2> QED BY <1>2, <2>1, AbortedTyped
<1>6. ASSUME NEW t, Switch(t) PROVE WiresBegun'
  <2>1. wire' = [q \in Streams |-> IF q = abort THEN <<>> ELSE wire[q]]
    BY <1>6 DEF Switch
  <2> QED BY <1>2, <2>1, AbortedTyped
<1>7. ASSUME NEW s \in Streams, HandleEvent(s) PROVE WiresBegun'
  <2>1. wire[s] # <<>> /\ wire' = [wire EXCEPT ![s] = Tail(@)] /\ server' = server
    BY <1>7 DEF HandleEvent
  <2>2. \A i \in DOMAIN Tail(wire[s]) : i + 1 \in DOMAIN wire[s] /\ Tail(wire[s])[i] = wire[s][i + 1]
    BY <1>0, <2>1
  <2>3. \A q \in Streams : wire'[q] = IF q = s THEN Tail(wire[q]) ELSE wire[q]
    BY <1>0, <2>1
  <2> QED BY <1>3, <2>1, <2>2, <2>3
<1>8. ASSUME NEW s \in Streams, Done(s) \/ Fails(s) PROVE WiresBegun'
  <2>1. server' = server /\ (wire' = wire \/ wire' = [wire EXCEPT ![s] = <<>>])
    BY <1>8 DEF Done, Fails
  <2>2. \A q \in Streams : wire'[q] = wire[q] \/ wire'[q] = <<>>
    BY <1>0, <2>1
  <2> QED BY <1>3, <2>1, <2>2
<1>9. ASSUME UNCHANGED <<server, wire>> PROVE WiresBegun'
  BY <1>3, <1>9
<1>10. CASE \/ StopGeneration \/ CancelRun \/ \E failed \in BOOLEAN : StopReturns(failed)
            \/ UNCHANGED vars
  BY <1>9, <1>10 DEF StopGeneration, CancelRun, StopReturns, vars, streamVars
<1>11. CASE \/ \E l \in Views : ReadTask(l) \/ AttachmentsLoaded(l) \/ TaskLoaded(l) \/ LoadFails(l)
            \/ \E u \in Uploads : PickFile(u) \/ UploadEnds(u, TRUE) \/ UploadEnds(u, FALSE)
            \/ ClickClear \/ Logout \/ LogoutFails \/ Started
  BY <1>9, <1>11 DEF ReadTask, AttachmentsLoaded, TaskLoaded, LoadFails, PickFile, UploadEnds, ClickClear,
                     Logout, LogoutFails, Started, streamVars
<1>12. CASE NewConversation \/ LoggedOut \/ RestoreTask \/ \E t \in StreamTasks : LoadTask(t)
  BY <1>6, <1>12 DEF NewConversation, LoadTask, LoggedOut, RestoreTask
<1> QED BY <1>4, <1>5, <1>7, <1>8, <1>10, <1>11, <1>12 DEF Next

(* What a frame makes of the page: the run it names is that of the stream. *)
LEMMA PageBegunEvent ==
  ASSUME TypedInv, NEW s \in Streams, HandleEvent(s)
  PROVE  PageBegun'
<1> DEFINE frame == Head(wire[s])
           b == into[s].body
           status == AuthoritativeRunStatus(into[s].told, frame)
           text == EventRunState(frame)
<1>0. NamesTyped /\ PageBegun /\ WiresBegun /\ wire[s] \in Seq(SentFrames)
  BY BegunParts DEF TypedInv, ServerInv, WiresTyped
<1>1. wire[s] # <<>> /\ run' = run
  BY DEF HandleEvent
<1>2. frame.event \in {"run_started", "run_resumed", "run_interrupted"} => Begun(RunOf(s))
  <2>1. frame = wire[s][1] /\ 1 \in DOMAIN wire[s]
    BY <1>0, <1>1
  <2>2. Frame("error").event = "error"
    BY DEF Frame
  <2> QED BY <1>0, <2>1, <2>2 DEF WiresBegun
<1>3. /\ active' = CASE frame.event \in {"run_started", "run_resumed"} -> RunOf(s)
                     [] text \in Settled -> NoId
                     [] OTHER -> active
      /\ body' = [body EXCEPT ![b] = EventBody(b, RunOf(s), frame, status)]
      /\ stopping' = stopping
  BY DEF HandleEvent
<1>4. active' # NoId => Begun(active')
  <2> HIDE DEF text, frame
  <2> QED BY <1>0, <1>2, <1>3 DEF PageBegun
<1>5. \A c \in Bodies : body'[c].button = body[c].button \/ (c = b /\ body'[c].button = RunOf(s) /\ Begun(RunOf(s)))
  <2>1. CASE frame.event = "run_interrupted"
    BY <1>0, <1>2, <1>3, <2>1 DEF EventBody, NamesTyped
  <2>2. CASE frame.event # "run_interrupted"
    <3>1. b \in Bodies => EventBody(b, RunOf(s), frame, status).button = body[b].button
      BY <1>0, <2>2 DEF EventBody, NamesTyped
    <3> HIDE DEF b, frame, status
    <3> QED BY <1>0, <1>3, <3>1 DEF NamesTyped
  <2> QED BY <2>1, <2>2
<1> HIDE DEF b
<1> QED BY <1>0, <1>1, <1>3, <1>4, <1>5 DEF PageBegun, Begun

LEMMA PageBegunNext ==
  ASSUME TypedInv, [Next]_vars
  PROVE  PageBegun'
<1>0. ServerInv /\ NamesTyped /\ PageBegun
  BY BegunParts DEF TypedInv
<1>1. \A r \in StreamRuns : Begun(r) => Begun(r)'
  BY RunsStayBegun
<1>2. ASSUME active' \in {NoId, active} \cup {r \in StreamRuns : Begun(r)},
             stopping'.run \in {NoId, stopping.run, active},
             \A b \in Bodies : body'[b].button \in {NoId, body[b].button} \cup {r \in StreamRuns : Begun(r)}
      PROVE  PageBegun'
  <2>1. \A r \in {NoId} \cup StreamRuns : r # NoId /\ Begun(r) => Begun(r)'
    BY <1>1
  <2>2. /\ active \in {NoId} \cup StreamRuns /\ stopping.run \in {NoId} \cup StreamRuns
        /\ \A b \in Bodies : body[b].button \in {NoId} \cup StreamRuns
    BY <1>0 DEF NamesTyped
  <2>3. ASSUME NEW r \in {active', stopping'.run} \cup {body'[b].button : b \in Bodies}, r # NoId
        PROVE  run'[r] # "none"
    BY <1>0, <1>2, <2>1, <2>2, <2>3 DEF PageBegun, Begun
  <2> QED BY <2>3 DEF PageBegun, Begun
<1>3. CASE \E s \in Streams : HandleEvent(s)
  BY <1>3, PageBegunEvent
<1>4. ASSUME NEW s \in Streams, SendMessage(s) PROVE PageBegun'
  <2>1. active' = NoId /\ stopping' = stopping /\ body' = [body EXCEPT ![s] = [NoBody EXCEPT !.shown = TRUE]]
    BY <1>4 DEF SendMessage
  <2> QED BY <1>0, <1>2, <2>1 DEF NamesTyped, NoBody
<1>5. ASSUME NEW s \in Streams, NEW b \in Bodies, ClickResume(s, b) PROVE PageBegun'
  <2>1. active' = body[b].button /\ body[b].button # NoId /\ stopping' = stopping
        /\ body' = [body EXCEPT ![b].button = NoId]
    BY <1>5 DEF ClickResume
  <2>2. active' \in StreamRuns /\ Begun(body[b].button)
    BY <1>0, <2>1 DEF NamesTyped, PageBegun
  <2> QED BY <1>0, <1>2, <2>1, <2>2 DEF NamesTyped
<1>6. ASSUME NEW s \in Streams, Done(s) \/ Fails(s) PROVE PageBegun'
  <2>1. active' \in {NoId, active} /\ UNCHANGED <<stopping, body>>
    BY <1>6 DEF Done, Fails
  <2> QED BY <1>2, <2>1
<1>7. CASE StopGeneration \/ CancelRun \/ \E failed \in BOOLEAN : StopReturns(failed)
  <2>1. active' \in {NoId, active} /\ body' = body
    BY <1>7 DEF StopGeneration, CancelRun, StopReturns
  <2>2. stopping'.run \in {NoId, stopping.run, active}
    <3>1. ASSUME CancelRun PROVE stopping'.run = stopping.run
      <4>1. PICK reply : stopping' = [stopping EXCEPT !.reply = reply]
        BY <3>1 DEF CancelRun
      <4> QED BY <1>0, <4>1 DEF NamesTyped
    <3>2. ASSUME StopGeneration PROVE stopping'.run = active
      <4>1. stopping' = [run |-> active, reply |-> "none"]
        BY <3>2 DEF StopGeneration
      <4> QED BY <4>1
    <3>3. ASSUME NEW failed \in BOOLEAN, StopReturns(failed) PROVE stopping'.run = NoId
      <4>1. stopping' = NotStopping
        BY <3>3 DEF StopReturns
      <4> QED BY <4>1 DEF NotStopping
    <3> QED BY <1>7, <3>1, <3>2, <3>3
  <2> QED BY <1>2, <2>1, <2>2
<1>8. ASSUME NEW t, Switch(t) PROVE PageBegun'
  <2>1. active' = NoId /\ stopping' = stopping /\ body' = [b \in Bodies |-> [body[b] EXCEPT !.shown = FALSE, !.button = NoId]]
    BY <1>8 DEF Switch
  <2> QED BY <1>0, <1>2, <2>1 DEF NamesTyped
<1>9. CASE NewConversation \/ LoggedOut \/ RestoreTask \/ \E t \in StreamTasks : LoadTask(t)
  BY <1>8, <1>9 DEF NewConversation, LoadTask, LoggedOut, RestoreTask
<1>10. ASSUME NEW l \in Views, TaskLoaded(l) PROVE PageBegun'
  <2>1. load[l].latest \in StreamRuns /\ Begun(load[l].latest)
    BY <1>10 DEF TaskLoaded, TypedInv, LoadsStored
  <2>2. active' \in {active, load[l].latest} /\ stopping' = stopping
    BY <1>10 DEF TaskLoaded
  <2>3. \A b \in Bodies : body'[b].button \in {body[b].button, load[l].latest}
    BY <1>0, <1>10 DEF TaskLoaded, NamesTyped, NoBody
  <2> QED BY <1>2, <2>1, <2>2, <2>3
<1>11. ASSUME UNCHANGED pageVars PROVE PageBegun'
  BY <1>2, <1>11 DEF pageVars
<1>12. CASE \/ \E s \in Streams : Server(s)
            \/ \E l \in Views : ReadTask(l) \/ AttachmentsLoaded(l) \/ LoadFails(l)
            \/ \E u \in Uploads : PickFile(u) \/ UploadEnds(u, TRUE) \/ UploadEnds(u, FALSE)
            \/ ClickClear \/ Logout \/ LogoutFails \/ Started \/ UNCHANGED vars
  BY <1>11, <1>12 DEF Server, ReadTask, AttachmentsLoaded, LoadFails, PickFile, UploadEnds, ClickClear, Logout,
                      LogoutFails, Started, vars
<1> QED BY <1>3, <1>4, <1>5, <1>6, <1>7, <1>9, <1>10, <1>12 DEF Next

LEMMA TypedInvInit == Init => TypedInv
<1> SUFFICES ASSUME Init PROVE TypedInv
  OBVIOUS
<1>1. NamesTyped
  <2>1. label \in [text : Labels, stop : BOOLEAN]
    <3>1. "idle" \in Labels /\ label = RunState("idle", NoId, FALSE)
      BY OpenedPage DEF Labels
    <3> QED BY <3>1, LabelTyped
  <2>2. /\ task = NoId /\ abort = NoId /\ active = NoId /\ stopping = NotStopping
        /\ into = [s \in Streams |-> [body |-> NoId, told |-> "none"]]
        /\ body = [b \in Bodies |-> NoBody]
    BY OpenedPage
  <2> QED BY <2>1, <2>2 DEF NamesTyped, NoBody, NotStopping, Replies, RunStatus
<1>2. ServerInv
  BY ServerInvInit
<1>3. PICK url \in {NoId} \cup Stored : visit = [url |-> url, starting |-> TRUE, leaving |-> 0]
  BY OpenedPage
<1>4. ClicksTyped
  <2>1. Stored \subseteq StreamTasks
    BY <1>2 DEF ServerInv, RunsTyped, Stored
  <2>2. /\ load = [l \in Views |-> NoLoad]
        /\ composer = [files |-> {}, dirty |-> FALSE, uploading |-> FALSE, generation |-> 0]
        /\ upload \in [Uploads -> [at : {"none", "over"}, generation : {0}, view : {NoId}]]
        /\ view = 1
    BY OpenedPage
  <2>3. /\ load \in [Views -> [at : {"none", "asked", "read", "rating", "over"}, task : {NoId} \cup StreamTasks,
                              latest : {NoId} \cup StreamRuns, status : RunStatus, files : SUBSET Uploads]]
        /\ composer \in [files : SUBSET Uploads, dirty : BOOLEAN, uploading : BOOLEAN, generation : Nat]
        /\ view \in Views
    BY <2>2, ChatPageAssumption DEF NoLoad, Views, RunStatus
  <2>4. upload \in [Uploads -> [at : {"none", "polling", "over"}, generation : Nat, view : {NoId} \cup Views]]
    BY <2>2
  <2> QED BY <1>3, <2>1, <2>3, <2>4 DEF ClicksTyped
<1>5. OnlyBegun
  <2>1. /\ active = NoId /\ stopping = NotStopping /\ body = [b \in Bodies |-> NoBody]
        /\ wire = [s \in Streams |-> <<>>]
    BY OpenedPage
  <2> QED BY <2>1 DEF OnlyBegun, NotStopping, NoBody
<1>6. LoadsStored
  <2>1. load = [l \in Views |-> NoLoad]
    BY OpenedPage
  <2> QED BY <1>3, <2>1 DEF LoadsStored, NoLoad
<1> QED BY <1>1, <1>2, <1>4, <1>5, <1>6, StreamInvInit DEF TypedInv

LEMMA TypedInvNext ==
  ASSUME TypedInv, [Next]_vars
  PROVE  TypedInv'
<1>1. OnlyBegun'
  BY WiresBegunNext, PageBegunNext DEF OnlyBegun, WiresBegun, PageBegun
<1>2. StreamInv'
  BY StreamInvNext DEF TypedInv
<1> QED BY <1>1, <1>2, ServerInvNext, NamesTypedNext, ClicksTypedNext, LoadsStoredNext DEF TypedInv

(* Every value of the page and of its requests is of its type; of the      *)
(* frames and names that arrive, only those that the handlers can send.    *)
THEOREM ChatTypeCorrect == Spec => []TypeOK
<1>1. Init => TypedInv
  BY TypedInvInit
<1>2. TypedInv /\ [Next]_vars => TypedInv'
  BY TypedInvNext
<1>3. TypedInv => TypeOK
  BY TypedIsTypeOK
<1> QED BY <1>1, <1>2, <1>3, PTL DEF Spec

-----------------------------------------------------------------------------
(* Answers                                                                 *)

(* A result is told only of a run that has one.                            *)
StatusTold ==
  \A s \in Streams :
    into[s].told \in Ended \/ (\E i \in DOMAIN wire[s] : wire[s][i] \in EndFrames) =>
      RunOf(s) \in StreamRuns /\ run[RunOf(s)] \in Ended

AnswersEnded == \A b \in Bodies : body[b].answer # NoId => run[body[b].answer] \in Ended

(* A stream that was not interrupted brings no interruption, and none is   *)
(* read to its end before it has one.                                      *)
NotInterrupted ==
  \A s \in Streams : HandlerAt(s, "open") \/ HandlerAt(s, "finished") =>
    \A i \in DOMAIN wire[s] : wire[s][i] # Frame("run_interrupted")
DoneLate == \A s \in Streams : client[s] = "done" => HandlerAt(s, "closed") \/ HandlerAt(s, "finished")
IntoBodies == \A s \in Streams : client[s] \in {"reading", "done"} => into[s].body \in Bodies

(* The body of a question that was not asked, or of a conversation that is *)
(* not loaded yet, has no button, and nobody writes into it.               *)
Fresh(b) == body[b].button = NoId /\ \A s \in Streams : into[s].body # b
FreshBodies ==
  /\ \A s \in Streams : HandlerAt(s, "none") => Fresh(s)
  /\ \A l \in Views : load[l].at # "over" => Fresh(LoadedBody(l))
  /\ \A l \in Views : l > view => load[l].at = "none"
  /\ visit.starting => load[AtStart].at = "none"

(* A run that is being read cannot be continued in the same body, so that  *)
(* a second stream never writes where an answer stands.                    *)
NoButton ==
  \A s \in Streams : Reading(s) /\ (HandlerAt(s, "asked") \/ HandlerAt(s, "open") \/ HandlerAt(s, "finished")) =>
    body[into[s].body].button = NoId

Shows(s) == body[into[s].body].answer = RunOf(s) /\ ~body[into[s].body].draft

(* The answer is the last frame, and the status was told before it.        *)
Coming(s) ==
  LET w == wire[s]
  IN  /\ w[Len(w)] = Frame("answer")
      /\ IF Len(w) = 1 THEN into[s].told \in Ended ELSE w[Len(w) - 1] \in EndFrames

Finishing ==
  \A s \in Streams : Reading(s) /\ HandlerAt(s, "finished") =>
    IF wire[s] = <<>> THEN Shows(s) ELSE Coming(s)

Read(s) == client[s] = "done" /\ HandlerAt(s, "finished")
ReadShown == \A s \in Streams : Read(s) => Shows(s) /\ body[into[s].body].button = NoId
Alone == \A s, p \in Streams : Read(s) /\ Reading(p) => into[p].body # into[s].body

AnswerInv ==
  /\ StatusTold /\ AnswersEnded
  /\ NotInterrupted /\ DoneLate /\ IntoBodies
  /\ FreshBodies
  /\ NoButton /\ Finishing /\ ReadShown /\ Alone

ShownInv == TypedInv /\ AnswerInv

PageTyped ==
  /\ server \in [Streams -> [at : HandlerStates, request : Requests]]
  /\ wire \in [Streams -> Seq(SentFrames)]
  /\ client \in [Streams -> ClientStates]
  /\ into \in [Streams -> [body : {NoId} \cup Bodies, told : RunStatus]]
  /\ body \in [Bodies -> [shown : BOOLEAN, draft : BOOLEAN, answer : {NoId} \cup StreamRuns,
                           button : {NoId} \cup StreamRuns]]
  /\ load \in [Views -> [at : {"none", "asked", "read", "rating", "over"}, task : {NoId} \cup StreamTasks,
                          latest : {NoId} \cup StreamRuns, status : RunStatus, files : SUBSET Uploads]]
  /\ visit \in [url : {NoId} \cup StreamTasks, starting : BOOLEAN, leaving : Nat]

LEMMA PageIsTyped == TypedInv => PageTyped
  BY DEF TypedInv, ServerInv, WiresTyped, NamesTyped, ClicksTyped, PageTyped

LEMMA UntoldTyped ==
  ASSUME PageTyped
  PROVE  /\ Untold \in [Streams -> [body : {NoId} \cup Bodies, told : {"none"}]]
         /\ \A q \in Streams : Untold[q].body = into[q].body /\ Untold[q].told = "none"
<1>1. \A q \in Streams : into[q] \in [body : {NoId} \cup Bodies, told : RunStatus]
  BY DEF PageTyped
<1>2. \A q \in Streams : Untold[q] = [into[q] EXCEPT !.told = "none"] /\ DOMAIN Untold = Streams
  BY DEF Untold
<1>3. \A q \in Streams : [into[q] EXCEPT !.told = "none"] = [body |-> into[q].body, told |-> "none"]
  BY <1>1
<1>4. \A q \in Streams : Untold[q] = [body |-> into[q].body, told |-> "none"]
  BY <1>2, <1>3
<1>5. Untold \in [Streams -> [body : {NoId} \cup Bodies, told : {"none"}]]
  BY <1>1, <1>4 DEF Untold
<1> QED BY <1>4, <1>5

LEMMA BodiesApart ==
  /\ Streams \subseteq Bodies
  /\ \A l \in Views : LoadedBody(l) \in Bodies /\ LoadedBody(l) \notin Streams
  /\ \A l, m \in Views : LoadedBody(l) = LoadedBody(m) => l = m
  BY ChatStreamAssumption, ChatPageAssumption DEF Streams, Bodies, Views, LoadedBody

(* Runs that have ended stay so.                                           *)
LEMMA EndedStays ==
  ASSUME TypedInv, [Next]_vars, NEW r \in StreamRuns, run[r] \in Ended
  PROVE  run'[r] \in Ended
  BY RunsOnward DEF Onward

LEMMA AnswerInvInit == Init => AnswerInv
<1> SUFFICES ASSUME Init PROVE AnswerInv
  OBVIOUS
<1>1. /\ \A s \in Streams : /\ server[s].at # "finished" /\ client[s] \in {"none", "aborted"} /\ wire[s] = <<>>
                            /\ into[s].body = NoId /\ into[s].told = "none"
      /\ \A b \in Bodies : body[b].button = NoId /\ body[b].answer = NoId
      /\ \A l \in Views : load[l].at = "none"
  BY OpenedPage DEF NoBody, NoLoad
<1>2. NoId \notin Bodies /\ AtStart \in Views
  BY ChatPageAssumption DEF NoId, Bodies, AtStart, Views
<1> QED
  BY <1>1, <1>2, BodiesApart
     DEF AnswerInv, StatusTold, AnswersEnded, NotInterrupted, DoneLate, IntoBodies, FreshBodies, Fresh, NoButton,
         Finishing, ReadShown, Alone, HandlerAt, Reading, Read, Ended

(* A step of a handler: what may be on its wire then, and who moves.       *)
LEMMA HandlerMove ==
  ASSUME TypedInv, NEW s \in Streams, Server(s)
  PROVE  /\ HandlerAt(s, "asked") \/ HandlerAt(s, "open")
         /\ server'[s].at \in {"open", "closed", "finished"}
         /\ \A q \in Streams : q # s => server'[q] = server[q] /\ client'[q] = client[q] /\ wire'[q] = wire[q]
         /\ \A q \in Streams : RunOf(q)' = RunOf(q)
         /\ client'[s] = client[s] \/ (client'[s] = "refused" /\ server'[s].at = "closed")
         /\ UNCHANGED <<into, body, load, view, visit>>
<1>0. PageTyped /\ ServerInv
  BY PageIsTyped DEF TypedInv
<1>1. HandlerAt(s, "asked") \/ HandlerAt(s, "open")
  BY DEF Server, HandlerStep, Start, StartFails, Resume, ResumeFails, Refuse, Drafts, Finish, Interrupt,
         CancelNoticed, ClientGone
<1>2. CASE Refuse(s)
  BY <1>0, <1>1, <1>2 DEF Refuse, Handler, PageTyped, Server, pageVars, RunOf, Reading
<1>3. CASE \/ Start(s) \/ StartFails(s) \/ Resume(s) \/ ResumeFails(s)
           \/ \E event \in {"draft_delta", "draft_discarded"} : Drafts(s, event)
           \/ \E status \in Ended : Finish(s, status)
           \/ \E fails \in BOOLEAN : Interrupt(s, fails) \/ CancelNoticed(s, fails)
           \/ ClientGone(s)
  <2>1. \/ server' = server /\ HandlerAt(s, "open")
        \/ \E to \in {"open", "closed", "finished"} : Handler(s, to)
    BY <1>3 DEF Start, StartFails, Resume, ResumeFails, Drafts, Finish, Interrupt, CancelNoticed, ClientGone
  <2>2. /\ server'[s].at \in {"open", "closed", "finished"}
        /\ \A q \in Streams : q # s => server'[q] = server[q]
    BY <1>0, <2>1 DEF Handler, PageTyped, HandlerAt
  <2>3. client' = client
    BY <1>3 DEF Start, StartFails, Resume, ResumeFails, Drafts, Finish, Interrupt, CancelNoticed, ClientGone
  <2>4. UNCHANGED <<into, body, load, view, visit>>
    BY DEF Server, pageVars
  <2> QED BY <1>0, <1>1, <2>2, <2>3, <2>4, WireOfServer
<1> QED BY <1>2, <1>3 DEF Server, HandlerStep

(* A handler finishes with the status and the answer.                      *)
LEMMA HandlerFinishes ==
  ASSUME TypedInv, NEW s \in Streams, Server(s), server'[s].at = "finished", Reading(s)
  PROVE  wire'[s] # <<>> /\ Coming(s)'
<1>0. PageTyped
  BY PageIsTyped
<1>1. ASSUME NEW to, Handler(s, to) PROVE to = "finished"
  BY <1>0, <1>1 DEF Handler, PageTyped
<1>2. PICK status \in Ended : Finish(s, status)
  <2>1. HandlerAt(s, "asked") \/ HandlerAt(s, "open")
    BY HandlerMove
  <2>2. server' # server
    BY <2>1 DEF HandlerAt
  <2> QED BY <1>1, <2>2 DEF Server, HandlerStep, Start, StartFails, Resume, ResumeFails, Refuse, Drafts,
                            Interrupt, CancelNoticed, ClientGone
<1>3. wire'[s] = wire[s] \o <<StatusFrame(status), Frame("answer")>>
  BY <1>0, <1>2 DEF Finish, Sends, ResultFrames, PageTyped
<1>4. wire[s] \in Seq(SentFrames)
  BY <1>0 DEF PageTyped
<1>5. /\ Len(wire'[s]) = Len(wire[s]) + 2
      /\ wire'[s][Len(wire'[s])] = Frame("answer")
      /\ wire'[s][Len(wire'[s]) - 1] = StatusFrame(status)
      /\ Len(wire[s]) \in Nat
  BY <1>3, <1>4
<1>6. wire'[s] # <<>> /\ Len(wire'[s]) # 1
  BY <1>5
<1> QED BY <1>5, <1>6 DEF Coming, EndFrames

LEMMA AnswerInvServer ==
  ASSUME ShownInv, NEW s \in Streams, Server(s)
  PROVE  AnswerInv'
<1>0. TypedInv /\ AnswerInv /\ PageTyped /\ ServerInv /\ [Next]_vars
  BY PageIsTyped DEF ShownInv, TypedInv, Next
<1>1. /\ HandlerAt(s, "asked") \/ HandlerAt(s, "open")
      /\ server'[s].at \in {"open", "closed", "finished"}
      /\ \A q \in Streams : q # s => server'[q] = server[q] /\ client'[q] = client[q] /\ wire'[q] = wire[q]
      /\ \A q \in Streams : RunOf(q)' = RunOf(q)
      /\ client'[s] = client[s] \/ (client'[s] = "refused" /\ server'[s].at = "closed")
      /\ UNCHANGED <<into, body, load, view, visit>>
  BY <1>0, HandlerMove
<1>2. \A i \in DOMAIN wire'[s] : (i \in DOMAIN wire[s] /\ wire'[s][i] = wire[s][i]) \/ SentBy(s, wire'[s][i])
  BY <1>0, WireOfServer
<1>3. \A r \in StreamRuns : run[r] \in Ended => run'[r] \in Ended
  BY <1>0, EndedStays
<1>4. StatusTold'
  <2>1. ASSUME NEW q \in Streams,
               into'[q].told \in Ended \/ \E i \in DOMAIN wire'[q] : wire'[q][i] \in EndFrames
        PROVE  RunOf(q)' \in StreamRuns /\ run'[RunOf(q)'] \in Ended
    <3>1. CASE into[q].told \in Ended \/ \E i \in DOMAIN wire[q] : wire[q][i] \in EndFrames
      BY <1>0, <1>1, <1>3, <3>1 DEF AnswerInv, StatusTold
    <3>2. CASE ~(into[q].told \in Ended \/ \E i \in DOMAIN wire[q] : wire[q][i] \in EndFrames)
      <4>1. q = s /\ \E i \in DOMAIN wire'[s] : SentBy(s, wire'[s][i]) /\ wire'[s][i] \in EndFrames
        BY <1>1, <1>2, <2>1, <3>2
      <4>2. \A frame \in EndFrames : frame # Frame("error") /\ frame \notin OpenFrames /\ frame # Frame("run_interrupted")
        BY FramesDiffer DEF EndFrames, OpenFrames, Ended
      <4>3. run'[RunOf(s)] \in Ended
        BY <4>1, <4>2 DEF SentBy
      <4>4. RunOf(s) \in StreamRuns
        BY <1>0, <1>1 DEF ServerInv, RequestsNamed, HandlerAt
      <4> QED BY <1>1, <4>1, <4>3, <4>4
    <3> QED BY <3>1, <3>2
  <2> QED BY <2>1 DEF StatusTold
<1>5. AnswersEnded'
  BY <1>0, <1>1, <1>3 DEF AnswerInv, AnswersEnded, PageTyped
<1>6. NotInterrupted'
  <2>1. ASSUME NEW i \in DOMAIN wire'[s], server'[s].at # "closed" PROVE wire'[s][i] # Frame("run_interrupted")
    <3>1. i \in DOMAIN wire[s] => wire[s][i] # Frame("run_interrupted")
      BY <1>0, <1>1 DEF AnswerInv, NotInterrupted, ServerInv, RequestsNamed
    <3>2. Frame("run_interrupted") \notin EndFrames \cup OpenFrames \cup {Frame("answer"), Frame("error")}
      BY FramesDiffer DEF EndFrames, OpenFrames
    <3> QED BY <1>2, <2>1, <3>1, <3>2 DEF SentBy, HandlerAt
  <2> QED BY <1>0, <1>1, <2>1 DEF AnswerInv, NotInterrupted, HandlerAt
<1>7. DoneLate' /\ IntoBodies'
  BY <1>0, <1>1 DEF AnswerInv, DoneLate, IntoBodies, HandlerAt
<1>8. FreshBodies'
  BY <1>0, <1>1 DEF AnswerInv, FreshBodies, Fresh, HandlerAt
<1>9. NoButton'
  BY <1>0, <1>1 DEF AnswerInv, NoButton, HandlerAt, Reading
<1>10. Finishing'
  <2>1. ASSUME Reading(s)', HandlerAt(s, "finished")' PROVE wire'[s] # <<>> /\ Coming(s)'
    BY <1>0, <1>1, <2>1, HandlerFinishes DEF Reading, HandlerAt
  <2>2. \A q \in Streams : q # s => (Shows(q)' <=> Shows(q)) /\ (Coming(q)' <=> Coming(q))
    BY <1>1 DEF Shows, Coming
  <2> QED BY <1>0, <1>1, <2>1, <2>2 DEF AnswerInv, Finishing, Reading, HandlerAt
<1>11. ReadShown' /\ Alone'
  <2>1. \A q \in Streams : Read(q)' => Read(q) /\ (Shows(q)' <=> Shows(q))
    BY <1>0, <1>1 DEF AnswerInv, DoneLate, Read, Shows, HandlerAt
  <2>2. \A q \in Streams : Reading(q)' => Reading(q)
    BY <1>1 DEF Reading
  <2> QED BY <1>0, <1>1, <2>1, <2>2 DEF AnswerInv, ReadShown, Alone
<1> QED BY <1>4, <1>5, <1>6, <1>7, <1>8, <1>9, <1>10, <1>11 DEF AnswerInv

(* No view is loaded twice, and the later ones are not loaded yet.         *)
LoadsGoOn ==
  /\ \A l \in Views : load'[l].at # "over" => load[l].at # "over"
  /\ \A l \in Views : l > view' => load'[l].at = "none"
  /\ visit'.starting => load'[AtStart].at = "none"

VisitStays ==
  \/ visit' = visit
  \/ \E value : \/ visit' = [visit EXCEPT !.url = value]
                \/ visit' = [visit EXCEPT !.leaving = value]
                \/ visit' = [visit EXCEPT !.url = NoId, !.leaving = value]
                \/ visit' = [visit EXCEPT !.starting = FALSE]

LEMMA LoadsStay ==
  ASSUME ShownInv, UNCHANGED load, view' \in {view, view + 1}, VisitStays
  PROVE  LoadsGoOn
<1>1. PageTyped /\ FreshBodies
  BY PageIsTyped DEF ShownInv, AnswerInv
<1>2. view \in Nat /\ Views \subseteq Nat
  BY ChatPageAssumption DEF ShownInv, TypedInv, ClicksTyped, Views
<1>3. visit'.starting => visit.starting
  BY <1>1 DEF PageTyped, VisitStays
<1>4. \A l \in Views : l > view' => l > view
  BY <1>2
<1> QED BY <1>1, <1>2, <1>3, <1>4 DEF FreshBodies, LoadsGoOn

(* A load begins, for a view that has none.                                *)
LEMMA LoadsBegin ==
  ASSUME ShownInv, NEW l \in Views, NEW t, Asked(l, t), load[l].at = "none", view' \in {view, view + 1}, l <= view',
         visit'.starting => visit.starting /\ l # AtStart
  PROVE  LoadsGoOn
<1>1. PageTyped /\ FreshBodies
  BY PageIsTyped DEF ShownInv, AnswerInv
<1>2. view \in Nat /\ Views \subseteq Nat /\ AtStart \in Views
  BY ChatPageAssumption DEF ShownInv, TypedInv, ClicksTyped, Views, AtStart
<1>3. \A m \in Views : m # l => load'[m] = load[m]
  BY <1>1 DEF Asked, PageTyped
<1>4. \A m \in Views : m > view' => m > view /\ m # l
  BY <1>2
<1> QED BY <1>1, <1>2, <1>3, <1>4 DEF FreshBodies, LoadsGoOn

(* A step that leaves the requests and the bodies alone.                   *)
LEMMA AnswerInvQuiet ==
  ASSUME ShownInv, [Next]_vars, UNCHANGED <<server, wire, client, into, body>>, LoadsGoOn
  PROVE  AnswerInv'
<1>0. TypedInv /\ AnswerInv /\ PageTyped
  BY PageIsTyped DEF ShownInv
<1>1. \A r \in StreamRuns : run[r] \in Ended => run'[r] \in Ended
  BY <1>0, EndedStays
<1>2. \A s \in Streams : RunOf(s)' = RunOf(s)
  BY DEF RunOf
<1>3. StatusTold' /\ AnswersEnded'
  BY <1>0, <1>1, <1>2 DEF AnswerInv, StatusTold, AnswersEnded, PageTyped
<1>4. NotInterrupted' /\ DoneLate' /\ IntoBodies'
  BY <1>0 DEF AnswerInv, NotInterrupted, DoneLate, IntoBodies, HandlerAt
<1>5. FreshBodies'
  BY <1>0 DEF AnswerInv, FreshBodies, Fresh, HandlerAt, LoadsGoOn
<1>6. NoButton' /\ Finishing' /\ ReadShown' /\ Alone'
  BY <1>0, <1>2 DEF AnswerInv, NoButton, Finishing, ReadShown, Alone, Shows, Coming, Read, Reading, HandlerAt
<1> QED BY <1>3, <1>4, <1>5, <1>6 DEF AnswerInv

(* Another conversation: no stream is read any more.                       *)
LEMMA AnswerInvSwitch ==
  ASSUME ShownInv, [Next]_vars, NEW t, Switch(t), LoadsGoOn
  PROVE  AnswerInv'
<1>0. TypedInv /\ AnswerInv /\ PageTyped /\ StreamInv
  BY PageIsTyped DEF ShownInv, TypedInv
<1>1. /\ client' = Aborted(abort)
      /\ wire' = [q \in Streams |-> IF q = abort THEN <<>> ELSE wire[q]]
      /\ body' = [b \in Bodies |-> [body[b] EXCEPT !.shown = FALSE, !.button = NoId]]
      /\ into' = Untold
      /\ UNCHANGED <<run, taskOf, server>>
  BY DEF Switch
<1>2. \A q \in Streams : /\ client'[q] # "reading" /\ (client'[q] = "done" => client[q] = "done")
                         /\ wire'[q] = <<>> /\ RunOf(q)' = RunOf(q)
                         /\ into'[q].body = into[q].body /\ into'[q].told = "none"
  <2>1. \A q \in Streams : /\ client'[q] # "reading" /\ (client'[q] = "done" => client[q] = "done")
                           /\ wire'[q] = <<>> /\ RunOf(q)' = RunOf(q)
    BY <1>0, <1>1, AbortEnds, AbortedTyped DEF Aborted, RunOf
  <2> QED BY <1>0, <1>1, <2>1, UntoldTyped
<1>3. \A b \in Bodies : /\ body'[b].answer = body[b].answer /\ body'[b].draft = body[b].draft
                        /\ body'[b].button = NoId
  BY <1>0, <1>1, ZenonT(60) DEF PageTyped
<1>4. StatusTold'
  BY <1>2 DEF StatusTold, Ended
<1>5. AnswersEnded'
  BY <1>0, <1>1, <1>3 DEF AnswerInv, AnswersEnded
<1>6. NotInterrupted' /\ DoneLate' /\ IntoBodies'
  <2>1. NotInterrupted'
    BY <1>2 DEF NotInterrupted
  <2>2. DoneLate'
    BY <1>0, <1>1, <1>2 DEF AnswerInv, DoneLate, HandlerAt
  <2>3. IntoBodies'
    BY <1>0, <1>2 DEF AnswerInv, IntoBodies
  <2> QED BY <2>1, <2>2, <2>3
<1>7. FreshBodies'
  <2>1. \A b \in Bodies : Fresh(b) => Fresh(b)'
    BY <1>2, <1>3 DEF Fresh
  <2> QED BY <1>0, <1>1, <2>1, BodiesApart DEF AnswerInv, FreshBodies, HandlerAt, LoadsGoOn
<1>8. NoButton' /\ Finishing' /\ Alone'
  BY <1>2 DEF NoButton, Finishing, Alone, Reading
<1>9. ReadShown'
  <2>1. ASSUME NEW s \in Streams, Read(s)' PROVE (Shows(s) /\ body[into[s].body].button = NoId)'
    <3>1. Read(s) /\ into[s].body \in Bodies
      BY <1>0, <1>1, <1>2, <2>1 DEF Read, HandlerAt, AnswerInv, IntoBodies
    <3>2. Shows(s)
      BY <1>0, <3>1 DEF AnswerInv, ReadShown
    <3> QED BY <1>2, <1>3, <3>1, <3>2 DEF Shows
  <2> QED BY <2>1 DEF ReadShown
<1> QED BY <1>4, <1>5, <1>6, <1>7, <1>8, <1>9 DEF AnswerInv

(* A new request, into the body of its question or of the button.          *)
LEMMA AnswerInvOpen ==
  ASSUME ShownInv, [Next]_vars, NEW s \in Streams, SendMessage(s) \/ \E b \in Bodies : ClickResume(s, b)
  PROVE  AnswerInv'
<1>0. TypedInv /\ AnswerInv /\ PageTyped /\ StreamInv /\ ServerInv
  BY PageIsTyped DEF ShownInv, TypedInv
<1>1. PICK c \in Bodies, request \in Requests : s \in NextStream /\ Open(s, c, request) /\ (SendMessage(s) => c = s)
  BY <1>0, RequestsOpen
<1>2. /\ HandlerAt(s, "none")
      /\ client' = [Aborted(abort) EXCEPT ![s] = "reading"]
      /\ wire' = [q \in Streams |-> IF q = abort THEN <<>> ELSE wire[q]]
      /\ server' = [server EXCEPT ![s] = [at |-> "asked", request |-> request]]
      /\ into' = [Untold EXCEPT ![s].body = c]
      /\ UNCHANGED <<run, taskOf>>
  BY <1>1 DEF Open, NextStream
<1>3. UNCHANGED <<load, view, visit>>
  BY DEF SendMessage, ClickResume
<1>4. /\ \A q \in Streams : wire'[q] = <<>>
      /\ \A q \in Streams : q # s => /\ server'[q] = server[q] /\ into'[q].body = into[q].body
                                     /\ RunOf(q)' = RunOf(q) /\ client'[q] # "reading"
                                     /\ client'[q] = "done" => client[q] = "done"
      /\ \A q \in Streams : into'[q].told = "none"
      /\ server'[s].at = "asked" /\ into'[s].body = c /\ client'[s] = "reading"
  <2>1. /\ Untold \in [Streams -> [body : {NoId} \cup Bodies, told : {"none"}]]
        /\ \A q \in Streams : Untold[q].body = into[q].body
    BY <1>0, UntoldTyped
  <2>2. \A q \in Streams : q # s => into'[q] = Untold[q]
    BY <1>2, <2>1
  <2>3. into'[s].body = c /\ into'[s].told = "none"
    BY <1>2, <2>1
  <2>4. \A q \in Streams : into'[q].told = "none" /\ (q # s => into'[q].body = into[q].body)
    BY <2>1, <2>2, <2>3
  <2>5. /\ \A q \in Streams : wire'[q] = <<>>
        /\ \A q \in Streams : q # s => /\ server'[q] = server[q] /\ RunOf(q)' = RunOf(q)
                                       /\ client'[q] # "reading" /\ (client'[q] = "done" => client[q] = "done")
        /\ server'[s].at = "asked" /\ client'[s] = "reading"
    BY <1>0, <1>2, AbortEnds, AbortedTyped DEF PageTyped, Aborted, RunOf
  <2> QED BY <2>3, <2>4, <2>5
<1>5. /\ body'[c].button = NoId
      /\ body'[c].answer \in {NoId, body[c].answer}
      /\ \A b \in Bodies : b # c => body'[b] = body[b]
      /\ \A b \in Bodies : Fresh(b) => c # b \/ c = s
      /\ \A q \in Streams : Read(q) => into[q].body # c
  <2>1. CASE SendMessage(s)
    <3>1. c = s /\ body' = [body EXCEPT ![s] = [NoBody EXCEPT !.shown = TRUE]]
      BY <1>1, <2>1 DEF SendMessage
    <3>2. Fresh(s)
      BY <1>0, <1>2 DEF AnswerInv, FreshBodies
    <3> QED BY <1>0, <3>1, <3>2 DEF PageTyped, NoBody, Fresh
  <2>2. ASSUME NEW b \in Bodies, ClickResume(s, b), ~SendMessage(s)
        PROVE  c = b /\ body' = [body EXCEPT ![b].button = NoId] /\ body[b].button # NoId
    <3>1. \E other : Open(s, b, other)
      BY <2>2 DEF ClickResume
    <3>2. into' = [Untold EXCEPT ![s].body = b]
      BY <3>1 DEF Open
    <3>3. into'[s].body = b
      BY <1>0, <3>2, UntoldTyped
    <3> QED BY <1>4, <2>2, <3>3 DEF ClickResume
  <2>3. CASE ~SendMessage(s)
    <3>1. body' = [body EXCEPT ![c].button = NoId] /\ body[c].button # NoId
      BY <2>2, <2>3
    <3>2. \A q \in Streams : Read(q) => into[q].body # c
      BY <1>0, <3>1 DEF AnswerInv, ReadShown
    <3> QED BY <1>0, <3>1, <3>2 DEF PageTyped, Fresh
  <2> QED BY <2>1, <2>3
<1>6. StatusTold'
  BY <1>0, <1>2, <1>4 DEF AnswerInv, StatusTold, Ended
<1>7. AnswersEnded'
  BY <1>0, <1>2, <1>5 DEF AnswerInv, AnswersEnded
<1>8. NotInterrupted' /\ DoneLate' /\ IntoBodies'
  BY <1>0, <1>4 DEF AnswerInv, NotInterrupted, DoneLate, IntoBodies, HandlerAt
<1>9. FreshBodies'
  <2>1. ASSUME NEW b \in Bodies, b # s, Fresh(b) PROVE Fresh(b)'
    BY <1>4, <1>5, <2>1 DEF Fresh
  <2> QED BY <1>0, <1>3, <1>4, <2>1, BodiesApart DEF AnswerInv, FreshBodies, HandlerAt
<1>10. NoButton' /\ Finishing'
  BY <1>4, <1>5 DEF NoButton, Finishing, Reading, HandlerAt
<1>11. ReadShown' /\ Alone'
  <2>1. ASSUME NEW q \in Streams, Read(q)'
        PROVE  /\ (Shows(q) /\ body[into[q].body].button = NoId)'
               /\ \A p \in Streams : Reading(p)' => into'[p].body # into'[q].body
    <3>1. q # s /\ Read(q) /\ into[q].body \in Bodies /\ into[q].body # c
      BY <1>0, <1>4, <1>5, <2>1 DEF Read, HandlerAt, AnswerInv, IntoBodies
    <3>2. Shows(q) /\ body[into[q].body].button = NoId
      BY <1>0, <3>1 DEF AnswerInv, ReadShown
    <3> QED BY <1>4, <1>5, <3>1, <3>2 DEF Shows, Reading
  <2> QED BY <2>1 DEF ReadShown, Alone
<1> QED BY <1>6, <1>7, <1>8, <1>9, <1>10, <1>11 DEF AnswerInv

LEMMA FrameKinds ==
  ASSUME NEW frame \in SentFrames
  PROVE  /\ frame.event = "run_status" => /\ frame = StatusFrame(frame.status)
                                          /\ frame.status \in Ended => frame \in EndFrames
         /\ frame.event # "run_status" => frame = Frame(frame.event)
<1>1. CASE \E event \in {"task_created", "run_started", "run_resumed", "draft_delta", "draft_discarded",
                         "run_interrupted", "answer", "error"} : frame = Frame(event)
  BY <1>1, FramesDiffer
<1>2. CASE \E status \in {"running"} \cup Ended : frame = StatusFrame(status)
  BY <1>2, FramesDiffer DEF EndFrames
<1> QED BY <1>1, <1>2 DEF SentFrames

(* What a frame does to the body it is shown in.                           *)
LEMMA BodyOfEvent ==
  ASSUME PageTyped, NEW b \in Bodies, NEW r \in StreamRuns, NEW frame \in SentFrames, NEW status \in RunStatus
  PROVE  /\ EventBody(b, r, frame, status).button = body[b].button \/ frame = Frame("run_interrupted")
         /\ \/ EventBody(b, r, frame, status).answer = body[b].answer
            \/ status \in Ended /\ EventBody(b, r, frame, status).answer = r
         /\ frame = Frame("answer") =>
              /\ EventBody(b, r, frame, status).draft = FALSE
              /\ status \in Ended => EventBody(b, r, frame, status).answer = r
<1>1. CASE frame.event = "run_interrupted"
  <2>1. EventBody(b, r, frame, status) = [body[b] EXCEPT !.button = r] /\ frame # Frame("answer")
    BY <1>1, FramesDiffer DEF EventBody
  <2> QED BY <1>1, <2>1, FrameKinds DEF PageTyped
<1>2. CASE frame.event = "answer"
  <2>1. EventBody(b, r, frame, status)
          = [body[b] EXCEPT !.draft = FALSE, !.answer = IF status \in Ended THEN r ELSE @]
    BY <1>2 DEF EventBody, ShouldDisplayAnswer
  <2> QED BY <2>1 DEF PageTyped
<1>3. CASE frame.event \notin {"run_interrupted", "answer"}
  <2>1. \/ EventBody(b, r, frame, status) = body[b]
        \/ \E draft : EventBody(b, r, frame, status) = [body[b] EXCEPT !.draft = draft]
    BY <1>3 DEF EventBody
  <2>2. frame # Frame("answer")
    BY <1>3, FramesDiffer
  <2> QED BY <2>1, <2>2 DEF PageTyped
<1> QED BY <1>1, <1>2, <1>3

(* A status that is told is one of the frame, or was told before.          *)
LEMMA StatusOfEvent ==
  ASSUME NEW told, NEW frame \in SentFrames
  PROVE  /\ AuthoritativeRunStatus(told, frame) \in Ended => frame \in EndFrames \/ told \in Ended
         /\ frame \in EndFrames => AuthoritativeRunStatus(told, frame) \in Ended
         /\ frame = Frame("answer") => AuthoritativeRunStatus(told, frame) = told
<1>1. frame \in EndFrames => frame.event = "run_status" /\ frame.status \in Ended
  BY FramesDiffer DEF EndFrames
<1>2. frame = Frame("answer") => frame.event = "answer"
  BY FramesDiffer
<1> QED BY <1>1, <1>2, FrameKinds DEF AuthoritativeRunStatus, Ended

LEMMA TailEnds ==
  ASSUME NEW S, NEW w \in Seq(S), NEW n \in Nat, n = Len(w), n # 0, n # 1
  PROVE  /\ Len(Tail(w)) = n - 1 /\ Tail(w) # <<>>
         /\ Tail(w)[n - 1] = w[n]
         /\ n - 1 # 1 => Tail(w)[n - 2] = w[n - 1]
<1>1. /\ Len(Tail(w)) = n - 1
      /\ \A i \in 1..(n - 1) : Tail(w)[i] = w[i + 1]
  OBVIOUS
<1>2. n - 1 \in 1..(n - 1) /\ n - 1 # 0 /\ (n - 1 # 1 => n - 2 \in 1..(n - 1))
      /\ n - 1 + 1 = n /\ n - 2 + 1 = n - 1
  OBVIOUS
<1>3. Len(<<>>) = 0
  OBVIOUS
<1>4. Tail(w) # <<>>
  BY <1>1, <1>2, <1>3
<1>5. Tail(w)[n - 1] = w[n - 1 + 1] /\ (n - 1 # 1 => Tail(w)[n - 2] = w[n - 2 + 1])
  BY <1>1, <1>2
<1> QED BY <1>1, <1>2, <1>4, <1>5

LEMMA AnswerInvEvent ==
  ASSUME ShownInv, NEW s \in Streams, HandleEvent(s)
  PROVE  AnswerInv'
<1>0. TypedInv /\ AnswerInv /\ PageTyped /\ ServerInv /\ [Next]_vars
  BY PageIsTyped DEF ShownInv, TypedInv, Next
<1>1. PICK frame, b, status :
        /\ frame = Head(wire[s]) /\ b = into[s].body
        /\ status = AuthoritativeRunStatus(into[s].told, frame)
        /\ wire' = [wire EXCEPT ![s] = Tail(@)]
        /\ into' = [into EXCEPT ![s].told = status]
        /\ body' = [body EXCEPT ![b] = EventBody(b, RunOf(s), frame, status)]
  BY DEF HandleEvent
<1>2. /\ Reading(s) /\ wire[s] # <<>> /\ UNCHANGED <<run, server, client, load, view>>
      /\ visit'.starting = visit.starting
  BY <1>0 DEF HandleEvent, PageTyped
<1>3. /\ \A q \in Streams : Reading(q) => q = s
      /\ \A q \in Streams : RunOf(q)' = RunOf(q)
  BY <1>0, <1>2 DEF TypedInv, StreamInv, OneStream, RunOf
<1>4. b \in Bodies /\ RunOf(s) \in StreamRuns /\ frame \in SentFrames
  BY <1>0, <1>1, <1>2, NextFrame DEF AnswerInv, IntoBodies, Reading
<1>5. /\ wire[s] \in Seq(SentFrames) /\ frame = wire[s][1] /\ 1 \in DOMAIN wire[s]
      /\ wire'[s] = Tail(wire[s])
      /\ \A i \in DOMAIN wire'[s] : i + 1 \in DOMAIN wire[s] /\ wire'[s][i] = wire[s][i + 1]
      /\ \A q \in Streams : q # s => wire'[q] = wire[q] /\ into'[q] = into[q]
      /\ \A q \in Streams : into'[q].body = into[q].body
      /\ into'[s].told = status
  BY <1>0, <1>1, <1>2 DEF PageTyped
<1>6. /\ \A c \in Bodies : c # b => body'[c] = body[c]
      /\ body'[b] = EventBody(b, RunOf(s), frame, status)
  BY <1>0, <1>1, <1>4 DEF PageTyped
<1>7. /\ body'[b].button = body[b].button \/ frame = Frame("run_interrupted")
      /\ body'[b].answer = body[b].answer \/ (status \in Ended /\ body'[b].answer = RunOf(s))
      /\ frame = Frame("answer") => body'[b].draft = FALSE /\ (status \in Ended => body'[b].answer = RunOf(s))
  <2>0. status \in RunStatus
    <3>1. into[s].told \in RunStatus
      BY <1>0 DEF PageTyped
    <3> QED BY <1>1, <1>4, <3>1, SentFrameEvents
  <2>1. PageTyped /\ b \in Bodies /\ RunOf(s) \in StreamRuns /\ frame \in SentFrames /\ status \in RunStatus
    BY <1>0, <1>4, <2>0
  <2>2. EventBody(b, RunOf(s), frame, status).button = body[b].button \/ frame = Frame("run_interrupted")
    BY <2>1, BodyOfEvent, ZenonT(120)
  <2>3. \/ EventBody(b, RunOf(s), frame, status).answer = body[b].answer
        \/ status \in Ended /\ EventBody(b, RunOf(s), frame, status).answer = RunOf(s)
    BY <2>1, BodyOfEvent
  <2>4. frame = Frame("answer") =>
          /\ EventBody(b, RunOf(s), frame, status).draft = FALSE
          /\ status \in Ended => EventBody(b, RunOf(s), frame, status).answer = RunOf(s)
    BY <2>1, BodyOfEvent
  <2> QED BY <1>6, <2>2, <2>3, <2>4
<1>8. /\ status \in Ended => frame \in EndFrames \/ into[s].told \in Ended
      /\ frame \in EndFrames => status \in Ended
      /\ frame = Frame("answer") => status = into[s].told
  BY <1>1, <1>4, StatusOfEvent
<1>9. status \in Ended => run[RunOf(s)] \in Ended
  BY <1>0, <1>5, <1>8 DEF AnswerInv, StatusTold
<1>10. StatusTold'
  <2>1. ASSUME NEW q \in Streams, q # s,
               into'[q].told \in Ended \/ \E i \in DOMAIN wire'[q] : wire'[q][i] \in EndFrames
        PROVE  RunOf(q)' \in StreamRuns /\ run'[RunOf(q)'] \in Ended
    BY <1>0, <1>2, <1>3, <1>5, <2>1 DEF AnswerInv, StatusTold
  <2>2. ASSUME into'[s].told \in Ended \/ \E i \in DOMAIN wire'[s] : wire'[s][i] \in EndFrames
        PROVE  run[RunOf(s)] \in Ended
    <3>1. CASE into'[s].told \in Ended
      BY <1>5, <1>9, <3>1
    <3>2. CASE \E i \in DOMAIN wire'[s] : wire'[s][i] \in EndFrames
      <4>1. \E i \in DOMAIN wire[s] : wire[s][i] \in EndFrames
        BY <1>5, <3>2
      <4> QED BY <1>0, <4>1 DEF AnswerInv, StatusTold
    <3> QED BY <2>2, <3>1, <3>2
  <2> QED BY <1>2, <1>3, <1>4, <2>1, <2>2 DEF StatusTold
<1>11. AnswersEnded'
  BY <1>0, <1>2, <1>6, <1>7, <1>9 DEF AnswerInv, AnswersEnded
<1>12. NotInterrupted' /\ DoneLate' /\ IntoBodies'
  <2>1. DoneLate' /\ IntoBodies'
    BY <1>0, <1>2, <1>5 DEF AnswerInv, DoneLate, IntoBodies, HandlerAt
  <2>2. \A q \in Streams : \A i \in DOMAIN wire'[q] : \E j \in DOMAIN wire[q] : wire'[q][i] = wire[q][j]
    <3>1. ASSUME NEW i \in DOMAIN wire'[s] PROVE \E j \in DOMAIN wire[s] : wire'[s][i] = wire[s][j]
      <4>1. i + 1 \in DOMAIN wire[s] /\ wire'[s][i] = wire[s][i + 1]
        BY <1>5
      <4> QED BY <4>1
    <3>2. \A q \in Streams : q # s => wire'[q] = wire[q]
      BY <1>5
    <3>3. ASSUME NEW q \in Streams, q # s, NEW i \in DOMAIN wire'[q]
          PROVE  \E j \in DOMAIN wire[q] : wire'[q][i] = wire[q][j]
      BY <3>2, <3>3
    <3> QED BY <3>1, <3>3
  <2> QED BY <1>0, <1>2, <2>1, <2>2 DEF AnswerInv, NotInterrupted, HandlerAt
<1>13. FreshBodies'
  <2>1. \A c \in Bodies : Fresh(c) => Fresh(c)'
    BY <1>1, <1>5, <1>6 DEF Fresh
  <2> QED BY <1>0, <1>2, <2>1, BodiesApart DEF AnswerInv, FreshBodies, HandlerAt
<1>14. NoButton'
  <2>1. ASSUME HandlerAt(s, "asked") \/ HandlerAt(s, "open") \/ HandlerAt(s, "finished")
        PROVE  body'[b].button = NoId
    <3>1. frame # Frame("run_interrupted")
      BY <1>0, <1>2, <1>5, <2>1 DEF AnswerInv, NotInterrupted, ServerInv, RequestsNamed
    <3> QED BY <1>0, <1>1, <1>2, <1>7, <2>1, <3>1 DEF AnswerInv, NoButton
  <2> QED BY <1>1, <1>2, <1>3, <1>5, <2>1 DEF NoButton, Reading, HandlerAt
<1>15. Finishing'
  <2>1. ASSUME HandlerAt(s, "finished") PROVE IF wire'[s] = <<>> THEN Shows(s)' ELSE Coming(s)'
    <3>1. Coming(s) /\ Len(wire[s]) \in Nat \ {0}
      BY <1>0, <1>2, <1>5, <2>1 DEF AnswerInv, Finishing
    <3>2. CASE Len(wire[s]) = 1
      <4>1. frame = Frame("answer") /\ into[s].told \in Ended /\ wire'[s] = <<>>
        BY <1>5, <3>1, <3>2 DEF Coming
      <4> QED BY <1>1, <1>3, <1>5, <1>7, <1>8, <4>1 DEF Shows
    <3>3. CASE Len(wire[s]) # 1
      <4>1. PICK n \in Nat : n = Len(wire[s]) /\ n # 0 /\ n # 1
        BY <3>1, <3>3
      <4>2. /\ Len(wire'[s]) = n - 1 /\ wire'[s] # <<>>
            /\ wire'[s][n - 1] = wire[s][n]
            /\ n - 1 # 1 => wire'[s][n - 2] = wire[s][n - 1]
        <5>1. wire[s] \in Seq(SentFrames)
          BY <1>5
        <5>2. /\ Len(Tail(wire[s])) = n - 1 /\ Tail(wire[s]) # <<>>
              /\ Tail(wire[s])[n - 1] = wire[s][n]
              /\ n - 1 # 1 => Tail(wire[s])[n - 2] = wire[s][n - 1]
          BY <4>1, <5>1, TailEnds
        <5>3. wire'[s] = Tail(wire[s])
          BY <1>5
        <5> QED BY <5>2, <5>3
      <4>3. wire[s][n] = Frame("answer") /\ wire[s][n - 1] \in EndFrames
        BY <3>1, <4>1 DEF Coming
      <4>4. n - 1 = 1 => into'[s].told \in Ended
        BY <1>5, <1>8, <4>3
      <4>5. n - 1 - 1 = n - 2
        BY <4>1
      <4> QED BY <4>2, <4>3, <4>4, <4>5 DEF Coming
    <3> QED BY <3>2, <3>3
  <2> QED BY <1>2, <1>3, <2>1 DEF Finishing, Reading, HandlerAt
<1>16. ReadShown' /\ Alone'
  <2>1. ASSUME NEW q \in Streams, Read(q)' PROVE Read(q) /\ into[q].body \in Bodies /\ into[q].body # b
    BY <1>0, <1>1, <1>2, <2>1 DEF Read, HandlerAt, AnswerInv, Alone, IntoBodies
  <2>2. ASSUME NEW q \in Streams, Read(q)' PROVE (Shows(q) /\ body[into[q].body].button = NoId)'
    BY <1>0, <1>3, <1>5, <1>6, <2>1, <2>2 DEF AnswerInv, ReadShown, Shows
  <2>3. Alone'
    BY <1>0, <1>2, <1>5, <2>1 DEF AnswerInv, Alone, Reading
  <2> QED BY <2>2, <2>3 DEF ReadShown
<1> QED BY <1>10, <1>11, <1>12, <1>13, <1>14, <1>15, <1>16 DEF AnswerInv

(* A stream is over: what it brought stands in its body.                   *)
LEMMA AnswerInvEnd ==
  ASSUME ShownInv, NEW s \in Streams, Done(s) \/ Fails(s)
  PROVE  AnswerInv'
<1>0. TypedInv /\ AnswerInv /\ PageTyped /\ ServerInv
  BY PageIsTyped DEF ShownInv, TypedInv
<1>1. UNCHANGED <<run, taskOf, server, into, body, load, view, visit>>
  BY DEF Done, Fails
<1>2. /\ \A q \in Streams : wire'[q] = wire[q] \/ wire'[q] = <<>>
      /\ \A q \in Streams : q # s => client'[q] = client[q]
      /\ client'[s] # "reading"
      /\ client'[s] = "done" => Reading(s) /\ wire[s] = <<>> /\ (HandlerAt(s, "closed") \/ HandlerAt(s, "finished"))
      /\ Reading(s) \/ client[s] = "refused"
  <2>1. CASE Done(s)
    BY <1>0, <2>1 DEF Done, PageTyped, HandlerAt
  <2>2. CASE Fails(s)
    BY <1>0, <2>2 DEF Fails, PageTyped
  <2> QED BY <2>1, <2>2
<1>3. \A q \in Streams : ~(Reading(q)' /\ Reading(s)) /\ RunOf(q)' = RunOf(q)
  BY <1>0, <1>1, <1>2 DEF TypedInv, StreamInv, OneStream, RunOf, Reading
<1>4. \A q \in Streams : Reading(q)' => Reading(q) /\ q # s
  BY <1>2 DEF Reading
<1>5. StatusTold' /\ AnswersEnded'
  BY <1>0, <1>1, <1>2, <1>3 DEF AnswerInv, StatusTold, AnswersEnded
<1>6. NotInterrupted' /\ DoneLate' /\ IntoBodies'
  BY <1>0, <1>1, <1>2 DEF AnswerInv, NotInterrupted, DoneLate, IntoBodies, HandlerAt, Reading
<1>7. FreshBodies' /\ NoButton'
  BY <1>0, <1>1, <1>4 DEF AnswerInv, FreshBodies, Fresh, NoButton, HandlerAt
<1>8. \A q \in Streams : (Shows(q)' <=> Shows(q)) /\ (wire'[q] = wire[q] => (Coming(q)' <=> Coming(q)))
  BY <1>1, <1>3 DEF Shows, Coming
<1>9. Finishing'
  <2>1. ASSUME NEW q \in Streams, Reading(q)' PROVE wire'[q] = wire[q] /\ Reading(q)
    <3>1. q # s /\ Reading(q)
      BY <1>4, <2>1
    <3>2. wire' = [wire EXCEPT ![s] = <<>>] \/ wire' = wire
      BY DEF Done, Fails
    <3> QED BY <1>0, <3>1, <3>2 DEF PageTyped
  <2> QED BY <1>0, <1>1, <1>8, <2>1 DEF AnswerInv, Finishing, HandlerAt
<1>10. ASSUME NEW q \in Streams, Read(q)'
       PROVE  /\ (Shows(q) /\ body[into[q].body].button = NoId)'
              /\ \A p \in Streams : Reading(p)' => into'[p].body # into'[q].body
  <2>1. CASE q = s
    <3>1. Reading(s) /\ wire[s] = <<>> /\ HandlerAt(s, "finished")
      BY <1>1, <1>2, <1>10, <2>1 DEF Read, HandlerAt
    <3>2. Shows(s) /\ body[into[s].body].button = NoId
      BY <1>0, <3>1 DEF AnswerInv, Finishing, NoButton
    <3> QED BY <1>1, <1>3, <1>8, <2>1, <3>1, <3>2
  <2>2. CASE q # s
    <3>1. Read(q)
      BY <1>1, <1>2, <1>10, <2>2 DEF Read, HandlerAt
    <3> QED BY <1>0, <1>1, <1>4, <1>8, <3>1 DEF AnswerInv, ReadShown, Alone
  <2> QED BY <2>1, <2>2
<1>11. ReadShown' /\ Alone'
  BY <1>10 DEF ReadShown, Alone
<1> QED BY <1>5, <1>6, <1>7, <1>9, <1>11 DEF AnswerInv

(* A loaded conversation gets a body of its own.                           *)
LEMMA AnswerInvLoaded ==
  ASSUME ShownInv, [Next]_vars, NEW l \in Views, TaskLoaded(l)
  PROVE  AnswerInv'
<1>0. TypedInv /\ AnswerInv /\ PageTyped
  BY PageIsTyped DEF ShownInv
<1>1. /\ load[l].at = "rating" /\ load' = [load EXCEPT ![l] = LoadOver] /\ LoadOver.at = "over"
      /\ UNCHANGED <<run, taskOf, server, wire, client, into, view, visit>>
  BY DEF TaskLoaded, LoadOver, NoLoad, streamVars
<1>2. Fresh(LoadedBody(l)) /\ LoadedBody(l) \in Bodies /\ LoadedBody(l) \notin Streams
  BY <1>0, <1>1, BodiesApart DEF AnswerInv, FreshBodies
<1>3. /\ \A b \in Bodies : b # LoadedBody(l) => body'[b] = body[b]
      /\ body'[LoadedBody(l)].answer \in {NoId, body[LoadedBody(l)].answer}
  BY <1>0, <1>2 DEF TaskLoaded, PageTyped, NoBody
<1>4. \A q \in Streams : RunOf(q)' = RunOf(q)
  BY <1>1 DEF RunOf
<1>5. StatusTold' /\ AnswersEnded'
  BY <1>0, <1>1, <1>2, <1>3, <1>4 DEF AnswerInv, StatusTold, AnswersEnded
<1>6. NotInterrupted' /\ DoneLate' /\ IntoBodies'
  BY <1>0, <1>1 DEF AnswerInv, NotInterrupted, DoneLate, IntoBodies, HandlerAt
<1>7. FreshBodies'
  <2>1. \A b \in Bodies : b # LoadedBody(l) /\ Fresh(b) => Fresh(b)'
    BY <1>1, <1>3 DEF Fresh
  <2>2. \A m \in Views : /\ load'[m].at # "over" => load[m].at # "over" /\ m # l
                         /\ load[m].at = "none" => load'[m].at = "none"
    BY <1>0, <1>1 DEF PageTyped
  <2> QED BY <1>0, <1>1, <1>2, <2>1, <2>2, BodiesApart DEF AnswerInv, FreshBodies, HandlerAt
<1>8. \A q \in Streams : client[q] \in {"reading", "done"} => body'[into[q].body] = body[into[q].body]
  BY <1>0, <1>2, <1>3 DEF AnswerInv, IntoBodies, Fresh
<1>9. \A q \in Streams : Coming(q)' <=> Coming(q)
  BY <1>1 DEF Coming
<1>10. ASSUME NEW q \in Streams, Reading(q)'
       PROVE  Reading(q) /\ body'[into[q].body] = body[into[q].body] /\ (Shows(q)' <=> Shows(q))
  <2>1. Reading(q) /\ client[q] \in {"reading", "done"}
    BY <1>1, <1>10 DEF Reading
  <2> QED BY <1>1, <1>4, <1>8, <2>1 DEF Shows
<1>11. ASSUME NEW q \in Streams, Read(q)'
       PROVE  Read(q) /\ body'[into[q].body] = body[into[q].body] /\ (Shows(q)' <=> Shows(q))
  <2>1. Read(q) /\ client[q] \in {"reading", "done"}
    BY <1>1, <1>11 DEF Read, HandlerAt
  <2> QED BY <1>1, <1>4, <1>8, <2>1 DEF Shows
<1>12. NoButton'
  BY <1>0, <1>1, <1>10 DEF AnswerInv, NoButton, HandlerAt
<1>13. Finishing'
  <2>1. ASSUME NEW q \in Streams, Reading(q)', HandlerAt(q, "finished")'
        PROVE  (IF wire[q] = <<>> THEN Shows(q) ELSE Coming(q))'
    <3>1. Reading(q) /\ HandlerAt(q, "finished") /\ (Shows(q)' <=> Shows(q))
      BY <1>1, <1>10, <2>1 DEF HandlerAt
    <3>2. IF wire[q] = <<>> THEN Shows(q) ELSE Coming(q)
      BY <1>0, <3>1 DEF AnswerInv, Finishing
    <3> QED BY <1>1, <1>9, <3>1, <3>2
  <2> QED BY <2>1 DEF Finishing
<1>14. ReadShown'
  <2>1. ASSUME NEW q \in Streams, Read(q)' PROVE (Shows(q) /\ body[into[q].body].button = NoId)'
    <3>1. Shows(q) /\ body[into[q].body].button = NoId
      BY <1>0, <1>11, <2>1 DEF AnswerInv, ReadShown
    <3> QED BY <1>1, <1>11, <2>1, <3>1
  <2> QED BY <2>1 DEF ReadShown
<1>15. Alone'
  <2>1. ASSUME NEW q \in Streams, NEW p \in Streams, Read(q)', Reading(p)'
        PROVE  into'[p].body # into'[q].body
    <3>1. Read(q) /\ Reading(p)
      BY <1>10, <1>11, <2>1
    <3> QED BY <1>0, <1>1, <3>1 DEF AnswerInv, Alone
  <2> QED BY <2>1 DEF Alone
<1> QED BY <1>5, <1>6, <1>7, <1>12, <1>13, <1>14, <1>15 DEF AnswerInv

LEMMA AnswerInvNext ==
  ASSUME ShownInv, [Next]_vars
  PROVE  AnswerInv'
<1>1. CASE \E s \in Streams : Server(s)
  BY <1>1, AnswerInvServer
<1>2. CASE \E s \in Streams : SendMessage(s) \/ \E b \in Bodies : ClickResume(s, b)
  BY <1>2, AnswerInvOpen
<1>3. CASE \E s \in Streams : HandleEvent(s) \/ Done(s) \/ Fails(s)
  BY <1>3, AnswerInvEvent, AnswerInvEnd
<1>0. view \in Nat /\ Views \subseteq Nat /\ AtStart \in Views
      /\ (\A l \in Views : l > view => load[l].at = "none") /\ (visit.starting => load[AtStart].at = "none")
  BY ChatPageAssumption DEF ShownInv, TypedInv, ClicksTyped, Views, AtStart, AnswerInv, FreshBodies
<1>4. CASE NewConversation \/ LoggedOut
  <2>1. LoadsGoOn
    BY <1>4, LoadsStay DEF VisitStays, NewConversation, ClickAway, LoggedOut
  <2> QED BY <1>4, <2>1, AnswerInvSwitch DEF NewConversation, LoggedOut
<1>5. ASSUME NEW t \in StreamTasks, LoadTask(t) PROVE AnswerInv'
  <2>1. view' = view + 1 /\ view' \in Views /\ Asked(view', t) /\ Switch(t)
    BY <1>5, ClicksTypedAway DEF LoadTask, ShownInv
  <2>2. load[view'].at = "none" /\ view' # AtStart
    <3>1. view # 0
      BY DEF ShownInv, TypedInv, ClicksTyped, Views
    <3> QED BY <1>0, <2>1, <3>1 DEF AtStart
  <2>3. visit'.starting => visit.starting
    BY <1>5 DEF LoadTask, ShownInv, TypedInv, ClicksTyped
  <2>4. LoadsGoOn
    BY <1>0, <2>1, <2>2, <2>3, LoadsBegin
  <2> QED BY <2>1, <2>4, AnswerInvSwitch
<1>10. CASE RestoreTask
  <2>1. visit.starting /\ Switch(visit.url) /\ Asked(AtStart, visit.url) /\ view' = view
    BY <1>10 DEF RestoreTask
  <2>2. ~visit'.starting
    BY <1>10 DEF RestoreTask, ShownInv, TypedInv, ClicksTyped
  <2>3. AtStart <= view
    BY DEF ShownInv, TypedInv, ClicksTyped, Views, AtStart
  <2>4. LoadsGoOn
    BY <1>0, <2>1, <2>2, <2>3, LoadsBegin
  <2> QED BY <2>1, <2>4, AnswerInvSwitch
<1>6. CASE \E l \in Views : TaskLoaded(l)
  BY <1>6, AnswerInvLoaded
<1>7. ASSUME UNCHANGED <<server, wire, client, into, body, load, view, visit>> PROVE AnswerInv'
  BY <1>7, LoadsStay, AnswerInvQuiet DEF VisitStays
<1>11. CASE Logout \/ LogoutFails \/ Started
  <2>1. LoadsGoOn
    BY <1>11, LoadsStay DEF VisitStays, Logout, ClickAway, LogoutFails, Started
  <2>2. UNCHANGED <<server, wire, client, into, body>>
    BY <1>11 DEF Logout, LogoutFails, Started, streamVars, pageVars
  <2> QED BY <2>1, <2>2, AnswerInvQuiet
<1>8. CASE \/ StopGeneration \/ CancelRun \/ \E failed \in BOOLEAN : StopReturns(failed)
           \/ \E u \in Uploads : PickFile(u) \/ UploadEnds(u, TRUE) \/ UploadEnds(u, FALSE)
           \/ ClickClear \/ UNCHANGED vars
  BY <1>7, <1>8 DEF StopGeneration, CancelRun, StopReturns, PickFile, UploadEnds, ClickClear, vars, streamVars,
                    pageVars
<1>9. ASSUME NEW l \in Views, ReadTask(l) \/ AttachmentsLoaded(l) \/ LoadFails(l) PROVE AnswerInv'
  <2>1. UNCHANGED <<server, wire, client, into, body, view, visit>>
    BY <1>9 DEF ReadTask, AttachmentsLoaded, LoadFails, streamVars, pageVars
  <2>2. PageTyped
    BY PageIsTyped DEF ShownInv
  <2>3. /\ load[l].at \in {"asked", "read"}
        /\ \A m \in Views : m # l => load'[m] = load[m]
    BY <1>9, <2>2 DEF ReadTask, AttachmentsLoaded, LoadFails, PageTyped
  <2>4. \A m \in Views : /\ load'[m].at # "over" => load[m].at # "over"
                         /\ load[m].at = "none" => load'[m].at = "none"
    BY <2>3
  <2>5. LoadsGoOn
    BY <1>0, <2>1, <2>4 DEF LoadsGoOn
  <2> QED BY <2>1, <2>5, AnswerInvQuiet
<1> QED BY <1>1, <1>2, <1>3, <1>4, <1>5, <1>6, <1>8, <1>9, <1>10, <1>11 DEF Next

(* An answer is shown of a run that has one, and a stream that was read to *)
(* its end, past the result of its run, leaves the answer and no draft:    *)
(* nothing that is clicked, continued or loaded later takes it away.       *)
THEOREM AnswersAreShown == Spec => []AnswerIsShown
<1>1. Init => ShownInv
  BY TypedInvInit, AnswerInvInit DEF ShownInv
<1>2. ShownInv /\ [Next]_vars => ShownInv'
  BY TypedInvNext, AnswerInvNext DEF ShownInv
<1>3. ShownInv => AnswerIsShown
  BY DEF ShownInv, AnswerInv, AnswersEnded, ReadShown, Read, Shows, AnswerIsShown
<1> QED BY <1>1, <1>2, <1>3, PTL DEF Spec
=============================================================================
