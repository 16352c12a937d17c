--------------------------- MODULE RunProperties ---------------------------
(***************************************************************************)
(* What the control plane guarantees about conversations and runs, whoever *)
(* calls it in whatever order, and the claims of the documentation that    *)
(* its code does not keep.                                                 *)
(***************************************************************************)
EXTENDS ControlPlane

-----------------------------------------------------------------------------
(* Invariants                                                              *)

(* A task never has two runs that are running or interrupted: BeginRun     *)
(* refuses a second one and no other transaction makes a run active.       *)
OneActiveRun ==
  \A t \in Tasks : \A r, q \in ActiveRuns(t) : r = q

(* An assistant message stands directly below the question of its own run, *)
(* and a run has one exactly when it completed or failed: the final commit *)
(* inserts the message and sets the status in one transaction.             *)
AnswerBelowQuestion ==
  /\ \A t \in Tasks : \A i \in DOMAIN messages[t] :
       messages[t][i].role = "assistant" =>
         i > 1 /\ messages[t][i - 1] = Question(messages[t][i].run)
  /\ \A r \in StoredRuns :
       (runs[r].status \in Finished) <=>
         \E i \in DOMAIN messages[runs[r].task] :
           messages[runs[r].task][i] = Answer(r)

(* The stored events of an attempt are numbered 1, 2, ... without gap or   *)
(* repetition, and next_event_seq of the run continues the current one.    *)
EventsContiguous ==
  /\ \A d, e \in events :
       d.run = e.run /\ d.attempt = e.attempt /\ d.seq = e.seq => d = e
  /\ \A e \in events : \A s \in 1..e.seq :
       \E d \in events : d.run = e.run /\ d.attempt = e.attempt /\ d.seq = s
  /\ \A r \in StoredRuns : \A s \in 1..MaxEvents :
       (s < runs[r].next) <=>
         \E e \in events : e.run = r /\ e.attempt = runs[r].attempt /\ e.seq = s

(* Nothing is stored after the event that ends an attempt, and only the    *)
(* current attempt of a run that completed or failed ends with a result.   *)
AttemptEndsOnce ==
  \A e \in events : e.type # "progress" =>
    /\ \A d \in events : d.run = e.run /\ d.attempt = e.attempt => d.seq <= e.seq
    /\ e.type \in Finished =>
         runs[e.run].attempt = e.attempt /\ runs[e.run].status = e.type

(* The context an answer names was frozen before the first attempt ran:    *)
(* earlier messages of the task and memories as they stood when the        *)
(* question was asked.  Neither a later turn of the task nor the answer    *)
(* itself can leak into it, however often the run is resumed.              *)
GroundedAnswer ==
  \A r \in StoredRuns : runs[r].status \in Finished =>
    \A c \in runs[r].cited :
      \/ c \in Memories /\ memorySnap[r][1][c] # 0
      \/ \E i, j \in DOMAIN messages[runs[r].task] :
           /\ i < j
           /\ messages[runs[r].task][i] = c
           /\ messages[runs[r].task][j] = Question(r)

(* A client is shown an answer only after the answer was committed.        *)
ShownIsCommitted ==
  \A r \in shown : runs[r].status \in Finished \cup {"deleted"}

(* A key names the one run that its request began: two keys never share a  *)
(* run, the run's task is the one the request asked for, and a replaying   *)
(* request is answered with the run of its own body.                       *)
KeysNameTheirRun ==
  /\ \A k \in Keys : idempotency[k] # NoEntry =>
       LET entry == idempotency[k] IN
       /\ entry.run \in StoredRuns
       /\ runs[entry.run].body = entry.body
       /\ entry.body \in {NoTask, runs[entry.run].task}
       /\ \A l \in Keys \ {k} : idempotency[l] # NoEntry => idempotency[l].run # entry.run
  /\ \A h \in Requests : ~At(h, "idle") =>
       runs[req[h].run].status = "deleted" \/ runs[req[h].run].body = req[h].body

(* A run begun through BeginRun stays reachable through its key for as     *)
(* long as it is stored, so that a retry never executes a question twice.  *)
RetryFindsRun ==
  \A r \in StoredRuns : \E k \in Keys : idempotency[k] # NoEntry /\ idempotency[k].run = r

-----------------------------------------------------------------------------
(* Action properties                                                       *)

(* A run that completed, failed or was cancelled is never touched again,   *)
(* by a late event, a stale handler, a resume or a cancel; only the        *)
(* deletion of its task removes it.                                        *)
TerminalIsFinal ==
  [][\A r \in Runs : runs[r].status \in Terminal =>
       runs'[r] = runs[r] \/ runs'[r].status = "deleted"]_vars

(* A new attempt starts only from an interrupted run, with an empty log    *)
(* and the context frozen for the attempt before it: the same messages and *)
(* the same memories, which are those of the moment the question was       *)
(* asked.  However often they were edited, added or deleted meanwhile, it  *)
(* is given them only if each is still stored as it was frozen.            *)
ResumeKeepsContext ==
  [][\A r \in Runs : runs[r].attempt > 0 /\ runs'[r].attempt > runs[r].attempt =>
       LET a == runs[r].attempt IN
       /\ runs[r].status = "interrupted" /\ runs'[r].status = "running"
       /\ runs'[r].attempt = a + 1
       /\ \A e \in events' : e.run = r => e.attempt <= a
       /\ execution'[r][a + 1].recent = execution[r][a].recent
       /\ execution'[r][a + 1].memory = execution[r][a].memory
       /\ execution[r][a].memory = memorySnap[r][1] /\ memorySnap'[r][a + 1] = memorySnap[r][1]
       /\ \A m \in Memories : memorySnap[r][1][m] # 0 =>
            m \in Stored /\ memory[m].rev = memorySnap[r][1][m]]_vars

-----------------------------------------------------------------------------
(* Refinement                                                              *)

OpenTurn(t) ==
  IF ActiveRuns(t) = {} THEN NoRun ELSE CHOOSE r \in ActiveRuns(t) : TRUE

Reading == INSTANCE Conversation WITH
  Topics <- Tasks, Turns <- Runs, NoTurn <- NoRun,
  status <- tasks, transcript <- messages, open <- [t \in Tasks |-> OpenTurn(t)]

(* The tasks, messages and runs of the store, with all their attempts and  *)
(* requests, implement plain conversations.                                *)
ImplementsConversations == Reading!ConversationSpec

-----------------------------------------------------------------------------
(* Liveness                                                                *)

(* A running run whose stream is being read does not stay running: its     *)
(* handler settles it, even if the client is gone, unless the process is   *)
(* restarted meanwhile.                                                    *)
StreamedRunSettles ==
  \A h \in Requests, r \in Runs, n \in 0..MaxRestarts :
    (At(h, "stream") /\ req[h].run = r /\ runs[r].status = "running" /\ restarts = n)
      ~> (runs[r].status # "running" \/ restarts > n)

-----------------------------------------------------------------------------
(* Claims of the documentation the code does not keep                      *)

(* docs/architecture/overview.md:66: only the current attempt is accepted  *)
(* and a stale executor is refused.  A handler whose attempt was           *)
(* superseded nevertheless interrupts the attempt that replaced it.        *)
OnlyOwnAttemptSettled ==
  [][\A h \in Requests : At(h, "settle") /\ ~At(h, "settle")' /\ runs' # runs =>
       runs[req[h].run].attempt = req[h].attempt]_vars
=============================================================================
