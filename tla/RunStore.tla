------------------------------ MODULE RunStore ------------------------------
(***************************************************************************)
(* The conversation tables of the control plane's SQLite store and the     *)
(* transactions that change them (internal/infra/control_store.go).  All   *)
(* rows belong to one owner: every query of the code is scoped by owner.   *)
(* The store opens transactions with _txlock=immediate, so one transaction *)
(* is one action; RunExecution is not a transaction and is split where the *)
(* code reads and where it inserts.  A transaction that answers with an    *)
(* error rolls back: its conditions are guards here, and ControlPlane says *)
(* what the caller does when they do not hold.                             *)
(*                                                                         *)
(* Ids are random and never issued twice: a row of tasks or runs is        *)
(* "unissued" before its insertion and "deleted" after the cascade.        *)
(***************************************************************************)
EXTENDS MemoryStore, Sequences

CONSTANTS
  Tasks, Runs,
  Keys,          (* Idempotency-Key values (a missing header is a fresh one) *)
  NoTask,        (* the task_id of a chat request that opens a new task    *)
  NoEntry,       (* an idempotency key without a row                       *)
  NoSnapshot,    (* an attempt without a frozen execution snapshot         *)
  MaxAttempts,   (* bound on attempt_id                                    *)
  MaxEvents,     (* bound on event_seq within an attempt                   *)
  ContextLimit   (* messages RunExecution copies (50 in the code)          *)

ASSUME RunStoreAssumption ==
  /\ MaxAttempts \in Nat \ {0}
  /\ MaxEvents \in Nat \ {0}
  /\ ContextLimit \in Nat
  /\ NoTask \notin Tasks
  /\ NoEntry \notin [body : Tasks \cup {NoTask}, run : Runs]

VARIABLES
  tasks,         (* status of every task id                                *)
  messages,      (* the rows of messages, per task in order of insertion   *)
  runs,          (* conversation_runs                                      *)
  events,        (* run_attempt_events                                     *)
  execution,     (* control_run_execution_snapshots, by run and attempt    *)
  memorySnap,    (* control_run_memory_snapshots, by run and attempt       *)
  idempotency    (* control_idempotency                                    *)

runVars == <<tasks, messages, runs, events, execution, memorySnap, idempotency>>
storeVars == <<runVars, memoryVars>>

-----------------------------------------------------------------------------
Attempts == 1..MaxAttempts
RowStatus == {"unissued", "stored", "deleted"}

Message == [run : Runs, role : {"user", "assistant"}]
Question(r) == [run |-> r, role |-> "user"]
Answer(r) == [run |-> r, role |-> "assistant"]

(* What a result may name as context: messages, and the source messages of *)
(* account memories, which the memory's id stands for.                     *)
Citable == Message \cup Memories

(* Faulty: an interrupted run does not block its task.                     *)
ActiveIfRunning == {"running", "cancel_requested"}

(* Run.Terminal, and the statuses BeginRun counts as active.  The store    *)
(* never writes "cancel_requested", "timed_out" or "budget_exhausted".     *)
Terminal == {"cancelled", "timed_out", "budget_exhausted", "completed", "failed"}
Active == {"running", "interrupted", "cancel_requested"}
Finished == {"completed", "failed"}
RunStatus == {"unissued", "deleted", "running", "interrupted", "cancelled"} \cup Finished

(* Every event type but "interrupted" and "result_proposal" only extends   *)
(* the log: "progress" stands for them.  A result proposal is named by the *)
(* status it proposes.                                                     *)
EventTypes == {"progress", "interrupted"} \cup Finished
Event == [run : Runs, attempt : Attempts, seq : 1..MaxEvents, type : EventTypes]

Revisions == [Memories -> 0..MaxRevision]
Snapshot == [recent : SUBSET Message, memory : Revisions, resume : BOOLEAN]
Bodies == Tasks \cup {NoTask}

RunRow ==
  [status  : RunStatus,
   task    : Tasks \cup {NoTask},
   body    : Bodies,
   attempt : 0..MaxAttempts,
   next    : 0..(MaxEvents + 1),
   cited   : SUBSET Citable]

RunStoreTypeOK ==
  /\ MemoryTypeOK
  /\ tasks \in [Tasks -> RowStatus]
  /\ messages \in [Tasks -> Seq(Message)]
  /\ runs \in [Runs -> RunRow]
  /\ events \in SUBSET Event
  /\ execution \in [Runs -> [Attempts -> Snapshot \cup {NoSnapshot}]]
  /\ memorySnap \in [Runs -> [Attempts -> Revisions]]
  /\ idempotency \in [Keys -> [body : Bodies, run : Runs] \cup {NoEntry}]

NoRow(status) ==
  [status |-> status, task |-> NoTask, body |-> NoTask,
   attempt |-> 0, next |-> 0, cited |-> {}]
NoRevisions == [m \in Memories |-> 0]

RunStoreInit ==
  /\ MemoryInit
  /\ tasks = [t \in Tasks |-> "unissued"]
  /\ messages = [t \in Tasks |-> <<>>]
  /\ runs = [r \in Runs |-> NoRow("unissued")]
  /\ events = {}
  /\ execution = [r \in Runs |-> [a \in Attempts |-> NoSnapshot]]
  /\ memorySnap = [r \in Runs |-> [a \in Attempts |-> NoRevisions]]
  /\ idempotency = [k \in Keys |-> NoEntry]

StoredRuns == {r \in Runs : runs[r].status \notin {"unissued", "deleted"}}
ActiveRuns(t) == {r \in Runs : runs[r].task = t /\ runs[r].status \in Active}

(* The runs that go with their task; faulty: unless they are active.       *)
EndedRunsOf(t) == {r \in Runs : runs[r].task = t} \ ActiveRuns(t)
RunsOf(t) == {r \in Runs : runs[r].task = t}

-----------------------------------------------------------------------------
(* A key is good for one run; faulty: its row is overwritten.              *)
Reclaimable(k) == k \in Keys
Unclaimed(k) == idempotency[k] = NoEntry

(* BeginRun for a key without a row: a new task, or a stored one without   *)
(* an active run; the question, the run, the memory snapshot and the       *)
(* idempotency row are inserted together.                                  *)
BeginRun(k, body, r, t) ==
  /\ Unclaimed(k)
  /\ runs[r].status = "unissued"
  /\ \/ body = NoTask /\ tasks[t] = "unissued"
     \/ body = t /\ tasks[t] = "stored" /\ ActiveRuns(t) = {}
  /\ tasks' = [tasks EXCEPT ![t] = "stored"]
  /\ messages' = [messages EXCEPT ![t] = Append(@, Question(r))]
  /\ runs' = [runs EXCEPT ![r] =
       [status |-> "running", task |-> t, body |-> body,
        attempt |-> 1, next |-> 1, cited |-> {}]]
  /\ memorySnap' = [memorySnap EXCEPT ![r][1] = snapshotMemories]
  /\ idempotency' = [idempotency EXCEPT ![k] = [body |-> body, run |-> r]]
  /\ UNCHANGED <<events, execution, memoryVars>>

(* Faulty: the run's own question is part of its context.                  *)
AllMessages(r) ==
  IF r \notin StoredRuns THEN {}
  ELSE {messages[runs[r].task][i] : i \in DOMAIN messages[runs[r].task]}

(* The messages RunExecution copies: the last ContextLimit of the task     *)
(* other than the run's own question.                                      *)
RecentMessages(r) ==
  LET log    == messages[runs[r].task]
      others == {i \in DOMAIN log : log[i] # Question(r)}
  IN  IF r \notin StoredRuns THEN {}
      ELSE {log[i] : i \in {j \in others :
              Cardinality({k \in others : k > j}) < ContextLimit}}

BuiltSnapshot(r, a, recent) ==
  [recent |-> recent, memory |-> memorySnap[r][a], resume |-> FALSE]

(* INSERT OR IGNORE: the foreign key demands the run, a snapshot already   *)
(* there is kept.                                                          *)
InsertSnapshot(r, a, recent) ==
  /\ r \in StoredRuns
  /\ execution' = [execution EXCEPT ![r][a] =
       IF @ = NoSnapshot THEN BuiltSnapshot(r, a, recent) ELSE @]
  /\ UNCHANGED <<tasks, messages, runs, events, memorySnap, idempotency, memoryVars>>

(* The context a proposal of attempt a may name; faulty: with the memories *)
(* as they are now.                                                        *)
AllowedContextNow(r, a) ==
  execution[r][a].recent \cup {m \in Memories : Usable(m)}
AllowedContext(r, a) ==
  execution[r][a].recent \cup {m \in Memories : execution[r][a].memory[m] # 0}

(* Only a running run takes events; faulty: an interrupted one, too, or    *)
(* whatever its status.                                                    *)
TakesEventsUntilEnd(r) == runs[r].status \notin Terminal
TakesAnyEvent(r) == r \in StoredRuns
TakesEvents(r) == runs[r].status = "running"

(* The event is the next one of its attempt, and not there yet; faulty:    *)
(* events may be skipped.                                                  *)
Later(r, a, seq) == seq >= runs[r].next
InOrder(r, a, seq) ==
  /\ ~ \E e \in events : e.run = r /\ e.attempt = a /\ e.seq = seq
  /\ seq = runs[r].next

(* ApplyRunEvent accepts the next event of the current attempt of a        *)
(* running run; a result proposal needs the frozen snapshot and may only   *)
(* name context of that snapshot.                                          *)
Accepts(r, a, seq, type, cites) ==
  /\ r \in StoredRuns
  /\ a = runs[r].attempt
  /\ TakesEvents(r)
  /\ InOrder(r, a, seq)
  /\ type \in Finished =>
       /\ execution[r][a] # NoSnapshot
       /\ cites \subseteq AllowedContext(r, a)

ApplyRunEvent(r, a, seq, type, cites) ==
  /\ Accepts(r, a, seq, type, cites)
  /\ events' = events \cup {[run |-> r, attempt |-> a, seq |-> seq, type |-> type]}
  /\ runs' = [runs EXCEPT
       ![r].next   = @ + 1,
       ![r].status = IF type = "progress" THEN @ ELSE type,
       ![r].cited  = IF type \in Finished THEN cites ELSE @]
  /\ messages' = IF type \in Finished
                 THEN [messages EXCEPT ![runs[r].task] = Append(@, Answer(r))]
                 ELSE messages
  /\ UNCHANGED <<tasks, execution, memorySnap, idempotency, memoryVars>>

(* InterruptRun of a run that has ended or is interrupted changes nothing. *)
InterruptRun(r, a) ==
  /\ r \in StoredRuns
  /\ runs[r].attempt = a
  /\ runs[r].status \notin Terminal \cup {"interrupted"}
  /\ runs' = [runs EXCEPT ![r].status = "interrupted"]
  /\ UNCHANGED <<tasks, messages, events, execution, memorySnap, idempotency, memoryVars>>

(* Faulty: the request to cancel is recorded for the executor to find.     *)
RequestCancel(r) ==
  /\ r \in StoredRuns
  /\ runs[r].status \notin Terminal
  /\ runs' = [runs EXCEPT ![r].status = "cancel_requested"]
  /\ UNCHANGED <<tasks, messages, events, execution, memorySnap, idempotency, memoryVars>>

CancelRun(r) ==
  /\ r \in StoredRuns
  /\ runs[r].status \notin Terminal
  /\ runs' = [runs EXCEPT ![r].status = "cancelled"]
  /\ UNCHANGED <<tasks, messages, events, execution, memorySnap, idempotency, memoryVars>>

(* Faulty: a cancelled run can be resumed.                                 *)
ResumableAfterCancel(r) == runs[r].status \in {"interrupted", "cancelled"}
Resumable(r) == runs[r].status = "interrupted"

(* What a new attempt is given; faulty: the memories as they are now.      *)
ResumedNow(r, a) == [execution[r][a] EXCEPT !.memory = snapshotMemories, !.resume = TRUE]
ResumedSnapshot(r, a) == [execution[r][a] EXCEPT !.resume = TRUE]

(* PrepareResume: an interrupted run with a frozen snapshot whose memories *)
(* are unchanged gets a new attempt with copies of both snapshots.         *)
PrepareResume(r) ==
  LET a == runs[r].attempt IN
  /\ Resumable(r)
  /\ a < MaxAttempts
  /\ execution[r][a] # NoSnapshot
  /\ SnapshotCurrent(memorySnap[r][a])
  /\ runs' = [runs EXCEPT
       ![r].status = "running", ![r].attempt = a + 1, ![r].next = 1]
  /\ memorySnap' = [memorySnap EXCEPT ![r][a + 1] = memorySnap[r][a]]
  /\ execution' = [execution EXCEPT ![r][a + 1] = ResumedSnapshot(r, a)]
  /\ UNCHANGED <<tasks, messages, events, idempotency, memoryVars>>

(* DELETE FROM tasks: messages, runs and everything that refers to a run   *)
(* go with the task (ON DELETE CASCADE).                                   *)
DeleteTask(t) ==
  LET gone == RunsOf(t) IN
  /\ tasks[t] = "stored"
  /\ tasks' = [tasks EXCEPT ![t] = "deleted"]
  /\ messages' = [messages EXCEPT ![t] = <<>>]
  /\ runs' = [r \in Runs |-> IF r \in gone THEN NoRow("deleted") ELSE runs[r]]
  /\ events' = {e \in events : e.run \notin gone}
  /\ execution' = [r \in Runs |->
       IF r \in gone THEN [a \in Attempts |-> NoSnapshot] ELSE execution[r]]
  /\ memorySnap' = [r \in Runs |->
       IF r \in gone THEN [a \in Attempts |-> NoRevisions] ELSE memorySnap[r]]
  /\ idempotency' = [k \in Keys |->
       IF idempotency[k] # NoEntry /\ idempotency[k].run \in gone
       THEN NoEntry ELSE idempotency[k]]
  /\ UNCHANGED memoryVars
=============================================================================
