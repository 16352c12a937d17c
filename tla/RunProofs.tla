------------------------------ MODULE RunProofs ------------------------------
(***************************************************************************)
(* Proofs about the control plane's runs, for every number of tasks, runs, *)
(* keys, memories and requests and every bound: types, and the safety of   *)
(* conversations and runs.  A step of a handler is a step of the store     *)
(* (NextIsStoreStep), so the invariants of the tables are proved           *)
(* transaction by transaction.  Then the event log, the keys, the frozen   *)
(* contexts and the answers: each property is strengthened to an invariant *)
(* that one transaction preserves; what a handler remembers between two    *)
(* transactions is part of it where it is used later.                      *)
(***************************************************************************)
EXTENDS RunProperties, TLAPS

(* Rows refer to rows that exist ...                                       *)
RowsLinked ==
  /\ \A r \in StoredRuns :
       /\ runs[r].task \in Tasks
       /\ tasks[runs[r].task] = "stored"
       /\ runs[r].attempt \in Attempts
       /\ runs[r].next \in Nat \ {0}
  /\ \A k \in Keys : idempotency[k] # NoEntry => idempotency[k].run \in StoredRuns

(* ... and a request past "idle" has begun, or resumed, a run.             *)
RequestsLinked ==
  \A h \in Requests : ~At(h, "idle") => req[h].run \in Runs /\ req[h].attempt \in Attempts

StoreInv == RunStoreTypeOK /\ RowsLinked
TypeInv == TypeOK /\ RowsLinked /\ RequestsLinked

(* The steps as the store sees them.                                       *)
StoreStep ==
  \/ \E k \in Keys, body \in Bodies, r \in Runs, t \in Tasks : BeginRun(k, body, r, t)
  \/ \E r \in Runs, a \in Attempts, recent \in SUBSET Message :
       InsertSnapshot(r, a, recent)
  \/ \E r \in Runs, a \in Attempts, seq \in 1..MaxEvents, type \in EventTypes,
        cites \in SUBSET Citable : ApplyRunEvent(r, a, seq, type, cites)
  \/ \E r \in Runs, a \in Attempts : InterruptRun(r, a)
  \/ \E r \in Runs : CancelRun(r)
  \/ \E r \in Runs : PrepareResume(r)
  \/ \E t \in Tasks : DeleteTask(t)
  \/ MemoryNext /\ UNCHANGED runVars
  \/ UNCHANGED storeVars

USE MemoryAssumption, RunStoreAssumption, ControlPlaneAssumption

(* Every step of a handler is one step of the store, or none.              *)
LEMMA NextIsStoreStep == TypeInv /\ [Next]_vars => StoreStep
<1> SUFFICES ASSUME TypeInv, [Next]_vars PROVE StoreStep
  OBVIOUS
<1> USE DEF StoreStep
<1>1. ASSUME NEW h \in Requests, NEW k \in Keys, NEW body \in Bodies,
             NEW r \in Runs, NEW t \in Tasks, Start(h, k, body, r, t)
      PROVE  StoreStep
  BY <1>1 DEF Start
<1>2. ASSUME NEW h \in Requests, NEW k \in Keys, NEW body \in Bodies, StartAgain(h, k, body)
      PROVE  StoreStep
  BY <1>2 DEF StartAgain
<1>3. ASSUME NEW h \in Requests, NEW r \in Runs, Resume(h, r)
      PROVE  StoreStep
  BY <1>3 DEF Resume
<1>4. ASSUME NEW h \in Requests, Advance(h)
      PROVE  StoreStep
  <2>1. CASE FreezeSnapshot(h)
    <3>1. req[h].attempt \in Attempts /\ req[h].recent \in SUBSET Message /\ req[h].run \in Runs
      BY <2>1 DEF FreezeSnapshot, TypeInv, TypeOK, RequestsLinked, RequestState, At, Attempts
    <3>2. InsertSnapshot(req[h].run, req[h].attempt, req[h].recent)
      BY <2>1 DEF FreezeSnapshot
    <3> QED
      BY <3>1, <3>2
  <2>2. CASE SettleInterrupts(h)
    <3>1. InterruptRun(req[h].run, req[h].settles)
      BY <2>2 DEF SettleInterrupts
    <3>2. req[h].run \in Runs /\ req[h].settles \in Attempts
      BY <3>1 DEF InterruptRun, TypeInv, RowsLinked, StoredRuns
    <3> QED
      BY <3>1, <3>2
  <2>3. CASE UNCHANGED storeVars
    BY <2>3
  <2> QED
    BY <1>4, <2>1, <2>2, <2>3
    DEF Advance, Announce, AnnounceFails, Replay, ReadSnapshot, FreezeFails, Deliver,
        DeliverFails, ReadOutcome, SettleFindsSettled
<1>5. ASSUME NEW h \in Requests, Stream(h)
      PROVE  StoreStep
  <2>1. PICK seq \in 1..MaxEvents, type \in EventTypes, cites \in SUBSET Citable :
          StreamEvent(h, seq, type, cites) \/ StreamRejects(h, seq, type, cites)
    BY <1>5 DEF Stream
  <2>2. CASE StreamEvent(h, seq, type, cites)
    <3>1. ApplyRunEvent(req[h].run, req[h].attempt, seq, type, cites)
      BY <2>2 DEF StreamEvent
    <3>2. req[h].run \in Runs /\ req[h].attempt \in Attempts
      BY <3>1 DEF ApplyRunEvent, Accepts, TakesEvents, InOrder, TypeInv, RowsLinked, StoredRuns
    <3> QED
      BY <3>1, <3>2
  <2>3. CASE StreamRejects(h, seq, type, cites)
    BY <2>3 DEF StreamRejects
  <2> QED
    BY <2>1, <2>2, <2>3
<1>6. ASSUME NEW h \in Requests, StreamEnds(h) \/ Disconnect(h)
      PROVE  StoreStep
  BY <1>6 DEF StreamEnds, Disconnect
<1>7. CASE \E r \in Runs : Cancel(r)
  BY <1>7 DEF Cancel
<1>8. CASE \E t \in Tasks : Delete(t)
  BY <1>8 DEF Delete
<1>9. CASE EditMemory
  BY <1>9 DEF EditMemory
<1>10. CASE Restart
  BY <1>10 DEF Restart
<1>11. CASE UNCHANGED vars
  BY <1>11 DEF vars
<1> QED
  BY <1>1, <1>2, <1>3, <1>4, <1>5, <1>6, <1>7, <1>8, <1>9, <1>10, <1>11 DEF Next
-----------------------------------------------------------------------------
(* Type correctness                                                        *)

LEMMA MemoryTypes == MemoryTypeOK /\ (MemoryNext \/ UNCHANGED memoryVars) => MemoryTypeOK'
<1> SUFFICES ASSUME MemoryTypeOK, MemoryNext \/ UNCHANGED memoryVars PROVE MemoryTypeOK'
  OBVIOUS
<1> USE DEF MemoryTypeOK, MemoryRow, Kinds, Expiries
<1>1. ASSUME NEW m \in Memories, NEW kind \in Kinds, NEW c \in Contents, NEW e \in Expiries,
             CreateMemory(m, kind, c, e)
      PROVE  MemoryTypeOK'
  BY <1>1 DEF CreateMemory
<1>2. ASSUME NEW m \in Memories, NEW rev \in 1..MaxRevision, NEW c \in Contents,
             NEW e \in {"keep", "never", "future"}, UpdateMemory(m, rev, c, e)
      PROVE  MemoryTypeOK'
  <2>1. memory[m] \in MemoryRow /\ rev + 1 \in 0..MaxRevision
    BY <1>2 DEF UpdateMemory
  <2>2. [memory[m] EXCEPT !.rev = rev + 1, !.content = c,
                          !.expires = IF e = "keep" THEN @ ELSE e] \in MemoryRow
    BY <2>1
  <2> QED
    BY <1>2, <2>2 DEF UpdateMemory
<1>3. ASSUME NEW m \in Memories, NEW rev \in 1..MaxRevision, ConfirmMemory(m, rev)
      PROVE  MemoryTypeOK'
  <2>1. memory[m] \in MemoryRow /\ rev + 1 \in 0..MaxRevision
    BY <1>3 DEF ConfirmMemory
  <2>2. [memory[m] EXCEPT !.rev = rev + 1, !.expires = "future"] \in MemoryRow
    BY <2>1
  <2>3. memory' = [memory EXCEPT ![m] =
                     [memory[m] EXCEPT !.rev = rev + 1, !.expires = "future"]]
    BY <1>3 DEF ConfirmMemory
  <2> QED
    BY <1>3, <2>2, <2>3 DEF ConfirmMemory
<1>4. ASSUME NEW m \in Memories, DeleteMemory(m) \/ ExpireMemory(m)
      PROVE  MemoryTypeOK'
  BY <1>4 DEF DeleteMemory, ExpireMemory, NoMemory
<1>5. CASE ClearMemories
  BY <1>5 DEF ClearMemories, NoMemory
<1>6. CASE \E enabled \in BOOLEAN : SetMemoryEnabled(enabled)
  BY <1>6 DEF SetMemoryEnabled
<1>7. CASE UNCHANGED memoryVars
  BY <1>7 DEF memoryVars
<1> QED
  BY <1>1, <1>2, <1>3, <1>4, <1>5, <1>6, <1>7 DEF MemoryNext

LEMMA SnapshotTypes == MemoryTypeOK => snapshotMemories \in Revisions
BY DEF MemoryTypeOK, MemoryRow, snapshotMemories, Revisions

(* Writing the columns of a run row keeps it one.                          *)
LEMMA RowTypes ==
  ASSUME NEW row \in RunRow, NEW status \in RunStatus, NEW attempt \in 0..MaxAttempts,
         NEW next \in 0..(MaxEvents + 1), NEW cited \in SUBSET Citable
  PROVE  [row EXCEPT !.status = status, !.attempt = attempt, !.next = next,
                     !.cited = cited] \in RunRow
BY DEF RunRow

(* The rows of a store, without the tables a step leaves alone.            *)
LEMMA RowsOfStore ==
  ASSUME StoreInv
  PROVE  /\ MemoryTypeOK
         /\ runs \in [Runs -> RunRow]
         /\ tasks \in [Tasks -> RowStatus]
         /\ messages \in [Tasks -> Seq(Message)]
         /\ events \in SUBSET Event
         /\ execution \in [Runs -> [Attempts -> Snapshot \cup {NoSnapshot}]]
         /\ memorySnap \in [Runs -> [Attempts -> Revisions]]
         /\ idempotency \in [Keys -> [body : Bodies, run : Runs] \cup {NoEntry}]
         /\ \A r \in StoredRuns : runs[r].task \in Tasks /\ tasks[runs[r].task] = "stored"
         /\ \A r \in StoredRuns : runs[r].attempt \in Attempts /\ runs[r].next \in Nat \ {0}
         /\ \A k \in Keys : idempotency[k] # NoEntry => idempotency[k].run \in StoredRuns
BY DEF StoreInv, RunStoreTypeOK, RowsLinked

(* A step that changes only columns of one stored run keeps the links.     *)
LEMMA RowUpdate ==
  ASSUME StoreInv, NEW r \in StoredRuns,
         \A q \in Runs \ {r} : runs'[q] = runs[q],
         runs'[r].status \notin {"unissued", "deleted"}, runs'[r].task = runs[r].task,
         runs'[r].attempt \in Attempts, runs'[r].next \in Nat \ {0},
         tasks' = tasks, idempotency' = idempotency
  PROVE  RowsLinked'
<1>1. \A q \in Runs : q \in StoredRuns' <=> q \in StoredRuns
  BY DEF StoredRuns
<1>2. \A q \in StoredRuns : /\ runs'[q].task = runs[q].task
                            /\ runs'[q].attempt \in Attempts
                            /\ runs'[q].next \in Nat \ {0}
  BY RowsOfStore DEF StoredRuns
<1> QED
  BY <1>1, <1>2, RowsOfStore DEF RowsLinked, StoredRuns

LEMMA BeginRunTypes ==
  ASSUME StoreInv, NEW k \in Keys, NEW body \in Bodies, NEW r \in Runs, NEW t \in Tasks,
         BeginRun(k, body, r, t)
  PROVE  StoreInv'
<1> DEFINE row == [status |-> "running", task |-> t, body |-> body,
                   attempt |-> 1, next |-> 1, cited |-> {}]
<1>1. 1 \in Attempts /\ 1 \in 0..MaxAttempts /\ 1 \in 0..(MaxEvents + 1)
  BY DEF Attempts
<1>2. row \in RunRow
  BY <1>1 DEF RunRow, RunStatus
<1>3. runs' = [runs EXCEPT ![r] = row] /\ runs' \in [Runs -> RunRow]
  BY <1>2, RowsOfStore DEF BeginRun
<1>4. /\ tasks' \in [Tasks -> RowStatus]
      /\ \A u \in Tasks : tasks[u] = "stored" \/ u = t => tasks'[u] = "stored"
  BY RowsOfStore DEF BeginRun, RowStatus
<1>5. messages' \in [Tasks -> Seq(Message)]
  <2>1. Question(r) \in Message
    BY DEF Question, Message
  <2>2. Append(messages[t], Question(r)) \in Seq(Message)
    BY <2>1, RowsOfStore
  <2> QED
    BY <2>2, RowsOfStore DEF BeginRun
<1>6. memorySnap' \in [Runs -> [Attempts -> Revisions]]
  BY <1>1, SnapshotTypes, RowsOfStore DEF BeginRun
<1>7. idempotency' = [idempotency EXCEPT ![k] = [body |-> body, run |-> r]]
  BY DEF BeginRun
<1>8. idempotency' \in [Keys -> [body : Bodies, run : Runs] \cup {NoEntry}]
  BY <1>7, RowsOfStore
<1>9. MemoryTypeOK'
  BY MemoryTypes, RowsOfStore DEF BeginRun
<1>10. \A q \in Runs : q \in StoredRuns' <=> q = r \/ q \in StoredRuns
  BY <1>3, RowsOfStore DEF StoredRuns
<1>11. \A q \in StoredRuns' : q \in Runs /\ runs'[q] = IF q = r THEN row ELSE runs[q]
  BY <1>3, RowsOfStore DEF StoredRuns
<1>12. \A l \in Keys : idempotency'[l] # NoEntry =>
         idempotency'[l].run = r \/ idempotency'[l] = idempotency[l]
  BY <1>7, RowsOfStore
<1>13. \A l \in Keys : idempotency'[l] # NoEntry => idempotency'[l].run \in StoredRuns'
  BY <1>10, <1>12, RowsOfStore DEF StoredRuns
<1>14. \A q \in StoredRuns' : /\ runs'[q].task \in Tasks
                               /\ tasks'[runs'[q].task] = "stored"
                               /\ runs'[q].attempt \in Attempts
                               /\ runs'[q].next \in Nat \ {0}
  <2> TAKE q \in StoredRuns'
  <2>1. CASE q = r
    BY <1>1, <1>4, <1>11, <2>1
  <2>2. CASE q # r
    <3>1. q \in StoredRuns /\ runs'[q] = runs[q]
      BY <1>10, <1>11, <2>2
    <3> QED
      BY <1>4, <3>1, RowsOfStore
  <2> QED
    BY <2>1, <2>2
<1>15. RowsLinked'
  BY <1>13, <1>14 DEF RowsLinked
<1> QED
  BY <1>3, <1>4, <1>5, <1>6, <1>8, <1>9, <1>15, RowsOfStore
  DEF StoreInv, RunStoreTypeOK, BeginRun

LEMMA InsertSnapshotTypes ==
  ASSUME StoreInv, NEW r \in Runs, NEW a \in Attempts, NEW recent \in SUBSET Message,
         InsertSnapshot(r, a, recent)
  PROVE  StoreInv'
<1>1. BuiltSnapshot(r, a, recent) \in Snapshot
  BY RowsOfStore DEF BuiltSnapshot, Snapshot
<1>2. execution' \in [Runs -> [Attempts -> Snapshot \cup {NoSnapshot}]]
  BY <1>1, RowsOfStore DEF InsertSnapshot
<1>3. MemoryTypeOK'
  BY MemoryTypes, RowsOfStore DEF InsertSnapshot
<1> QED
  BY <1>2, <1>3 DEF StoreInv, RunStoreTypeOK, RowsLinked, StoredRuns, InsertSnapshot

LEMMA ApplyRunEventTypes ==
  ASSUME StoreInv, NEW r \in Runs, NEW a \in Attempts, NEW seq \in 1..MaxEvents,
         NEW type \in EventTypes, NEW cites \in SUBSET Citable,
         ApplyRunEvent(r, a, seq, type, cites)
  PROVE  StoreInv'
<1> DEFINE status == IF type = "progress" THEN runs[r].status ELSE type
           cited == IF type \in Finished THEN cites ELSE runs[r].cited
           row == [runs[r] EXCEPT !.status = status, !.attempt = a, !.next = seq + 1,
                                  !.cited = cited]
<1>1. r \in StoredRuns /\ runs[r].status = "running" /\ runs[r].attempt = a /\ runs[r].next = seq
  BY DEF ApplyRunEvent, Accepts, TakesEvents, InOrder
<1>2. runs[r] \in RunRow
  BY RowsOfStore
<1>3. status \in RunStatus /\ status \notin {"unissued", "deleted"}
  BY <1>1 DEF EventTypes, RunStatus, Finished
<1>4. cited \in SUBSET Citable
  BY <1>2 DEF RunRow
<1>5. a \in 0..MaxAttempts /\ seq + 1 \in 0..(MaxEvents + 1) /\ seq + 1 \in Nat \ {0}
  BY DEF Attempts
<1>6. row \in RunRow
  <2> HIDE DEF status, cited
  <2> QED
    BY <1>2, <1>3, <1>4, <1>5, RowTypes
<1>7. runs' = [runs EXCEPT ![r] = row]
  BY <1>1, <1>2, RowsOfStore, ZenonT(40) DEF ApplyRunEvent, RunRow
<1>8. row.status = status /\ row.task = runs[r].task /\ row.attempt = a /\ row.next = seq + 1
  BY <1>2 DEF RunRow
<1>9. runs' \in [Runs -> RunRow] /\ RowsLinked'
  <2>1. /\ runs' \in [Runs -> RunRow]
        /\ runs'[r] = row
        /\ \A q \in Runs \ {r} : runs'[q] = runs[q]
    <3> HIDE DEF row
    <3> QED
      BY <1>6, <1>7, RowsOfStore
  <2>2. tasks' = tasks /\ idempotency' = idempotency
    BY DEF ApplyRunEvent
  <2> HIDE DEF row, status
  <2> QED
    BY <1>1, <1>3, <1>5, <1>8, <2>1, <2>2, RowUpdate
<1>10. messages' \in [Tasks -> Seq(Message)]
  <2>1. Answer(r) \in Message
    BY DEF Answer, Message
  <2>2. Append(messages[runs[r].task], Answer(r)) \in Seq(Message)
    BY <1>1, <2>1, RowsOfStore
  <2> QED
    BY <2>2, RowsOfStore DEF ApplyRunEvent
<1>11. events' \in SUBSET Event
  BY RowsOfStore DEF ApplyRunEvent, Event
<1>12. MemoryTypeOK'
  BY MemoryTypes, RowsOfStore DEF ApplyRunEvent
<1> QED
  BY <1>9, <1>10, <1>11, <1>12, RowsOfStore DEF StoreInv, RunStoreTypeOK, ApplyRunEvent

(* InterruptRun and CancelRun write the status only.                       *)
LEMMA StatusTypes ==
  ASSUME StoreInv, NEW r \in StoredRuns, NEW status \in {"interrupted", "cancelled"},
         runs' = [runs EXCEPT ![r].status = status],
         UNCHANGED <<tasks, messages, events, execution, memorySnap, idempotency, memoryVars>>
  PROVE  StoreInv'
<1> DEFINE row == [runs[r] EXCEPT !.status = status]
<1>1. r \in Runs /\ runs[r] \in RunRow /\ runs' = [runs EXCEPT ![r] = row]
  BY RowsOfStore DEF StoredRuns
<1>2. row \in RunRow
  BY <1>1 DEF RunRow, RunStatus
<1>3. /\ row.status = status /\ row.task = runs[r].task
      /\ row.attempt = runs[r].attempt /\ row.next = runs[r].next
  BY <1>1 DEF RunRow
<1>4. runs' \in [Runs -> RunRow] /\ RowsLinked'
  <2> HIDE DEF row
  <2>1. /\ runs' \in [Runs -> RunRow]
        /\ runs'[r] = row
        /\ \A q \in Runs \ {r} : runs'[q] = runs[q]
    <3>1. runs \in [Runs -> RunRow]
      BY RowsOfStore
    <3> QED
      BY <1>1, <1>2, <3>1
  <2> QED
    BY <1>3, <2>1, RowUpdate, RowsOfStore
<1>5. MemoryTypeOK'
  BY MemoryTypes, RowsOfStore
<1> QED
  BY <1>4, <1>5, RowsOfStore DEF StoreInv, RunStoreTypeOK

LEMMA PrepareResumeTypes ==
  ASSUME StoreInv, NEW r \in Runs, PrepareResume(r)
  PROVE  StoreInv'
<1> DEFINE a == runs[r].attempt
           b == a + 1
           one == 1
           row == [runs[r] EXCEPT !.status = "running", !.attempt = b, !.next = one]
           copy == [execution[r][a] EXCEPT !.resume = TRUE]
<1>1. r \in StoredRuns /\ runs[r] \in RunRow
  BY RowsOfStore DEF PrepareResume, Resumable, StoredRuns
<1>2. a \in Attempts /\ a < MaxAttempts
  BY <1>1, RowsOfStore DEF PrepareResume
<1>3. b \in Attempts /\ b \in 0..MaxAttempts
  BY <1>2 DEF Attempts
<1>4. one \in 0..(MaxEvents + 1) /\ one \in Nat \ {0}
  OBVIOUS
<1>5. runs' = [runs EXCEPT ![r] = row]
  BY DEF PrepareResume
<1>6. row \in RunRow
  <2> HIDE DEF b, one
  <2> QED
    BY <1>1, <1>3, <1>4 DEF RunRow, RunStatus
<1>7. row.status = "running" /\ row.task = runs[r].task /\ row.attempt = b /\ row.next = one
  <2> HIDE DEF b, one
  <2> QED
    BY <1>1 DEF RunRow
<1>8. runs' \in [Runs -> RunRow] /\ RowsLinked'
  <2>1. tasks' = tasks /\ idempotency' = idempotency
    BY DEF PrepareResume
  <2> HIDE DEF row, b, one
  <2>2. /\ runs' \in [Runs -> RunRow]
        /\ runs'[r] = row
        /\ \A q \in Runs \ {r} : runs'[q] = runs[q]
    <3>1. runs \in [Runs -> RunRow]
      BY RowsOfStore
    <3> QED
      BY <1>5, <1>6, <3>1
  <2> QED
    BY <1>1, <1>3, <1>4, <1>7, <2>1, <2>2, RowUpdate
<1>9. memorySnap' \in [Runs -> [Attempts -> Revisions]]
  BY <1>2, <1>3, RowsOfStore DEF PrepareResume
<1>10. execution[r][a] \in Snapshot
  BY <1>2, RowsOfStore DEF PrepareResume
<1>11. copy \in Snapshot
  BY <1>10 DEF Snapshot
<1>12. execution' \in [Runs -> [Attempts -> Snapshot \cup {NoSnapshot}]]
  BY <1>2, <1>3, <1>11, RowsOfStore DEF PrepareResume, ResumedSnapshot
<1>13. MemoryTypeOK'
  BY MemoryTypes, RowsOfStore DEF PrepareResume
<1> QED
  BY <1>8, <1>9, <1>12, <1>13, RowsOfStore DEF StoreInv, RunStoreTypeOK, PrepareResume

LEMMA DeleteTaskTypes ==
  ASSUME StoreInv, NEW t \in Tasks, DeleteTask(t)
  PROVE  StoreInv'
<1>1. NoRow("deleted") \in RunRow /\ NoRow("deleted").status = "deleted"
  BY DEF NoRow, RunRow, RunStatus, Bodies
<1>2. /\ runs' \in [Runs -> RunRow]
      /\ \A q \in Runs : runs'[q] = IF runs[q].task = t THEN NoRow("deleted") ELSE runs[q]
  <2> HIDE DEF NoRow
  <2> QED
    BY <1>1, RowsOfStore DEF DeleteTask, RunsOf
<1>3. \A q \in Runs : q \in StoredRuns' <=> q \in StoredRuns /\ runs[q].task # t
  BY <1>1, <1>2 DEF StoredRuns
<1>4. /\ tasks' \in [Tasks -> RowStatus]
      /\ \A u \in Tasks \ {t} : tasks'[u] = tasks[u]
  BY RowsOfStore DEF DeleteTask, RunsOf, RowStatus
<1>5. messages' \in [Tasks -> Seq(Message)] /\ events' \in SUBSET Event
  BY RowsOfStore DEF DeleteTask, RunsOf
<1>6. /\ execution' \in [Runs -> [Attempts -> Snapshot \cup {NoSnapshot}]]
      /\ memorySnap' \in [Runs -> [Attempts -> Revisions]]
  <2>1. NoRevisions \in Revisions
    BY DEF NoRevisions, Revisions
  <2> QED
    BY <2>1, RowsOfStore DEF DeleteTask, RunsOf
<1>7. /\ idempotency' \in [Keys -> [body : Bodies, run : Runs] \cup {NoEntry}]
      /\ \A k \in Keys : idempotency'[k] # NoEntry =>
           idempotency'[k] = idempotency[k] /\ runs[idempotency[k].run].task # t
  BY RowsOfStore DEF DeleteTask, RunsOf, StoredRuns
<1>8. \A k \in Keys : idempotency'[k] # NoEntry => idempotency'[k].run \in StoredRuns'
  BY <1>3, <1>7, RowsOfStore DEF StoredRuns
<1>9. \A q \in StoredRuns' : q \in StoredRuns /\ runs'[q] = runs[q] /\ runs[q].task # t
  BY <1>2, <1>3 DEF StoredRuns
<1>10. RowsLinked'
  BY <1>4, <1>8, <1>9, RowsOfStore DEF RowsLinked
<1>11. MemoryTypeOK'
  BY MemoryTypes, RowsOfStore DEF DeleteTask, RunsOf
<1> QED
  BY <1>2, <1>4, <1>5, <1>6, <1>7, <1>10, <1>11 DEF StoreInv, RunStoreTypeOK

(* Every step of the store keeps its tables well formed.                   *)
LEMMA StoreInvariant == StoreInv /\ StoreStep => StoreInv'
<1> SUFFICES ASSUME StoreInv, StoreStep PROVE StoreInv'
  OBVIOUS
<1>1. ASSUME NEW r \in Runs, NEW a \in Attempts, InterruptRun(r, a)
      PROVE  StoreInv'
  BY <1>1, StatusTypes DEF InterruptRun
<1>2. ASSUME NEW r \in Runs, CancelRun(r)
      PROVE  StoreInv'
  BY <1>2, StatusTypes DEF CancelRun
<1>3. CASE UNCHANGED runVars /\ (MemoryNext \/ UNCHANGED memoryVars)
  <2>1. MemoryTypeOK'
    BY <1>3, MemoryTypes, RowsOfStore
  <2> QED
    BY <1>3, <2>1 DEF runVars, StoreInv, RunStoreTypeOK, RowsLinked, StoredRuns
<1> QED
  BY <1>1, <1>2, <1>3, BeginRunTypes, InsertSnapshotTypes, ApplyRunEventTypes,
     PrepareResumeTypes, DeleteTaskTypes
  DEF StoreStep, storeVars

(* The handlers keep their own state well formed.                          *)
HandlerInv ==
  /\ req \in [Requests -> RequestState]
  /\ shown \in SUBSET Runs
  /\ restarts \in 0..MaxRestarts
  /\ RequestsLinked

LEMMA IdleTypes == Idle \in RequestState /\ Idle.pc = "idle"
BY DEF Idle, RequestState, Stages, Bodies, EventTypes

(* Start, StartAgain and Resume put a request to work.                     *)
LEMMA BegunTypes ==
  ASSUME HandlerInv, NEW h \in Requests, NEW pc \in Stages, NEW run \in Runs,
         NEW attempt \in Attempts, NEW body \in Bodies,
         req' = [req EXCEPT ![h] =
           [Idle EXCEPT !.pc = pc, !.run = run, !.attempt = attempt, !.body = body]],
         UNCHANGED <<shown, restarts>>
  PROVE  HandlerInv'
<1> DEFINE state ==
      [Idle EXCEPT !.pc = pc, !.run = run, !.attempt = attempt, !.body = body]
<1>1. state \in RequestState /\ state.run = run /\ state.attempt = attempt
  <2>1. attempt \in 0..MaxAttempts
    BY DEF Attempts
  <2> QED
    BY <2>1, IdleTypes DEF RequestState
<1>2. req' = [req EXCEPT ![h] = state]
  OBVIOUS
<1> HIDE DEF state
<1>3. /\ req' \in [Requests -> RequestState]
      /\ req'[h] = state
      /\ \A g \in Requests \ {h} : req'[g] = req[g]
  <2>1. req \in [Requests -> RequestState]
    BY DEF HandlerInv
  <2> QED
    BY <1>1, <1>2, <2>1
<1> QED
  BY <1>1, <1>3 DEF HandlerInv, RequestsLinked, At

(* A handler past "idle" goes on.                                          *)
LEMMA MovedTypes ==
  ASSUME HandlerInv, NEW h \in Requests, NEW pc \in Stages, ~At(h, "idle"),
         req' = [req EXCEPT ![h].pc = pc], UNCHANGED <<shown, restarts>>
  PROVE  HandlerInv'
BY DEF HandlerInv, RequestState, RequestsLinked, At

(* The row of a busy handler is replaced.                                  *)
LEMMA RequestTypes ==
  ASSUME HandlerInv, NEW h \in Requests, NEW row \in RequestState,
         row.pc = "idle" \/ (row.run \in Runs /\ row.attempt \in Attempts),
         req' = [req EXCEPT ![h] = row]
  PROVE  req' \in [Requests -> RequestState] /\ RequestsLinked'
<1>1. req' \in [Requests -> RequestState] /\ req'[h] = row
  BY DEF HandlerInv
<1>2. \A g \in Requests : g # h => req'[g] = req[g]
  BY DEF HandlerInv
<1> QED
  BY <1>1, <1>2 DEF HandlerInv, RequestsLinked, At

LEMMA BusyRow ==
  ASSUME HandlerInv, NEW h \in Requests, ~At(h, "idle")
  PROVE  req[h] \in RequestState /\ req[h].run \in Runs /\ req[h].attempt \in Attempts
BY DEF HandlerInv, RequestsLinked

LEMMA IdleRow ==
  ASSUME HandlerInv, NEW h \in Requests, req' = [req EXCEPT ![h] = Idle],
         UNCHANGED <<shown, restarts>>
  PROVE  HandlerInv'
BY IdleTypes DEF HandlerInv, RequestsLinked, At

LEMMA EventRow ==
  ASSUME NEW row \in RequestState, NEW pc \in Stages, NEW event \in EventTypes
  PROVE  /\ [row EXCEPT !.pc = pc, !.event = event] \in RequestState
         /\ [row EXCEPT !.pc = pc, !.event = event].run = row.run
         /\ [row EXCEPT !.pc = pc, !.event = event].attempt = row.attempt
BY DEF RequestState

LEMMA SettleRow ==
  ASSUME NEW row \in RequestState, NEW pc \in Stages, NEW attempt \in 0..MaxAttempts
  PROVE  /\ [row EXCEPT !.pc = pc, !.settles = attempt] \in RequestState
         /\ [row EXCEPT !.pc = pc, !.settles = attempt].run = row.run
         /\ [row EXCEPT !.pc = pc, !.settles = attempt].attempt = row.attempt
BY DEF RequestState

LEMMA RecentRow ==
  ASSUME NEW row \in RequestState, NEW pc \in Stages, NEW recent \in SUBSET Message
  PROVE  /\ [row EXCEPT !.pc = pc, !.recent = recent] \in RequestState
         /\ [row EXCEPT !.pc = pc, !.recent = recent].run = row.run
         /\ [row EXCEPT !.pc = pc, !.recent = recent].attempt = row.attempt
BY DEF RequestState

LEMMA EventMovedTypes ==
  ASSUME HandlerInv, NEW h \in Requests, NEW pc \in Stages, NEW event \in EventTypes,
         ~At(h, "idle"), req' = [req EXCEPT ![h].pc = pc, ![h].event = event]
  PROVE  req' \in [Requests -> RequestState] /\ RequestsLinked'
<1>1. PICK old : old = req[h]
  OBVIOUS
<1>2. old \in RequestState /\ old.run \in Runs /\ old.attempt \in Attempts
  BY <1>1, BusyRow
<1>3. PICK row : row = [old EXCEPT !.pc = pc, !.event = event]
  OBVIOUS
<1>4. row \in RequestState /\ row.run \in Runs /\ row.attempt \in Attempts
  BY <1>2, <1>3, EventRow
<1>5. req' = [req EXCEPT ![h] = row]
  BY <1>1, <1>3 DEF HandlerInv
<1> QED
  BY <1>4, <1>5, RequestTypes

LEMMA SettleMovedTypes ==
  ASSUME HandlerInv, NEW h \in Requests, NEW pc \in Stages, NEW attempt \in 0..MaxAttempts,
         ~At(h, "idle"),
         req' = [req EXCEPT ![h] = [req[h] EXCEPT !.pc = pc, !.settles = attempt]]
  PROVE  req' \in [Requests -> RequestState] /\ RequestsLinked'
<1>1. PICK old : old = req[h]
  OBVIOUS
<1>2. old \in RequestState /\ old.run \in Runs /\ old.attempt \in Attempts
  BY <1>1, BusyRow
<1>3. PICK row : row = [old EXCEPT !.pc = pc, !.settles = attempt]
  OBVIOUS
<1>4. row \in RequestState /\ row.run \in Runs /\ row.attempt \in Attempts
  BY <1>2, <1>3, SettleRow
<1>5. req' = [req EXCEPT ![h] = row]
  BY <1>1, <1>3
<1> QED
  BY <1>4, <1>5, RequestTypes

LEMMA RecentTypes == ASSUME StoreInv, NEW r PROVE RecentMessages(r) \in SUBSET Message
<1>1. CASE r \in StoredRuns
  <2>1. messages[runs[r].task] \in Seq(Message)
    BY <1>1, RowsOfStore
  <2>2. \A i \in DOMAIN messages[runs[r].task] : messages[runs[r].task][i] \in Message
    BY <2>1
  <2> QED
    BY <1>1, <2>2, Zenon DEF RecentMessages
<1> QED
  BY <1>1 DEF RecentMessages

(* The stages of a handler.                                                *)
LEMMA AdvanceTypes ==
  ASSUME StoreInv, HandlerInv, NEW h \in Requests, Advance(h)
  PROVE  HandlerInv'
<1>1. CASE Announce(h)
  <2>1. "snapshot" \in Stages
    BY DEF Stages
  <2> QED
    BY <1>1, <2>1, MovedTypes DEF Announce, Goto, At
<1>2. CASE AnnounceFails(h) \/ FreezeFails(h) \/ SettleFindsSettled(h)
  BY <1>2, IdleTypes DEF AnnounceFails, FreezeFails, SettleFindsSettled, Return, HandlerInv, RequestsLinked, At
<1>3. CASE Replay(h)
  BY <1>3, IdleTypes DEF Replay, Return, HandlerInv, RequestsLinked, At
<1>4. CASE ReadSnapshot(h)
  <2>1. ~At(h, "idle") /\ UNCHANGED <<shown, restarts>>
    BY <1>4 DEF ReadSnapshot, At
  <2>2. PICK old : old = req[h]
    OBVIOUS
  <2>3. old \in RequestState /\ old.run \in Runs /\ old.attempt \in Attempts
    BY <2>1, <2>2, BusyRow
  <2>4. PICK recent : recent = RecentMessages(old.run)
    OBVIOUS
  <2>5. recent \in SUBSET Message /\ "insert" \in Stages /\ "stream" \in Stages
    BY <2>4, RecentTypes DEF Stages
  <2>6. PICK insert : insert = [old EXCEPT !.pc = "insert", !.recent = recent]
    OBVIOUS
  <2>7. insert \in RequestState /\ insert.run \in Runs /\ insert.attempt \in Attempts
    BY <2>3, <2>5, <2>6, RecentRow
  <2>8. \/ req' = [req EXCEPT ![h] = Idle]
        \/ req' = [req EXCEPT ![h].pc = "stream"]
        \/ req' = [req EXCEPT ![h] = insert]
    BY <1>4, <2>2, <2>4, <2>6 DEF ReadSnapshot
  <2>9. req' = [req EXCEPT ![h] = Idle] => HandlerInv'
    BY <2>1, IdleRow
  <2>10. req' = [req EXCEPT ![h].pc = "stream"] => HandlerInv'
    BY <2>1, <2>5, MovedTypes
  <2>11. req' = [req EXCEPT ![h] = insert] => req' \in [Requests -> RequestState] /\ RequestsLinked'
    BY <2>7, RequestTypes
  <2>12. shown' \in SUBSET Runs /\ restarts' \in 0..MaxRestarts
    BY <2>1 DEF HandlerInv
  <2> QED
    BY <2>8, <2>9, <2>10, <2>11, <2>12 DEF HandlerInv
<1>5. CASE FreezeSnapshot(h)
  <2>1. ~At(h, "idle") /\ UNCHANGED <<shown, restarts>>
    BY <1>5 DEF FreezeSnapshot, At
  <2>2. PICK old : old = req[h]
    OBVIOUS
  <2>3. old \in RequestState /\ old.run \in Runs /\ old.attempt \in Attempts
    BY <2>1, <2>2, BusyRow
  <2>4. PICK stream : stream = [old EXCEPT !.pc = "stream", !.recent = {}]
    OBVIOUS
  <2>5. stream \in RequestState /\ stream.run \in Runs /\ stream.attempt \in Attempts
    <3>1. PICK none : none = {}
      OBVIOUS
    <3>2. none \in SUBSET Message /\ "stream" \in Stages
      BY <3>1 DEF Stages
    <3> QED
      BY <2>3, <2>4, <3>1, <3>2, RecentRow
  <2>6. req' = [req EXCEPT ![h] = Idle] \/ req' = [req EXCEPT ![h] = stream]
    BY <1>5, <2>2, <2>4 DEF FreezeSnapshot
  <2>7. req' = [req EXCEPT ![h] = Idle] => HandlerInv'
    BY <2>1, IdleRow
  <2>8. req' = [req EXCEPT ![h] = stream] => req' \in [Requests -> RequestState] /\ RequestsLinked'
    BY <2>5, RequestTypes
  <2>9. shown' \in SUBSET Runs /\ restarts' \in 0..MaxRestarts
    BY <2>1 DEF HandlerInv
  <2> QED
    BY <2>6, <2>7, <2>8, <2>9 DEF HandlerInv
<1>6. CASE Deliver(h)
  <2>1. "stream" \in Stages /\ "progress" \in EventTypes /\ ~At(h, "idle")
    BY <1>6 DEF Deliver, Stages, EventTypes, At
  <2>2. req' = [req EXCEPT ![h].pc = "stream", ![h].event = "progress"]
    BY <1>6 DEF Deliver
  <2>3. req' \in [Requests -> RequestState] /\ RequestsLinked'
    BY <2>1, <2>2, EventMovedTypes
  <2> QED
    BY <1>6, <2>3 DEF Deliver, HandlerInv, RequestsLinked, At
<1>7. CASE DeliverFails(h)
  <2>1. "finish" \in Stages /\ "progress" \in EventTypes /\ ~At(h, "idle")
    BY <1>7 DEF DeliverFails, Stages, EventTypes, At
  <2>2. req' = [req EXCEPT ![h].pc = "finish", ![h].event = "progress"]
    BY <1>7 DEF DeliverFails
  <2>3. req' \in [Requests -> RequestState] /\ RequestsLinked'
    BY <2>1, <2>2, EventMovedTypes
  <2> QED
    BY <1>7, <2>3 DEF DeliverFails, HandlerInv, RequestsLinked, At
<1>8. CASE ReadOutcome(h)
  <2>1. CASE req' = [req EXCEPT ![h] = Idle]
    BY <1>8, <2>1, IdleTypes DEF ReadOutcome, Unsettled, HandlerInv, RequestsLinked, At
  <2>2. CASE /\ req[h].run \in StoredRuns
             /\ req' = [req EXCEPT ![h] =
                  [req[h] EXCEPT !.pc = "settle", !.settles = runs[req[h].run].attempt]]
    <3>1. runs[req[h].run].attempt \in 0..MaxAttempts
      BY <2>2, RowsOfStore DEF Attempts
    <3>2. "settle" \in Stages /\ ~At(h, "idle")
      BY <1>8 DEF ReadOutcome, Unsettled, Stages, At
    <3>3. req' \in [Requests -> RequestState] /\ RequestsLinked'
      BY <2>2, <3>1, <3>2, SettleMovedTypes
    <3> QED
      BY <1>8, <3>3 DEF ReadOutcome, Unsettled, HandlerInv, RequestsLinked, At
  <2> QED
    BY <1>8, <2>1, <2>2 DEF ReadOutcome, Unsettled
<1>9. CASE SettleInterrupts(h)
  BY <1>9, IdleTypes DEF SettleInterrupts, Return, HandlerInv, RequestsLinked, At
<1> QED
  BY <1>1, <1>2, <1>3, <1>4, <1>5, <1>6, <1>7, <1>8, <1>9 DEF Advance

LEMMA StreamTypes ==
  ASSUME HandlerInv, NEW h \in Requests, Stream(h)
  PROVE  HandlerInv'
<1>1. PICK seq \in 1..MaxEvents, type \in EventTypes, cites \in SUBSET Citable :
        StreamEvent(h, seq, type, cites) \/ StreamRejects(h, seq, type, cites)
  BY DEF Stream
<1>2. CASE StreamEvent(h, seq, type, cites)
  <2>1. "deliver" \in Stages /\ ~At(h, "idle")
    BY <1>2 DEF StreamEvent, Stages, At
  <2>2. req' = [req EXCEPT ![h].pc = "deliver", ![h].event = type]
    BY <1>2 DEF StreamEvent
  <2>3. req' \in [Requests -> RequestState] /\ RequestsLinked'
    BY <2>1, <2>2, EventMovedTypes
  <2> QED
    BY <1>2, <2>3 DEF StreamEvent, HandlerInv
<1>3. CASE StreamRejects(h, seq, type, cites)
  <2>1. "finish" \in Stages
    BY DEF Stages
  <2> QED
    BY <1>3, <2>1, MovedTypes DEF StreamRejects, Goto, At
<1> QED
  BY <1>1, <1>2, <1>3

LEMMA HandlerInvariant == StoreInv /\ HandlerInv /\ [Next]_vars => HandlerInv'
<1> SUFFICES ASSUME StoreInv, HandlerInv, [Next]_vars PROVE HandlerInv'
  OBVIOUS
<1>1. ASSUME NEW h \in Requests, NEW k \in Keys, NEW body \in Bodies,
             NEW r \in Runs, NEW t \in Tasks, Start(h, k, body, r, t)
      PROVE  HandlerInv'
  <2>1. 1 \in Attempts /\ "announce" \in Stages
    BY DEF Attempts, Stages
  <2> QED
    BY <1>1, <2>1, BegunTypes DEF Start
<1>2. ASSUME NEW h \in Requests, NEW k \in Keys, NEW body \in Bodies, StartAgain(h, k, body)
      PROVE  HandlerInv'
  <2>1. idempotency[k].run \in StoredRuns /\ idempotency[k].run \in Runs
    BY <1>2, RowsOfStore DEF StartAgain, StoredRuns
  <2>2. runs[idempotency[k].run].attempt \in Attempts /\ "replay" \in Stages
    BY <2>1, RowsOfStore DEF Stages
  <2> QED
    BY <1>2, <2>1, <2>2, BegunTypes DEF StartAgain
<1>3. ASSUME NEW h \in Requests, NEW r \in Runs, Resume(h, r)
      PROVE  HandlerInv'
  <2>1. r \in StoredRuns /\ runs[r] \in RunRow /\ runs[r].attempt < MaxAttempts
    BY <1>3, RowsOfStore DEF Resume, PrepareResume, Resumable, StoredRuns
  <2>2. runs[r].attempt + 1 \in Attempts
    BY <2>1, RowsOfStore DEF Attempts
  <2>3. runs[r].body \in Bodies /\ "announce" \in Stages
    BY <2>1 DEF RunRow, Stages
  <2> QED
    BY <1>3, <2>2, <2>3, BegunTypes DEF Resume
<1>4. ASSUME NEW h \in Requests, StreamEnds(h)
      PROVE  HandlerInv'
  <2>1. "finish" \in Stages
    BY DEF Stages
  <2> QED
    BY <1>4, <2>1, MovedTypes DEF StreamEnds, Goto, At
<1>5. ASSUME NEW h \in Requests, Disconnect(h)
      PROVE  HandlerInv'
  <2>1. PICK old : old = req[h]
    OBVIOUS
  <2>2. old \in RequestState /\ old.run \in Runs /\ old.attempt \in Attempts
    BY <1>5, <2>1, BusyRow DEF Disconnect
  <2>3. PICK row : row = [old EXCEPT !.connected = FALSE]
    OBVIOUS
  <2>4. row \in RequestState /\ row.run \in Runs /\ row.attempt \in Attempts
    BY <2>2, <2>3 DEF RequestState
  <2>5. req' = [req EXCEPT ![h] = row]
    BY <1>5, <2>1, <2>3 DEF Disconnect
  <2>6. req' \in [Requests -> RequestState] /\ RequestsLinked'
    BY <2>4, <2>5, RequestTypes
  <2> QED
    BY <1>5, <2>6 DEF Disconnect, HandlerInv
<1>6. CASE (\E r \in Runs : Cancel(r)) \/ (\E t \in Tasks : Delete(t)) \/ EditMemory
  BY <1>6 DEF Cancel, Delete, EditMemory, handlerVars, HandlerInv, RequestsLinked, At
<1>7. CASE Restart
  BY <1>7, IdleTypes DEF Restart, HandlerInv, RequestsLinked, At
<1>8. CASE UNCHANGED vars
  BY <1>8 DEF vars, handlerVars, HandlerInv, RequestsLinked, At
<1> QED
  BY <1>1, <1>2, <1>3, <1>4, <1>5, <1>6, <1>7, <1>8, AdvanceTypes, StreamTypes DEF Next

LEMMA InitTypes == Init => TypeInv
<1> SUFFICES ASSUME Init PROVE TypeInv
  OBVIOUS
<1>1. MemoryTypeOK
  BY DEF Init, RunStoreInit, MemoryInit, MemoryTypeOK, MemoryRow, NoMemory, Kinds, Expiries
<1>2. /\ runs \in [Runs -> RunRow]
      /\ StoredRuns = {}
  BY DEF Init, RunStoreInit, NoRow, RunRow, RunStatus, Bodies, StoredRuns
<1>3. RunStoreTypeOK
  BY <1>1, <1>2 DEF Init, RunStoreInit, RunStoreTypeOK, RowStatus, Revisions, NoRevisions
<1>4. RowsLinked
  BY <1>2 DEF RowsLinked, Init, RunStoreInit
<1>5. TypeOK /\ RequestsLinked
  BY <1>3, IdleTypes DEF Init, TypeOK, RequestsLinked, At
<1> QED
  BY <1>4, <1>5 DEF TypeInv

LEMMA NextTypes == TypeInv /\ [Next]_vars => TypeInv'
BY NextIsStoreStep, StoreInvariant, HandlerInvariant
DEF TypeInv, TypeOK, StoreInv, HandlerInv

LEMMA TypeInvariant == Spec => []TypeInv
BY InitTypes, NextTypes, PTL DEF Spec

(* Every row of the store and every request stays well formed, whatever    *)
(* the requests, disconnects and restarts: in particular no transaction    *)
(* exceeds the attempt and event counters it checks.                       *)
THEOREM TypeCorrect == Spec => []TypeOK
<1>1. TypeInv => TypeOK
  BY DEF TypeInv
<1> QED
  BY <1>1, TypeInvariant, PTL

-----------------------------------------------------------------------------
(* What a transaction does to one run                                      *)

LEMMA BeginRunRows ==
  ASSUME StoreInv, NEW k \in Keys, NEW body \in Bodies, NEW r \in Runs, NEW t \in Tasks,
         BeginRun(k, body, r, t)
  PROVE  /\ \A q \in Runs \ {r} : runs'[q] = runs[q]
         /\ runs[r].status = "unissued"
         /\ runs'[r] = [status |-> "running", task |-> t, body |-> body,
                        attempt |-> 1, next |-> 1, cited |-> {}]
BY RowsOfStore DEF BeginRun

LEMMA ApplyRunEventRows ==
  ASSUME StoreInv, NEW r \in Runs, NEW a \in Attempts, NEW seq \in 1..MaxEvents,
         NEW type \in EventTypes, NEW cites \in SUBSET Citable,
         ApplyRunEvent(r, a, seq, type, cites)
  PROVE  /\ \A q \in Runs \ {r} : runs'[q] = runs[q]
         /\ runs[r].status = "running"
         /\ runs[r].attempt = a
         /\ runs[r].next = seq
         /\ runs'[r].status = IF type = "progress" THEN "running" ELSE type
         /\ runs'[r].task = runs[r].task
         /\ runs'[r].body = runs[r].body
         /\ runs'[r].attempt = a
         /\ runs'[r].next = seq + 1
<1>1. runs[r] \in RunRow /\ runs \in [Runs -> RunRow]
  BY RowsOfStore
<1>2. runs[r].status = "running" /\ runs[r].attempt = a /\ runs[r].next = seq
  BY DEF ApplyRunEvent, Accepts, TakesEvents, InOrder
<1> QED
  BY <1>1, <1>2 DEF ApplyRunEvent, RunRow

LEMMA StatusRows ==
  ASSUME StoreInv, NEW r \in StoredRuns, NEW status,
         runs' = [runs EXCEPT ![r].status = status]
  PROVE  /\ \A q \in Runs \ {r} : runs'[q] = runs[q]
         /\ runs'[r].status = status
         /\ runs'[r].task = runs[r].task
         /\ runs'[r].body = runs[r].body
         /\ runs'[r].attempt = runs[r].attempt
         /\ runs'[r].next = runs[r].next
<1>1. r \in Runs /\ runs[r] \in RunRow /\ runs \in [Runs -> RunRow]
  BY RowsOfStore DEF StoredRuns
<1> QED
  BY <1>1 DEF RunRow

LEMMA PrepareResumeRows ==
  ASSUME StoreInv, NEW r \in Runs, PrepareResume(r)
  PROVE  /\ \A q \in Runs \ {r} : runs'[q] = runs[q]
         /\ runs[r].status = "interrupted"
         /\ runs'[r].status = "running"
         /\ runs'[r].task = runs[r].task
         /\ runs'[r].body = runs[r].body
         /\ runs'[r].attempt = runs[r].attempt + 1
         /\ runs'[r].next = 1
<1>1. runs[r] \in RunRow /\ runs \in [Runs -> RunRow]
  BY RowsOfStore
<1> QED
  BY <1>1 DEF PrepareResume, Resumable, RunRow

LEMMA DeleteTaskRows ==
  ASSUME StoreInv, NEW t \in Tasks, DeleteTask(t)
  PROVE  \A q \in Runs : runs'[q] = IF runs[q].task = t THEN NoRow("deleted") ELSE runs[q]
BY RowsOfStore DEF DeleteTask, RunsOf

(* Every other step of the store leaves the runs alone.                    *)
LEMMA StoreCases ==
  ASSUME StoreStep
  PROVE  \/ \E k \in Keys, body \in Bodies, r \in Runs, t \in Tasks : BeginRun(k, body, r, t)
         \/ \E r \in Runs, a \in Attempts, seq \in 1..MaxEvents, type \in EventTypes,
               cites \in SUBSET Citable : ApplyRunEvent(r, a, seq, type, cites)
         \/ \E r \in StoredRuns :
              /\ runs[r].status \notin Terminal \cup {"interrupted"}
              /\ runs' = [runs EXCEPT ![r].status = "interrupted"]
              /\ UNCHANGED <<tasks, messages, events, execution, memorySnap, idempotency>>
         \/ \E r \in StoredRuns :
              /\ runs[r].status \notin Terminal
              /\ runs' = [runs EXCEPT ![r].status = "cancelled"]
              /\ UNCHANGED <<tasks, messages, events, execution, memorySnap, idempotency>>
         \/ \E r \in Runs : PrepareResume(r)
         \/ \E t \in Tasks : DeleteTask(t)
         \/ UNCHANGED <<tasks, messages, runs, events, memorySnap, idempotency>>
BY DEF StoreStep, InterruptRun, CancelRun, InsertSnapshot, runVars, storeVars

-----------------------------------------------------------------------------
(* The end of a run                                                        *)

LEMMA TerminalStep ==
  ASSUME StoreInv, StoreStep, NEW r \in Runs, runs[r].status \in Terminal
  PROVE  runs'[r] = runs[r] \/ runs'[r].status = "deleted"
<1> USE DEF Terminal
<1>1. ASSUME NEW k \in Keys, NEW body \in Bodies, NEW q \in Runs, NEW t \in Tasks,
             BeginRun(k, body, q, t)
      PROVE  runs'[r] = runs[r]
  BY <1>1, BeginRunRows
<1>2. ASSUME NEW q \in Runs, NEW a \in Attempts, NEW seq \in 1..MaxEvents,
             NEW type \in EventTypes, NEW cites \in SUBSET Citable,
             ApplyRunEvent(q, a, seq, type, cites)
      PROVE  runs'[r] = runs[r]
  BY <1>2, ApplyRunEventRows
<1>3. ASSUME NEW q \in StoredRuns, NEW status, runs[q].status \notin Terminal,
             runs' = [runs EXCEPT ![q].status = status]
      PROVE  runs'[r] = runs[r]
  BY <1>3, StatusRows
<1>4. ASSUME NEW q \in Runs, PrepareResume(q)
      PROVE  runs'[r] = runs[r]
  BY <1>4, PrepareResumeRows
<1>5. ASSUME NEW t \in Tasks, DeleteTask(t)
      PROVE  runs'[r] = runs[r] \/ runs'[r].status = "deleted"
  BY <1>5, DeleteTaskRows DEF NoRow
<1> HIDE DEF Terminal
<1> QED
  BY <1>1, <1>2, <1>3, <1>4, <1>5, StoreCases

(* A run that has ended stays as it is until its task is deleted: no late  *)
(* event, stale handler, cancel or resume touches it.                      *)
THEOREM TerminalRunsAreFinal == Spec => TerminalIsFinal
<1> DEFINE Keeps == \A r \in Runs : runs[r].status \in Terminal =>
                      runs'[r] = runs[r] \/ runs'[r].status = "deleted"
<1>1. TypeInv /\ [Next]_vars => [Keeps]_vars
  BY NextIsStoreStep, TerminalStep DEF TypeInv, TypeOK, StoreInv
<1> QED
  BY <1>1, TypeInvariant, PTL DEF Spec, TerminalIsFinal
-----------------------------------------------------------------------------
(* The active run of a task                                                *)

LEMMA BeginRunActive ==
  ASSUME StoreInv, NEW k \in Keys, NEW body \in Bodies, NEW r \in Runs, NEW t \in Tasks,
         BeginRun(k, body, r, t)
  PROVE  /\ ActiveRuns(t) = {}
         /\ ActiveRuns(t)' = {r}
         /\ \A u \in Tasks \ {t} : ActiveRuns(u)' = ActiveRuns(u)
<1>1. ActiveRuns(t) = {}
  <2>1. CASE tasks[t] = "unissued"
    <3>1. \A q \in StoredRuns : runs[q].task # t
      BY <2>1, RowsOfStore
    <3> QED
      BY <3>1 DEF ActiveRuns, StoredRuns, Active
  <2> QED
    BY <2>1 DEF BeginRun
<1>2. runs'[r].status \in Active /\ runs'[r].task = t /\ runs[r].status \notin Active
  <2>1. runs[r].status = "unissued" /\
        runs'[r] = [status |-> "running", task |-> t, body |-> body,
                    attempt |-> 1, next |-> 1, cited |-> {}]
    BY BeginRunRows
  <2> QED
    BY <2>1 DEF Active
<1>3. \A q \in Runs \ {r} : runs'[q] = runs[q]
  BY BeginRunRows
<1>4. \A u \in Tasks : \A q \in Runs \ {r} : q \in ActiveRuns(u)' <=> q \in ActiveRuns(u)
  BY <1>3 DEF ActiveRuns
<1>5. \A u \in Tasks : (r \in ActiveRuns(u)' <=> u = t) /\ r \notin ActiveRuns(u)
  BY <1>2 DEF ActiveRuns
<1>6. \A u \in Tasks : ActiveRuns(u) \subseteq Runs /\ ActiveRuns(u)' \subseteq Runs
  BY DEF ActiveRuns
<1> QED
  BY <1>1, <1>4, <1>5, <1>6

LEMMA ApplyRunEventActive ==
  ASSUME StoreInv, NEW r \in Runs, NEW a \in Attempts, NEW seq \in 1..MaxEvents,
         NEW type \in EventTypes, NEW cites \in SUBSET Citable,
         ApplyRunEvent(r, a, seq, type, cites), NEW t \in Tasks, t = runs[r].task
  PROVE  /\ r \in ActiveRuns(t)
         /\ type \notin Finished => \A u \in Tasks : ActiveRuns(u)' = ActiveRuns(u)
         /\ type \in Finished =>
              /\ ActiveRuns(t)' = ActiveRuns(t) \ {r}
              /\ \A u \in Tasks \ {t} : ActiveRuns(u)' = ActiveRuns(u)
<1>1. runs'[r].status = IF type = "progress" THEN "running" ELSE type
  BY ApplyRunEventRows
<1>2. type \notin Finished => runs'[r].status \in Active
  BY <1>1 DEF Active, EventTypes, Finished
<1>3. type \in Finished => runs'[r].status \notin Active
  BY <1>1 DEF Active, EventTypes, Finished
<1>4. runs[r].status \in Active
  BY ApplyRunEventRows DEF Active
<1> QED
  BY <1>2, <1>3, <1>4, ApplyRunEventRows DEF ActiveRuns

LEMMA InterruptActive ==
  ASSUME StoreInv, NEW r \in StoredRuns,
         runs[r].status \notin Terminal \cup {"interrupted"},
         runs' = [runs EXCEPT ![r].status = "interrupted"]
  PROVE  \A u \in Tasks : ActiveRuns(u)' = ActiveRuns(u)
<1>1. runs[r].status = "running" /\ r \in Runs
  BY RowsOfStore DEF StoredRuns, RunRow, RunStatus, Terminal, Finished
<1> QED
  BY <1>1, StatusRows DEF ActiveRuns, Active

LEMMA CancelActive ==
  ASSUME StoreInv, NEW r \in StoredRuns, runs[r].status \notin Terminal,
         runs' = [runs EXCEPT ![r].status = "cancelled"], NEW t \in Tasks, t = runs[r].task
  PROVE  /\ r \in ActiveRuns(t)
         /\ ActiveRuns(t)' = ActiveRuns(t) \ {r}
         /\ \A u \in Tasks \ {t} : ActiveRuns(u)' = ActiveRuns(u)
<1>1. runs[r].status \in Active /\ r \in Runs
  BY RowsOfStore DEF StoredRuns, RunRow, RunStatus, Terminal, Finished, Active
<1>2. runs'[r].status \notin Active /\ runs'[r].task = runs[r].task
  <2>1. runs'[r].status = "cancelled" /\ runs'[r].task = runs[r].task
    BY StatusRows
  <2> QED
    BY <2>1 DEF Active
<1>3. \A q \in Runs \ {r} : runs'[q] = runs[q]
  BY StatusRows
<1> QED
  BY <1>1, <1>2, <1>3 DEF ActiveRuns

LEMMA PrepareResumeActive ==
  ASSUME StoreInv, NEW r \in Runs, PrepareResume(r)
  PROVE  \A u \in Tasks : ActiveRuns(u)' = ActiveRuns(u)
BY PrepareResumeRows DEF ActiveRuns, Active

LEMMA DeleteTaskActive ==
  ASSUME StoreInv, NEW t \in Tasks, DeleteTask(t)
  PROVE  /\ ActiveRuns(t)' = {}
         /\ \A u \in Tasks \ {t} : ActiveRuns(u)' = ActiveRuns(u)
<1>1. NoRow("deleted").status = "deleted"
  BY DEF NoRow
<1> QED
  BY <1>1, DeleteTaskRows DEF ActiveRuns, Active

LEMMA OneActiveRunStep == StoreInv /\ OneActiveRun /\ StoreStep => OneActiveRun'
<1> SUFFICES ASSUME StoreInv, OneActiveRun, StoreStep PROVE OneActiveRun'
  OBVIOUS
<1> USE DEF OneActiveRun
<1>1. ASSUME NEW k \in Keys, NEW body \in Bodies, NEW r \in Runs, NEW t \in Tasks,
             BeginRun(k, body, r, t)
      PROVE  OneActiveRun'
  BY <1>1, BeginRunActive
<1>2. ASSUME NEW r \in Runs, NEW a \in Attempts, NEW seq \in 1..MaxEvents,
             NEW type \in EventTypes, NEW cites \in SUBSET Citable,
             ApplyRunEvent(r, a, seq, type, cites)
      PROVE  OneActiveRun'
  <2>1. r \in StoredRuns /\ runs[r].task \in Tasks
    BY <1>2, RowsOfStore DEF ApplyRunEvent, Accepts, TakesEvents, InOrder
  <2>2. \A u \in Tasks : ActiveRuns(u)' \subseteq ActiveRuns(u)
    BY <1>2, <2>1, ApplyRunEventActive
  <2> QED
    BY <2>2
<1>3. ASSUME NEW r \in StoredRuns, runs[r].status \notin Terminal \cup {"interrupted"},
             runs' = [runs EXCEPT ![r].status = "interrupted"]
      PROVE  OneActiveRun'
  BY <1>3, InterruptActive
<1>4. ASSUME NEW r \in StoredRuns, runs[r].status \notin Terminal,
             runs' = [runs EXCEPT ![r].status = "cancelled"]
      PROVE  OneActiveRun'
  <2>1. PICK t \in Tasks : t = runs[r].task
    BY RowsOfStore
  <2>2. /\ ActiveRuns(t)' = ActiveRuns(t) \ {r}
        /\ \A u \in Tasks \ {t} : ActiveRuns(u)' = ActiveRuns(u)
    BY <1>4, <2>1, CancelActive
  <2> QED
    BY <2>2
<1>5. ASSUME NEW r \in Runs, PrepareResume(r)
      PROVE  OneActiveRun'
  BY <1>5, PrepareResumeActive
<1>6. ASSUME NEW t \in Tasks, DeleteTask(t)
      PROVE  OneActiveRun'
  BY <1>6, DeleteTaskActive
<1>7. CASE runs' = runs
  BY <1>7 DEF ActiveRuns
<1> QED
  BY <1>1, <1>2, <1>3, <1>4, <1>5, <1>6, <1>7, StoreCases

LEMMA ActiveInvariant == Spec => []OneActiveRun
<1>1. Init => OneActiveRun
  BY DEF Init, RunStoreInit, OneActiveRun, ActiveRuns, NoRow, Active
<1>2. TypeInv /\ OneActiveRun /\ [Next]_vars => OneActiveRun'
  BY NextIsStoreStep, OneActiveRunStep DEF TypeInv, TypeOK, StoreInv
<1> QED
  BY <1>1, <1>2, TypeInvariant, PTL DEF Spec

(* BeginRun's check and its insertion are one transaction, and a new task  *)
(* has no runs: two requests can never both begin, or resume, a run of the *)
(* same task.                                                              *)
THEOREM OneRunPerTask == Spec => []OneActiveRun
BY ActiveInvariant

-----------------------------------------------------------------------------
(* The refinement                                                          *)

(* Every message belongs to a stored run of its task.                      *)
MessagesLinked ==
  \A t \in Tasks : \A i \in DOMAIN messages[t] :
    messages[t][i].run \in StoredRuns /\ runs[messages[t][i].run].task = t

LEMMA Chosen == ASSUME NEW r PROVE (CHOOSE x \in {r} : TRUE) = r
OBVIOUS

LEMMA OpenOfActive ==
  ASSUME OneActiveRun, NEW t \in Tasks
  PROVE  /\ ActiveRuns(t) = {} => OpenTurn(t) = NoRun
         /\ \A r \in ActiveRuns(t) : OpenTurn(t) = r
<1>1. ASSUME NEW r \in ActiveRuns(t)
      PROVE  OpenTurn(t) = r
  <2>1. ActiveRuns(t) = {r}
    BY <1>1 DEF OneActiveRun
  <2> QED
    BY <2>1, Chosen DEF OpenTurn
<1> QED
  BY <1>1 DEF OpenTurn
(* The mapped variable "open", before and after a step.                    *)
Opens == [t \in Tasks |-> OpenTurn(t)]

LEMMA OpensUnchanged ==
  ASSUME \A t \in Tasks : ActiveRuns(t)' = ActiveRuns(t), OneActiveRun, OneActiveRun'
  PROVE  Opens' = Opens
<1>1. ASSUME NEW t \in Tasks
      PROVE  OpenTurn(t)' = OpenTurn(t)
  <2>1. CASE ActiveRuns(t) = {}
    BY <2>1 DEF OpenTurn
  <2>2. ASSUME NEW r \in ActiveRuns(t)
        PROVE  OpenTurn(t)' = OpenTurn(t)
    <3>1. ActiveRuns(t) = {r} /\ ActiveRuns(t)' = {r}
      BY <2>2 DEF OneActiveRun
    <3>2. OpenTurn(t) = r /\ OpenTurn(t)' = r
      BY <3>1, Chosen DEF OpenTurn
    <3> QED
      BY <3>2
  <2> QED
    BY <2>1, <2>2
<1> QED
  BY <1>1 DEF Opens

LEMMA OpensUpdate ==
  ASSUME NEW t \in Tasks, \A u \in Tasks \ {t} : ActiveRuns(u)' = ActiveRuns(u),
         OneActiveRun, OneActiveRun'
  PROVE  /\ ActiveRuns(t)' = {} => Opens' = [Opens EXCEPT ![t] = NoRun]
         /\ \A r : ActiveRuns(t)' = {r} => Opens' = [Opens EXCEPT ![t] = r]
<1>1. ASSUME NEW u \in Tasks \ {t}
      PROVE  OpenTurn(u)' = OpenTurn(u)
  <2>1. CASE ActiveRuns(u) = {}
    BY <2>1 DEF OpenTurn
  <2>2. ASSUME NEW r \in ActiveRuns(u)
        PROVE  OpenTurn(u)' = OpenTurn(u)
    <3>1. ActiveRuns(u) = {r} /\ ActiveRuns(u)' = {r}
      BY <2>2 DEF OneActiveRun
    <3>2. OpenTurn(u) = r /\ OpenTurn(u)' = r
      BY <3>1, Chosen DEF OpenTurn
    <3> QED
      BY <3>2
  <2> QED
    BY <2>1, <2>2
<1>2. ActiveRuns(t)' = {} => OpenTurn(t)' = NoRun
  BY DEF OpenTurn
<1>3. ASSUME NEW r, ActiveRuns(t)' = {r}
      PROVE  OpenTurn(t)' = r
  BY <1>3, Chosen DEF OpenTurn
<1> QED
  BY <1>1, <1>2, <1>3 DEF Opens

LEMMA RefinementStep ==
  ASSUME StoreInv, MessagesLinked, OneActiveRun, OneActiveRun', StoreStep
  PROVE  [Reading!ConversationNext]_(Reading!conversationVars)
<1> DEFINE Step == [Reading!ConversationNext]_(Reading!conversationVars)
<1>0. ASSUME UNCHANGED <<tasks, messages>>, Opens' = Opens
      PROVE  Step
  BY <1>0 DEF Reading!conversationVars, Opens
<1>1. ASSUME NEW k \in Keys, NEW body \in Bodies, NEW r \in Runs, NEW t \in Tasks,
             BeginRun(k, body, r, t)
      PROVE  Step
  <2>1. Opens[t] = NoRun
    BY <1>1, BeginRunActive DEF Opens, OpenTurn
  <2>2. Opens' = [Opens EXCEPT ![t] = r]
    BY <1>1, BeginRunActive, OpensUpdate
  <2>3. \A i \in DOMAIN messages[t] : messages[t][i].run # r
    <3>1. r \notin StoredRuns
      BY <1>1, BeginRunRows DEF StoredRuns
    <3> QED
      BY <3>1 DEF MessagesLinked
  <2>4. Reading!Ask(t, r)
    BY <1>1, <2>1, <2>2, <2>3 DEF Reading!Ask, Opens, BeginRun, Question
  <2> QED
    BY <2>4 DEF Reading!ConversationNext
<1>2. ASSUME NEW r \in Runs, NEW a \in Attempts, NEW seq \in 1..MaxEvents,
             NEW type \in EventTypes, NEW cites \in SUBSET Citable,
             ApplyRunEvent(r, a, seq, type, cites)
      PROVE  Step
  <2>1. PICK t \in Tasks : t = runs[r].task
    BY <1>2, RowsOfStore DEF ApplyRunEvent, Accepts, TakesEvents, InOrder
  <2>2. CASE type \in Finished
    <3>1. ActiveRuns(t) = {r}
      BY <1>2, <2>1, ApplyRunEventActive DEF OneActiveRun
    <3>2. Opens[t] = r /\ r # NoRun
      BY <3>1, Chosen DEF Opens, OpenTurn
    <3>3. ActiveRuns(t)' = {} /\ \A u \in Tasks \ {t} : ActiveRuns(u)' = ActiveRuns(u)
      BY <1>2, <2>1, <2>2, <3>1, ApplyRunEventActive
    <3>4. Opens' = [Opens EXCEPT ![t] = NoRun]
      BY <3>3, OpensUpdate
    <3>5. messages' = [messages EXCEPT ![t] = Append(@, [run |-> Opens[t], role |-> "assistant"])]
      BY <1>2, <2>1, <2>2, <3>2 DEF ApplyRunEvent, Answer
    <3>6. Reading!Reply(t)
      BY <1>2, <3>2, <3>4, <3>5 DEF Reading!Reply, Opens, ApplyRunEvent
    <3> QED
      BY <3>6 DEF Reading!ConversationNext
  <2>3. CASE type \notin Finished
    <3>1. \A u \in Tasks : ActiveRuns(u)' = ActiveRuns(u)
      BY <1>2, <2>1, <2>3, ApplyRunEventActive
    <3>2. Opens' = Opens
      BY <3>1, OpensUnchanged
    <3> QED
      BY <1>0, <1>2, <2>3, <3>2 DEF ApplyRunEvent
  <2> QED
    BY <2>2, <2>3
<1>3. ASSUME NEW r \in StoredRuns, runs[r].status \notin Terminal \cup {"interrupted"},
             runs' = [runs EXCEPT ![r].status = "interrupted"],
             UNCHANGED <<tasks, messages>>
      PROVE  Step
  BY <1>0, <1>3, InterruptActive, OpensUnchanged
<1>4. ASSUME NEW r \in StoredRuns, runs[r].status \notin Terminal,
             runs' = [runs EXCEPT ![r].status = "cancelled"],
             UNCHANGED <<tasks, messages>>
      PROVE  Step
  <2>1. PICK t \in Tasks : t = runs[r].task
    BY RowsOfStore
  <2>2. /\ r \in ActiveRuns(t)
        /\ ActiveRuns(t)' = ActiveRuns(t) \ {r}
        /\ \A u \in Tasks \ {t} : ActiveRuns(u)' = ActiveRuns(u)
    BY <1>4, <2>1, CancelActive
  <2>3. ActiveRuns(t) = {r} /\ ActiveRuns(t)' = {}
    BY <2>2 DEF OneActiveRun
  <2>4. Opens[t] = r /\ r # NoRun
    BY <2>3, Chosen DEF Opens, OpenTurn, ActiveRuns
  <2>5. Opens' = [Opens EXCEPT ![t] = NoRun]
    BY <2>2, <2>3, OpensUpdate
  <2>6. Reading!GiveUp(t)
    BY <1>4, <2>4, <2>5 DEF Reading!GiveUp, Opens
  <2> QED
    BY <2>6 DEF Reading!ConversationNext
<1>5. ASSUME NEW r \in Runs, PrepareResume(r)
      PROVE  Step
  BY <1>0, <1>5, PrepareResumeActive, OpensUnchanged DEF PrepareResume
<1>6. ASSUME NEW t \in Tasks, DeleteTask(t)
      PROVE  Step
  <2>1. Opens' = [Opens EXCEPT ![t] = NoRun]
    BY <1>6, DeleteTaskActive, OpensUpdate
  <2>2. Reading!Remove(t)
    BY <1>6, <2>1 DEF Reading!Remove, Opens, DeleteTask, RunsOf
  <2> QED
    BY <2>2 DEF Reading!ConversationNext
<1>7. CASE UNCHANGED <<tasks, messages, runs>>
  <2>1. \A u \in Tasks : ActiveRuns(u)' = ActiveRuns(u)
    BY <1>7 DEF ActiveRuns
  <2> QED
    BY <1>0, <1>7, <2>1, OpensUnchanged
<1> QED
  BY <1>1, <1>2, <1>3, <1>4, <1>5, <1>6, <1>7, StoreCases
LEMMA MessagesLinkedStep ==
  ASSUME StoreInv, MessagesLinked, StoreStep
  PROVE  MessagesLinked'
<1>0. messages \in [Tasks -> Seq(Message)]
  BY RowsOfStore
(* Appending a message of a stored run to the log of its task.             *)
<1>1. ASSUME NEW t \in Tasks, NEW m \in Message,
             messages' = [messages EXCEPT ![t] = Append(@, m)],
             m.run \in StoredRuns', runs'[m.run].task = t,
             \A q \in StoredRuns : q \in StoredRuns' /\ runs'[q].task = runs[q].task
      PROVE  MessagesLinked'
  <2> SUFFICES ASSUME NEW u \in Tasks, NEW i \in DOMAIN messages'[u]
               PROVE  LET n == messages'[u][i]
                      IN  n.run \in StoredRuns' /\ runs'[n.run].task = u
    BY DEF MessagesLinked
  <2>1. CASE u # t
    BY <1>0, <1>1, <2>1 DEF MessagesLinked
  <2>2. CASE u = t
    <3>1. messages'[t] = Append(messages[t], m) /\ messages[t] \in Seq(Message)
      BY <1>0, <1>1
    <3>2. i \in 1..(Len(messages[t]) + 1)
      BY <2>2, <3>1
    <3>3. CASE i = Len(messages[t]) + 1
      BY <1>1, <2>2, <3>1, <3>3
    <3>4. CASE i \in DOMAIN messages[t]
      <4>1. messages'[t][i] = messages[t][i]
        BY <3>1, <3>4
      <4> QED
        BY <1>1, <2>2, <3>4, <4>1 DEF MessagesLinked
    <3> QED
      BY <3>1, <3>2, <3>3, <3>4
  <2> QED
    BY <2>1, <2>2
(* A step that only changes columns other than the task.                   *)
<1>2. ASSUME messages' = messages,
             \A q \in StoredRuns : q \in StoredRuns' /\ runs'[q].task = runs[q].task
      PROVE  MessagesLinked'
  BY <1>2 DEF MessagesLinked
<1>3. ASSUME NEW k \in Keys, NEW body \in Bodies, NEW r \in Runs, NEW t \in Tasks,
             BeginRun(k, body, r, t)
      PROVE  MessagesLinked'
  <2>1. Question(r) \in Message /\ Question(r).run = r
    BY DEF Question, Message
  <2>2. /\ \A q \in Runs \ {r} : runs'[q] = runs[q]
        /\ runs[r].status = "unissued"
        /\ runs'[r].status = "running" /\ runs'[r].task = t
    <3>1. runs'[r] = [status |-> "running", task |-> t, body |-> body,
                      attempt |-> 1, next |-> 1, cited |-> {}]
      BY <1>3, BeginRunRows
    <3> QED
      BY <1>3, <3>1, BeginRunRows
  <2>3. /\ r \in StoredRuns'
        /\ \A q \in StoredRuns : q \in StoredRuns' /\ runs'[q].task = runs[q].task
    BY <2>2 DEF StoredRuns
  <2> QED
    BY <1>1, <1>3, <2>1, <2>2, <2>3, ZenonT(40) DEF BeginRun
<1>4. ASSUME NEW r \in Runs, NEW a \in Attempts, NEW seq \in 1..MaxEvents,
             NEW type \in EventTypes, NEW cites \in SUBSET Citable,
             ApplyRunEvent(r, a, seq, type, cites)
      PROVE  MessagesLinked'
  <2>1. Answer(r) \in Message /\ Answer(r).run = r
    BY DEF Answer, Message
  <2>2. /\ \A q \in Runs \ {r} : runs'[q] = runs[q]
        /\ runs'[r].status \notin {"unissued", "deleted"} /\ runs'[r].task = runs[r].task
    <3>1. runs'[r].status = IF type = "progress" THEN "running" ELSE type
      BY <1>4, ApplyRunEventRows
    <3> QED
      BY <1>4, <3>1, ApplyRunEventRows DEF EventTypes, Finished
  <2>3. /\ r \in StoredRuns'
        /\ \A q \in StoredRuns : q \in StoredRuns' /\ runs'[q].task = runs[q].task
    BY <2>2 DEF StoredRuns
  <2>4. runs[r].task \in Tasks
    BY <1>4, RowsOfStore DEF ApplyRunEvent, Accepts, TakesEvents, InOrder
  <2>5. CASE type \in Finished
    <3>1. messages' = [messages EXCEPT ![runs[r].task] = Append(@, Answer(r))]
      BY <1>4, <2>5 DEF ApplyRunEvent
    <3>2. PICK t \in Tasks : t = runs[r].task
      BY <2>4
    <3> QED
      BY <1>1, <2>1, <2>2, <2>3, <3>1, <3>2, ZenonT(40)
  <2>6. CASE type \notin Finished
    BY <1>2, <1>4, <2>3, <2>6 DEF ApplyRunEvent
  <2> QED
    BY <2>5, <2>6
<1>5. ASSUME NEW r \in StoredRuns, NEW status \in {"interrupted", "cancelled"},
             runs' = [runs EXCEPT ![r].status = status], messages' = messages
      PROVE  MessagesLinked'
  <2>1. \A q \in StoredRuns : q \in StoredRuns' /\ runs'[q].task = runs[q].task
    BY <1>5, StatusRows DEF StoredRuns
  <2> QED
    BY <1>2, <1>5, <2>1
<1>6. ASSUME NEW r \in Runs, PrepareResume(r)
      PROVE  MessagesLinked'
  <2>1. \A q \in StoredRuns : q \in StoredRuns' /\ runs'[q].task = runs[q].task
    BY <1>6, PrepareResumeRows DEF StoredRuns
  <2> QED
    BY <1>2, <1>6, <2>1 DEF PrepareResume
<1>7. ASSUME NEW t \in Tasks, DeleteTask(t)
      PROVE  MessagesLinked'
  <2>1. /\ messages'[t] = <<>>
        /\ \A u \in Tasks \ {t} : messages'[u] = messages[u]
    BY <1>0, <1>7 DEF DeleteTask, RunsOf
  <2>2. \A q \in StoredRuns : runs[q].task # t => q \in StoredRuns' /\ runs'[q] = runs[q]
    BY <1>7, DeleteTaskRows DEF StoredRuns
  <2> QED
    BY <2>1, <2>2 DEF MessagesLinked
<1>8. CASE UNCHANGED <<messages, runs>>
  BY <1>2, <1>8 DEF StoredRuns
<1> QED
  BY <1>3, <1>4, <1>5, <1>6, <1>7, <1>8, StoreCases

LEMMA MessagesInvariant == Spec => []MessagesLinked
<1>1. Init => MessagesLinked
  BY DEF Init, RunStoreInit, MessagesLinked
<1>2. TypeInv /\ MessagesLinked /\ [Next]_vars => MessagesLinked'
  BY NextIsStoreStep, MessagesLinkedStep DEF TypeInv, TypeOK, StoreInv
<1> QED
  BY <1>1, <1>2, TypeInvariant, PTL DEF Spec

(* Whatever attempts, streams, retries, disconnects and restarts do, a     *)
(* reader of the tasks and messages sees plain conversations: one question *)
(* at a time, answered once directly below itself or given up.             *)
THEOREM RunsImplementConversations == Spec => ImplementsConversations
<1>1. Init => Reading!ConversationInit
  BY DEF Init, RunStoreInit, Reading!ConversationInit, OpenTurn, ActiveRuns, NoRow, Active
<1>2. /\ TypeInv /\ MessagesLinked /\ OneActiveRun /\ OneActiveRun' /\ [Next]_vars
      => [Reading!ConversationNext]_(Reading!conversationVars)
  BY NextIsStoreStep, RefinementStep DEF TypeInv, TypeOK, StoreInv
<1> QED
  BY <1>1, <1>2, TypeInvariant, MessagesInvariant, ActiveInvariant, PTL
  DEF Spec, ImplementsConversations, Reading!ConversationSpec

-----------------------------------------------------------------------------
(* The event log                                                           *)

(* Events belong to attempts that were begun ...                           *)
EventsOfRows ==
  \A e \in events : e.run \in StoredRuns /\ e.attempt <= runs[e.run].attempt

(* ... and a running run has no event that ends its current attempt.       *)
EndedLogs ==
  \A e \in events : e.type # "progress" =>
    /\ \A d \in events : d.run = e.run /\ d.attempt = e.attempt => d.seq <= e.seq
    /\ e.attempt = runs[e.run].attempt => runs[e.run].status # "running"
    /\ e.type \in Finished => runs[e.run].attempt = e.attempt /\ runs[e.run].status = e.type

LogInv == EventsOfRows /\ EventsContiguous /\ EndedLogs

(* The rows of events, field by field.                                     *)
LEMMA EventFields ==
  ASSUME StoreInv, NEW e \in events
  PROVE  /\ e.run \in Runs /\ e.attempt \in Attempts /\ e.seq \in 1..MaxEvents
         /\ e.type \in EventTypes
         /\ e = [run |-> e.run, attempt |-> e.attempt, seq |-> e.seq, type |-> e.type]
BY RowsOfStore DEF Event

LEMMA BeginRunLog ==
  ASSUME StoreInv, LogInv, NEW k \in Keys, NEW body \in Bodies, NEW r \in Runs, NEW t \in Tasks,
         BeginRun(k, body, r, t)
  PROVE  LogInv'
<1>1. /\ \A q \in Runs \ {r} : runs'[q] = runs[q]
      /\ runs[r].status = "unissued"
      /\ runs'[r].status = "running" /\ runs'[r].attempt = 1 /\ runs'[r].next = 1
  <2>1. runs'[r] = [status |-> "running", task |-> t, body |-> body,
                    attempt |-> 1, next |-> 1, cited |-> {}]
    BY BeginRunRows
  <2> QED
    BY <2>1, BeginRunRows
<1>2. events' = events /\ \A e \in events : e.run \in Runs \ {r} /\ e.run \in StoredRuns
  BY <1>1, EventFields DEF BeginRun, LogInv, EventsOfRows, StoredRuns
<1>3. \A q \in Runs \ {r} : q \in StoredRuns' <=> q \in StoredRuns
  BY <1>1 DEF StoredRuns
<1>4. EventsOfRows'
  BY <1>1, <1>2, <1>3 DEF LogInv, EventsOfRows
<1>5. EndedLogs'
  BY <1>1, <1>2 DEF LogInv, EndedLogs
<1>6. EventsContiguous'
  <2>1. \A q \in StoredRuns' : q \in Runs
    BY DEF StoredRuns
  <2>2. \A q \in StoredRuns' : \A s \in 1..MaxEvents :
          (s < runs'[q].next) <=>
            \E e \in events : e.run = q /\ e.attempt = runs'[q].attempt /\ e.seq = s
    BY <1>1, <1>2, <1>3, <2>1 DEF LogInv, EventsContiguous
  <2> QED
    BY <1>2, <2>2 DEF LogInv, EventsContiguous
<1> QED
  BY <1>4, <1>5, <1>6 DEF LogInv

LEMMA ApplyRunEventLog ==
  ASSUME StoreInv, LogInv, NEW r \in Runs, NEW a \in Attempts, NEW seq \in 1..MaxEvents,
         NEW type \in EventTypes, NEW cites \in SUBSET Citable,
         ApplyRunEvent(r, a, seq, type, cites)
  PROVE  LogInv'
<1> DEFINE new == [run |-> r, attempt |-> a, seq |-> seq, type |-> type]
<1>1. /\ \A q \in Runs \ {r} : runs'[q] = runs[q]
      /\ runs[r].status = "running" /\ runs[r].attempt = a /\ runs[r].next = seq
      /\ runs'[r].status = IF type = "progress" THEN "running" ELSE type
      /\ runs'[r].attempt = a /\ runs'[r].next = seq + 1
  BY ApplyRunEventRows
<1>2. events' = events \cup {new}
  BY DEF ApplyRunEvent
<1>3. r \in StoredRuns /\ \A q \in Runs : q \in StoredRuns' <=> q \in StoredRuns
  BY <1>1 DEF StoredRuns, EventTypes, Finished
<1>4. \A e \in events : e.run \in Runs /\ e.seq \in 1..MaxEvents /\ e.attempt \in Attempts
  BY EventFields
(* The log of the current attempt is what is below the next number.        *)
<1>5. \A e \in events : e.run = r /\ e.attempt = a => e.seq < seq /\ e.type = "progress"
  BY <1>1, <1>3, <1>4 DEF LogInv, EventsContiguous, EndedLogs
<1>6. \A s \in 1..MaxEvents : s < seq =>
        \E e \in events : e.run = r /\ e.attempt = a /\ e.seq = s
  BY <1>1, <1>3 DEF LogInv, EventsContiguous
<1>7. EventsOfRows'
  BY <1>1, <1>2, <1>3, <1>4 DEF LogInv, EventsOfRows, Attempts
<1>8. EndedLogs'
  <2> SUFFICES ASSUME NEW e \in events', e.type # "progress"
               PROVE  /\ \A d \in events' : d.run = e.run /\ d.attempt = e.attempt => d.seq <= e.seq
                      /\ e.attempt = runs'[e.run].attempt => runs'[e.run].status # "running"
                      /\ e.type \in Finished =>
                           runs'[e.run].attempt = e.attempt /\ runs'[e.run].status = e.type
    BY DEF EndedLogs
  <2>1. CASE e = new
    <3>1. \A d \in events' : d.run = r /\ d.attempt = a => d.seq <= seq
      BY <1>2, <1>4, <1>5
    <3> QED
      BY <1>1, <2>1, <3>1 DEF EventTypes, Finished
  <2>2. CASE e \in events
    <3>1. ~(e.run = r /\ e.attempt = a)
      BY <1>5, <2>2
    <3>2. e.run = r => e.type \notin Finished
      BY <1>1, <2>2 DEF LogInv, EndedLogs, Finished
    <3> QED
      BY <1>1, <1>2, <1>4, <2>2, <3>1, <3>2 DEF LogInv, EndedLogs
  <2> QED
    BY <1>2, <2>1, <2>2
<1>9. EventsContiguous'
  <2>1. \A d, e \in events' :
          d.run = e.run /\ d.attempt = e.attempt /\ d.seq = e.seq => d = e
    BY <1>2, <1>4, <1>5 DEF LogInv, EventsContiguous
  <2>2. \A e \in events' : \A s \in 1..e.seq :
          \E d \in events' : d.run = e.run /\ d.attempt = e.attempt /\ d.seq = s
    <3>1. \A s \in 1..seq : \E d \in events' : d.run = r /\ d.attempt = a /\ d.seq = s
      <4> SUFFICES ASSUME NEW s \in 1..seq
                   PROVE  \E d \in events' : d.run = r /\ d.attempt = a /\ d.seq = s
        OBVIOUS
      <4>1. s = seq \/ (s \in 1..MaxEvents /\ s < seq)
        OBVIOUS
      <4>2. CASE s = seq
        <5>1. new \in events' /\ new.run = r /\ new.attempt = a /\ new.seq = s
          BY <1>2, <4>2
        <5> QED
          BY <5>1
      <4> QED
        BY <1>2, <1>6, <4>1, <4>2
    <3> QED
      BY <1>2, <3>1 DEF LogInv, EventsContiguous
  <2>3. \A q \in StoredRuns' : \A s \in 1..MaxEvents :
          (s < runs'[q].next) <=>
            \E e \in events' : e.run = q /\ e.attempt = runs'[q].attempt /\ e.seq = s
    <3> SUFFICES ASSUME NEW q \in StoredRuns', NEW s \in 1..MaxEvents
                 PROVE  (s < runs'[q].next) <=>
                          \E e \in events' : e.run = q /\ e.attempt = runs'[q].attempt /\ e.seq = s
      OBVIOUS
    <3>1. CASE q = r
      <4>1. s < seq + 1 <=> s = seq \/ s < seq
        OBVIOUS
      <4>2. \A e \in events' : e.run = r /\ e.attempt = a => e.seq = seq \/ e.seq < seq
        BY <1>2, <1>5
      <4>3. \E e \in events' : e.run = r /\ e.attempt = a /\ e.seq = seq
        <5>1. new \in events' /\ new.run = r /\ new.attempt = a /\ new.seq = seq
          BY <1>2
        <5> QED
          BY <5>1
      <4> QED
        BY <1>1, <1>2, <1>6, <3>1, <4>1, <4>2, <4>3
    <3>2. CASE q # r
      <4>1. q \in StoredRuns /\ runs'[q] = runs[q]
        BY <1>1, <1>3, <3>2 DEF StoredRuns
      <4> QED
        BY <1>2, <3>2, <4>1 DEF LogInv, EventsContiguous
    <3> QED
      BY <3>1, <3>2
  <2> QED
    BY <2>1, <2>2, <2>3 DEF EventsContiguous
<1> QED
  BY <1>7, <1>8, <1>9 DEF LogInv

(* InterruptRun and CancelRun end an attempt that is no longer to end.     *)
LEMMA StatusLog ==
  ASSUME StoreInv, LogInv, NEW r \in StoredRuns, NEW status \in {"interrupted", "cancelled"},
         runs[r].status \notin Terminal, runs' = [runs EXCEPT ![r].status = status],
         events' = events
  PROVE  LogInv'
<1>1. /\ \A q \in Runs \ {r} : runs'[q] = runs[q]
      /\ runs'[r].status = status
      /\ runs'[r].attempt = runs[r].attempt
      /\ runs'[r].next = runs[r].next
  BY StatusRows
<1>2. \A q \in Runs : q \in StoredRuns' <=> q \in StoredRuns
  BY <1>1 DEF StoredRuns
<1>3. \A e \in events : e.run \in Runs
  BY EventFields
<1>4. EventsOfRows'
  BY <1>1, <1>2, <1>3 DEF LogInv, EventsOfRows
<1>5. EndedLogs'
  BY <1>1, <1>3 DEF LogInv, EndedLogs, Terminal, Finished
<1>6. EventsContiguous'
  <2>1. \A q \in StoredRuns' : /\ q \in StoredRuns
                               /\ runs'[q].attempt = runs[q].attempt
                               /\ runs'[q].next = runs[q].next
    BY <1>1, <1>2 DEF StoredRuns
  <2> QED
    BY <2>1 DEF LogInv, EventsContiguous
<1> QED
  BY <1>4, <1>5, <1>6 DEF LogInv

(* A new attempt has no events yet.                                        *)
LEMMA PrepareResumeLog ==
  ASSUME StoreInv, LogInv, NEW r \in Runs, PrepareResume(r)
  PROVE  LogInv'
<1>1. /\ \A q \in Runs \ {r} : runs'[q] = runs[q]
      /\ runs[r].status = "interrupted" /\ runs'[r].status = "running"
      /\ runs'[r].attempt = runs[r].attempt + 1
      /\ runs'[r].next = 1
  BY PrepareResumeRows
<1>2. r \in StoredRuns /\ \A q \in Runs : q \in StoredRuns' <=> q \in StoredRuns
  BY <1>1 DEF StoredRuns
<1>3. runs[r].attempt \in Attempts
  BY <1>2, RowsOfStore
<1>4. events' = events /\ \A e \in events : e.run \in Runs /\ e.attempt \in Attempts
  BY EventFields DEF PrepareResume
<1>5. \A e \in events : e.run = r => e.attempt < runs'[r].attempt /\ e.type \notin Finished
  BY <1>1, <1>3, <1>4 DEF LogInv, EventsOfRows, EndedLogs, Finished, Attempts
<1>6. EventsOfRows'
  BY <1>1, <1>2, <1>3, <1>4, <1>5 DEF LogInv, EventsOfRows, Attempts
<1>7. EndedLogs'
  BY <1>1, <1>4, <1>5 DEF LogInv, EndedLogs, Attempts
<1>8. EventsContiguous'
  <2>1. \A q \in StoredRuns' : \A s \in 1..MaxEvents :
          (s < runs'[q].next) <=>
            \E e \in events' : e.run = q /\ e.attempt = runs'[q].attempt /\ e.seq = s
    <3> SUFFICES ASSUME NEW q \in StoredRuns', NEW s \in 1..MaxEvents
                 PROVE  (s < runs'[q].next) <=>
                          \E e \in events' : e.run = q /\ e.attempt = runs'[q].attempt /\ e.seq = s
      OBVIOUS
    <3>1. CASE q = r
      <4>1. \A e \in events' : e.run = r => e.attempt # runs'[r].attempt
        BY <1>1, <1>3, <1>4, <1>5 DEF Attempts
      <4>2. ~(s < 1)
        OBVIOUS
      <4> QED
        BY <1>1, <3>1, <4>1, <4>2
    <3>2. CASE q # r
      <4>1. q \in StoredRuns /\ runs'[q] = runs[q]
        BY <1>1, <1>2, <3>2 DEF StoredRuns
      <4> QED
        BY <1>4, <4>1 DEF LogInv, EventsContiguous
    <3> QED
      BY <3>1, <3>2
  <2> QED
    BY <1>4, <2>1 DEF LogInv, EventsContiguous
<1> QED
  BY <1>6, <1>7, <1>8 DEF LogInv

LEMMA DeleteTaskLog ==
  ASSUME StoreInv, LogInv, NEW t \in Tasks, DeleteTask(t)
  PROVE  LogInv'
<1>1. \A q \in Runs : runs'[q] = IF runs[q].task = t THEN NoRow("deleted") ELSE runs[q]
  BY DeleteTaskRows
<1>2. \A q \in Runs : q \in StoredRuns' <=> q \in StoredRuns /\ runs[q].task # t
  BY <1>1 DEF StoredRuns, NoRow
<1>3. events' = {e \in events : e.run \in Runs => runs[e.run].task # t}
  BY DEF DeleteTask, RunsOf
<1>4. \A e \in events' : e \in events /\ e.run \in Runs /\ runs'[e.run] = runs[e.run]
  BY <1>1, <1>3, EventFields
<1>5. \A d \in events, e \in events' : d.run = e.run => d \in events'
  BY <1>3
<1>6. EventsOfRows'
  BY <1>2, <1>3, <1>4 DEF LogInv, EventsOfRows
<1>7. EndedLogs'
  BY <1>4 DEF LogInv, EndedLogs
<1>8. EventsContiguous'
  <2>1. \A q \in StoredRuns' : \A s \in 1..MaxEvents :
          (s < runs'[q].next) <=>
            \E e \in events' : e.run = q /\ e.attempt = runs'[q].attempt /\ e.seq = s
    <3> SUFFICES ASSUME NEW q \in StoredRuns', NEW s \in 1..MaxEvents
                 PROVE  (s < runs'[q].next) <=>
                          \E e \in events' : e.run = q /\ e.attempt = runs'[q].attempt /\ e.seq = s
      OBVIOUS
    <3>1. q \in StoredRuns /\ runs'[q] = runs[q] /\ runs[q].task # t
      BY <1>1, <1>2 DEF StoredRuns
    <3> QED
      BY <1>3, <3>1 DEF LogInv, EventsContiguous
  <2>2. \A e \in events' : \A s \in 1..e.seq :
          \E d \in events' : d.run = e.run /\ d.attempt = e.attempt /\ d.seq = s
    BY <1>4, <1>5 DEF LogInv, EventsContiguous
  <2> QED
    BY <1>4, <2>1, <2>2 DEF LogInv, EventsContiguous
<1> QED
  BY <1>6, <1>7, <1>8 DEF LogInv

LEMMA LogStep == StoreInv /\ LogInv /\ StoreStep => LogInv'
<1> SUFFICES ASSUME StoreInv, LogInv, StoreStep PROVE LogInv'
  OBVIOUS
<1>1. CASE UNCHANGED <<runs, events>>
  BY <1>1 DEF LogInv, EventsOfRows, EventsContiguous, EndedLogs, StoredRuns
<1> QED
  BY <1>1, BeginRunLog, ApplyRunEventLog, StatusLog, PrepareResumeLog, DeleteTaskLog, StoreCases

LEMMA LogInvariant == Spec => []LogInv
<1>1. Init => LogInv
  BY DEF Init, RunStoreInit, LogInv, EventsOfRows, EventsContiguous, EndedLogs, StoredRuns, NoRow
<1>2. TypeInv /\ LogInv /\ [Next]_vars => LogInv'
  BY NextIsStoreStep, LogStep DEF TypeInv, TypeOK, StoreInv
<1> QED
  BY <1>1, <1>2, TypeInvariant, PTL DEF Spec

(* The stored events of every attempt have no gap and no repetition, and   *)
(* the run's next number continues the current attempt's: whichever of     *)
(* several streams of an attempt brings an event, ApplyRunEvent takes it   *)
(* only in order.                                                          *)
THEOREM LogsAreContiguous == Spec => []EventsContiguous
BY LogInvariant, PTL DEF LogInv

(* Nothing follows the event that ends an attempt, and a result is in the  *)
(* log of the attempt that finished the run only.                          *)
THEOREM AttemptsEndOnce == Spec => []AttemptEndsOnce
<1>1. LogInv => AttemptEndsOnce
  BY DEF LogInv, EndedLogs, AttemptEndsOnce
<1> QED
  BY <1>1, LogInvariant, PTL
-----------------------------------------------------------------------------
(* What a step does to one request                                         *)

(* A step of another request is none of this one.                          *)
LEMMA StepOfRequest ==
  ASSUME HandlerInv, [Next]_vars, NEW h \in Requests
  PROVE  \/ req'[h] = req[h]
         \/ req'[h] = Idle
         \/ \E k \in Keys, body \in Bodies, r \in Runs, t \in Tasks : Start(h, k, body, r, t)
         \/ \E k \in Keys, body \in Bodies : StartAgain(h, k, body)
         \/ \E r \in Runs : Resume(h, r)
         \/ Advance(h) \/ Stream(h) \/ StreamEnds(h) \/ Disconnect(h)
<1>0. req \in [Requests -> RequestState]
  BY DEF HandlerInv
<1>1. ASSUME NEW g \in Requests \ {h}, NEW k \in Keys, NEW body \in Bodies,
             NEW r \in Runs, NEW t \in Tasks, Start(g, k, body, r, t)
      PROVE  req'[h] = req[h]
  BY <1>0, <1>1 DEF Start
<1>2. ASSUME NEW g \in Requests \ {h}, NEW k \in Keys, NEW body \in Bodies,
             StartAgain(g, k, body)
      PROVE  req'[h] = req[h]
  BY <1>0, <1>2 DEF StartAgain
<1>3. ASSUME NEW g \in Requests \ {h}, NEW r \in Runs, Resume(g, r)
      PROVE  req'[h] = req[h]
  BY <1>0, <1>3 DEF Resume
<1>4. ASSUME NEW g \in Requests \ {h}, Advance(g)
      PROVE  req'[h] = req[h]
  BY <1>0, <1>4
  DEF Advance, Announce, AnnounceFails, Replay, ReadSnapshot, FreezeSnapshot, FreezeFails,
      Deliver, DeliverFails, ReadOutcome, SettleInterrupts, SettleFindsSettled, Goto, Return
<1>5. ASSUME NEW g \in Requests \ {h}, Stream(g)
      PROVE  req'[h] = req[h]
  BY <1>0, <1>5 DEF Stream, StreamEvent, StreamRejects, Goto
<1>6. ASSUME NEW g \in Requests \ {h}, StreamEnds(g) \/ Disconnect(g)
      PROVE  req'[h] = req[h]
  BY <1>0, <1>6 DEF StreamEnds, Disconnect, Goto
<1>7. CASE (\E r \in Runs : Cancel(r)) \/ (\E t \in Tasks : Delete(t)) \/ EditMemory
  BY <1>7 DEF Cancel, Delete, EditMemory, handlerVars
<1>8. CASE Restart
  BY <1>8 DEF Restart
<1>9. CASE UNCHANGED vars
  BY <1>9 DEF vars, handlerVars
<1> QED
  BY <1>1, <1>2, <1>3, <1>4, <1>5, <1>6, <1>7, <1>8, <1>9 DEF Next

(* A request that goes on keeps its run, attempt and body; what it read    *)
(* and what it has to deliver are kept, too, while it waits.               *)
GoesOn(h) ==
  /\ ~At(h, "idle")
  /\ req'[h].run = req[h].run /\ req'[h].attempt = req[h].attempt /\ req'[h].body = req[h].body
  /\ \/ req'[h].pc = req[h].pc /\ req'[h].recent = req[h].recent /\ req'[h].event = req[h].event
     \/ ReadSnapshot(h)
     \/ \E seq \in 1..MaxEvents, type \in EventTypes, cites \in SUBSET Citable :
          StreamEvent(h, seq, type, cites)
     \/ req'[h].pc \notin {"idle", "insert", "deliver"}

LEMMA RequestStep ==
  ASSUME HandlerInv, [Next]_vars, NEW h \in Requests, req'[h].pc # "idle"
  PROVE  \/ \E k \in Keys, body \in Bodies, r \in Runs, t \in Tasks : Start(h, k, body, r, t)
         \/ \E k \in Keys, body \in Bodies : StartAgain(h, k, body)
         \/ \E r \in Runs : Resume(h, r)
         \/ GoesOn(h)
<1>0. /\ req \in [Requests -> RequestState]
      /\ req[h] \in RequestState
      /\ req' = [req EXCEPT ![h] = Idle] => req'[h] = Idle
      /\ Idle.pc = "idle"
  BY IdleTypes DEF HandlerInv
<1>1. CASE req'[h] = req[h]
  BY <1>1 DEF GoesOn, At
(* The steps that move on to another stage.                                *)
<1>2. ASSUME NEW pc \in Stages \ {"insert", "deliver"}, ~At(h, "idle"),
             req' = [req EXCEPT ![h].pc = pc]
      PROVE  GoesOn(h)
  BY <1>0, <1>2 DEF GoesOn, RequestState
<1>3. CASE Advance(h)
  <2>1. ~At(h, "idle")
    BY <1>3 DEF Advance, Announce, AnnounceFails, Replay, ReadSnapshot, FreezeSnapshot,
      FreezeFails, Deliver, DeliverFails, ReadOutcome, SettleInterrupts, SettleFindsSettled, At
  <2>2. CASE Announce(h)
    BY <1>2, <2>1, <2>2 DEF Announce, Goto, Stages
  <2>3. CASE AnnounceFails(h) \/ Replay(h) \/ FreezeFails(h) \/ SettleInterrupts(h)
             \/ SettleFindsSettled(h)
    BY <1>0, <2>3 DEF AnnounceFails, Replay, FreezeFails, SettleInterrupts, SettleFindsSettled,
      Return
  <2>4. CASE ReadSnapshot(h)
    <3>1. req'[h].run = req[h].run /\ req'[h].attempt = req[h].attempt /\ req'[h].body = req[h].body
      BY <1>0, <2>4 DEF ReadSnapshot, RequestState
    <3> QED
      BY <2>1, <2>4, <3>1 DEF GoesOn
  <2>5. CASE FreezeSnapshot(h)
    BY <1>0, <2>1, <2>5 DEF FreezeSnapshot, RequestState, GoesOn
  <2>6. CASE Deliver(h)
    BY <1>0, <2>1, <2>6 DEF Deliver, RequestState, GoesOn
  <2>7. CASE DeliverFails(h)
    BY <1>0, <2>1, <2>7 DEF DeliverFails, RequestState, GoesOn
  <2>8. CASE ReadOutcome(h)
    BY <1>0, <2>1, <2>8 DEF ReadOutcome, RequestState, GoesOn
  <2> QED
    BY <1>3, <2>2, <2>3, <2>4, <2>5, <2>6, <2>7, <2>8 DEF Advance
<1>4. CASE Stream(h)
  <2>1. PICK seq \in 1..MaxEvents, type \in EventTypes, cites \in SUBSET Citable :
          StreamEvent(h, seq, type, cites) \/ StreamRejects(h, seq, type, cites)
    BY <1>4 DEF Stream
  <2>2. CASE StreamEvent(h, seq, type, cites)
    <3>1. /\ ~At(h, "idle")
          /\ req'[h].run = req[h].run /\ req'[h].attempt = req[h].attempt
          /\ req'[h].body = req[h].body
      BY <1>0, <2>2 DEF StreamEvent, RequestState, At
    <3> QED
      BY <2>2, <3>1 DEF GoesOn
  <2>3. CASE StreamRejects(h, seq, type, cites)
    BY <1>2, <2>3 DEF StreamRejects, Goto, At, Stages
  <2> QED
    BY <2>1, <2>2, <2>3
<1>5. CASE StreamEnds(h)
  BY <1>2, <1>5 DEF StreamEnds, Goto, At, Stages
<1>6. CASE Disconnect(h)
  BY <1>0, <1>6 DEF Disconnect, RequestState, GoesOn
<1> QED
  BY <1>0, <1>1, <1>3, <1>4, <1>5, <1>6, StepOfRequest
(* Where Start, StartAgain, Resume and ReadSnapshot leave a request.       *)
LEMMA BegunStages ==
  ASSUME HandlerInv, NEW h \in Requests
  PROVE  /\ \A k \in Keys, body \in Bodies, r \in Runs, t \in Tasks :
              Start(h, k, body, r, t) => req'[h].pc = "announce" /\ req'[h].run = r
         /\ \A k \in Keys, body \in Bodies :
              StartAgain(h, k, body) => req'[h].pc = "replay"
         /\ \A r \in Runs : Resume(h, r) => req'[h].pc = "announce" /\ req'[h].run = r
         /\ ReadSnapshot(h) => \/ req'[h].pc \in {"idle", "stream"}
                               \/ /\ req'[h].pc = "insert"
                                  /\ req'[h].recent = RecentMessages(req[h].run)
<1>1. req \in [Requests -> RequestState] /\ req[h] \in RequestState
  BY DEF HandlerInv
<1>2. \A k \in Keys, body \in Bodies, r \in Runs, t \in Tasks :
        Start(h, k, body, r, t) => req'[h].pc = "announce" /\ req'[h].run = r
  BY <1>1 DEF Start, Idle
<1>3. \A k \in Keys, body \in Bodies : StartAgain(h, k, body) => req'[h].pc = "replay"
  BY <1>1 DEF StartAgain, Idle
<1>4. \A r \in Runs : Resume(h, r) => req'[h].pc = "announce" /\ req'[h].run = r
  BY <1>1 DEF Resume, Idle
<1>5. ASSUME ReadSnapshot(h)
      PROVE  \/ req'[h].pc \in {"idle", "stream"}
             \/ req'[h].pc = "insert" /\ req'[h].recent = RecentMessages(req[h].run)
  <2>1. PICK old : old = req[h]
    OBVIOUS
  <2>2. PICK recent : recent = RecentMessages(req[h].run)
    OBVIOUS
  <2>3. \/ req'[h] = Idle
        \/ req'[h] = [old EXCEPT !.pc = "stream"]
        \/ req'[h] = [old EXCEPT !.pc = "insert", !.recent = recent]
    BY <1>1, <1>5, <2>1, <2>2 DEF ReadSnapshot
  <2>4. old \in RequestState /\ Idle.pc = "idle"
    BY <1>1, <2>1, IdleTypes
  <2>5. [old EXCEPT !.pc = "stream"].pc = "stream"
    BY <2>4 DEF RequestState
  <2>6. /\ [old EXCEPT !.pc = "insert", !.recent = recent].pc = "insert"
        /\ [old EXCEPT !.pc = "insert", !.recent = recent].recent = recent
    BY <2>4 DEF RequestState
  <2> QED
    BY <2>2, <2>3, <2>4, <2>5, <2>6
<1> QED
  BY <1>2, <1>3, <1>4, <1>5

-----------------------------------------------------------------------------
(* The life of a run: never unissued again, never back from deletion, and  *)
(* never active again once it has ended.                                   *)
LEMMA RunLives ==
  ASSUME StoreInv, StoreStep, NEW r \in Runs, runs[r].status # "unissued"
  PROVE  /\ runs'[r].status # "unissued"
         /\ runs[r].status = "deleted" => runs'[r].status = "deleted"
         /\ runs'[r].status = "deleted"
              \/ (runs'[r].body = runs[r].body /\ runs'[r].task = runs[r].task)
         /\ runs'[r].status \in Active => runs[r].status \in Active
<1>1. ASSUME NEW k \in Keys, NEW body \in Bodies, NEW q \in Runs, NEW t \in Tasks,
             BeginRun(k, body, q, t)
      PROVE  runs'[r] = runs[r]
  BY <1>1, BeginRunRows
<1>2. ASSUME NEW q \in Runs, NEW a \in Attempts, NEW seq \in 1..MaxEvents,
             NEW type \in EventTypes, NEW cites \in SUBSET Citable,
             ApplyRunEvent(q, a, seq, type, cites)
      PROVE  \/ runs'[r] = runs[r]
             \/ /\ runs[r].status = "running" /\ runs'[r].status \notin {"unissued", "deleted"}
                /\ runs'[r].body = runs[r].body /\ runs'[r].task = runs[r].task
  BY <1>2, ApplyRunEventRows DEF EventTypes, Finished
<1>3. ASSUME NEW q \in StoredRuns, NEW status \in {"interrupted", "cancelled"},
             runs[q].status \notin Terminal,
             runs' = [runs EXCEPT ![q].status = status]
      PROVE  \/ runs'[r] = runs[r]
             \/ /\ runs[r].status \in Active /\ runs'[r].status = status
                /\ runs'[r].body = runs[r].body /\ runs'[r].task = runs[r].task
  <2>1. q \in Runs /\ runs[q].status \in Active
    BY <1>3, RowsOfStore DEF StoredRuns, RunRow, RunStatus, Terminal, Finished, Active
  <2> QED
    BY <1>3, <2>1, StatusRows
<1>4. ASSUME NEW q \in Runs, PrepareResume(q)
      PROVE  \/ runs'[r] = runs[r]
             \/ /\ runs[r].status = "interrupted" /\ runs'[r].status = "running"
                /\ runs'[r].body = runs[r].body /\ runs'[r].task = runs[r].task
  BY <1>4, PrepareResumeRows
<1>5. ASSUME NEW t \in Tasks, DeleteTask(t)
      PROVE  runs'[r] = runs[r] \/ runs'[r].status = "deleted"
  BY <1>5, DeleteTaskRows DEF NoRow
<1>6. \/ runs'[r] = runs[r]
      \/ runs'[r].status = "deleted"
      \/ /\ runs[r].status \in Active /\ runs'[r].status \notin {"unissued", "deleted"}
         /\ runs'[r].body = runs[r].body /\ runs'[r].task = runs[r].task
  BY <1>1, <1>2, <1>3, <1>4, <1>5, StoreCases DEF Active
<1> QED
  BY <1>6 DEF Active

-----------------------------------------------------------------------------
(* The idempotency keys                                                    *)

(* What KeysNameTheirRun says of the rows.                                 *)
KeyRows ==
  \A k \in Keys : idempotency[k] # NoEntry =>
    LET entry == idempotency[k] IN
    /\ entry.run \in StoredRuns
    /\ runs[entry.run].body = entry.body
    /\ entry.body \in {NoTask, runs[entry.run].task}
    /\ \A l \in Keys \ {k} : idempotency[l] # NoEntry => idempotency[l].run # entry.run

(* ... and of the requests: their run was begun, with their body.          *)
RequestBodies ==
  \A h \in Requests : ~At(h, "idle") =>
    /\ runs[req[h].run].status # "unissued"
    /\ runs[req[h].run].status = "deleted" \/ runs[req[h].run].body = req[h].body

(* A step that keeps the keys and, of the stored runs, body and task.      *)
LEMMA KeysKept ==
  ASSUME KeyRows, RetryFindsRun, idempotency' = idempotency,
         \A q \in Runs : q \in StoredRuns' <=> q \in StoredRuns,
         \A q \in StoredRuns : runs'[q].body = runs[q].body /\ runs'[q].task = runs[q].task
  PROVE  KeyRows' /\ RetryFindsRun'
<1>1. StoredRuns' = StoredRuns
  BY DEF StoredRuns
<1> QED
  BY <1>1 DEF KeyRows, RetryFindsRun

LEMMA BeginRunKeys ==
  ASSUME StoreInv, KeyRows, RetryFindsRun, NEW k \in Keys, NEW body \in Bodies,
         NEW r \in Runs, NEW t \in Tasks, BeginRun(k, body, r, t)
  PROVE  KeyRows' /\ RetryFindsRun'
<1>1. /\ \A q \in Runs \ {r} : runs'[q] = runs[q]
      /\ runs[r].status = "unissued"
      /\ runs'[r].status = "running" /\ runs'[r].task = t /\ runs'[r].body = body
  <2>1. runs'[r] = [status |-> "running", task |-> t, body |-> body,
                    attempt |-> 1, next |-> 1, cited |-> {}]
    BY BeginRunRows
  <2> QED
    BY <2>1, BeginRunRows
<1>2. r \notin StoredRuns /\ \A q \in Runs : q \in StoredRuns' <=> q = r \/ q \in StoredRuns
  BY <1>1 DEF StoredRuns
<1>3. /\ \A l \in Keys \ {k} : idempotency'[l] = idempotency[l]
      /\ idempotency'[k] = [body |-> body, run |-> r]
      /\ idempotency[k] = NoEntry
      /\ body \in {NoTask, t}
  BY RowsOfStore DEF BeginRun, Unclaimed
<1>4. \A l \in Keys \ {k} : idempotency[l] # NoEntry => idempotency[l].run \in Runs \ {r}
  BY <1>2, RowsOfStore DEF StoredRuns
<1>5. idempotency'[k].run = r /\ idempotency'[k].body = body
  BY <1>3
<1>6. KeyRows'
  <2> SUFFICES ASSUME NEW l \in Keys, idempotency'[l] # NoEntry
               PROVE  /\ idempotency'[l].run \in StoredRuns'
                      /\ runs'[idempotency'[l].run].body = idempotency'[l].body
                      /\ idempotency'[l].body \in {NoTask, runs'[idempotency'[l].run].task}
                      /\ \A m \in Keys \ {l} :
                           idempotency'[m] # NoEntry => idempotency'[m].run # idempotency'[l].run
    BY DEF KeyRows
  <2>1. CASE l = k
    BY <1>1, <1>2, <1>3, <1>4, <1>5, <2>1
  <2>2. CASE l # k
    BY <1>1, <1>2, <1>3, <1>4, <1>5, <2>2 DEF KeyRows
  <2> QED
    BY <2>1, <2>2
<1>7. RetryFindsRun'
  <2> SUFFICES ASSUME NEW q \in StoredRuns'
               PROVE  \E l \in Keys : idempotency'[l] # NoEntry /\ idempotency'[l].run = q
    BY DEF RetryFindsRun
  <2>1. CASE q = r
    <3>1. idempotency'[k] # NoEntry
      BY <1>3 DEF Bodies
    <3> QED
      BY <1>5, <2>1, <3>1
  <2>2. CASE q # r
    <3>1. PICK l \in Keys : idempotency[l] # NoEntry /\ idempotency[l].run = q
      BY <1>2, <2>2 DEF RetryFindsRun, StoredRuns
    <3> QED
      BY <1>3, <3>1
  <2> QED
    BY <2>1, <2>2
<1> QED
  BY <1>6, <1>7
LEMMA DeleteTaskKeys ==
  ASSUME StoreInv, KeyRows, RetryFindsRun, NEW t \in Tasks, DeleteTask(t)
  PROVE  KeyRows' /\ RetryFindsRun'
<1>1. \A q \in Runs : runs'[q] = IF runs[q].task = t THEN NoRow("deleted") ELSE runs[q]
  BY DeleteTaskRows
<1>2. \A q \in Runs : q \in StoredRuns' <=> q \in StoredRuns /\ runs[q].task # t
  BY <1>1 DEF StoredRuns, NoRow
<1>3. \A k \in Keys : idempotency'[k] =
        IF idempotency[k] # NoEntry /\ idempotency[k].run \in Runs
             /\ runs[idempotency[k].run].task = t
        THEN NoEntry ELSE idempotency[k]
  BY DEF DeleteTask, RunsOf
<1>4. \A k \in Keys : idempotency[k] # NoEntry => idempotency[k].run \in StoredRuns
                                                 /\ idempotency[k].run \in Runs
  BY RowsOfStore DEF StoredRuns
<1>5. \A k \in Keys : idempotency'[k] # NoEntry =>
        /\ idempotency'[k] = idempotency[k]
        /\ idempotency[k].run \in StoredRuns'
        /\ runs'[idempotency[k].run] = runs[idempotency[k].run]
  BY <1>1, <1>2, <1>3, <1>4
<1>6. KeyRows'
  BY <1>5 DEF KeyRows
<1>7. RetryFindsRun'
  <2> SUFFICES ASSUME NEW q \in StoredRuns'
               PROVE  \E k \in Keys : idempotency'[k] # NoEntry /\ idempotency'[k].run = q
    BY DEF RetryFindsRun
  <2>1. q \in StoredRuns /\ runs[q].task # t
    BY <1>2 DEF StoredRuns
  <2>2. PICK k \in Keys : idempotency[k] # NoEntry /\ idempotency[k].run = q
    BY <2>1 DEF RetryFindsRun
  <2> QED
    BY <1>3, <2>1, <2>2
<1> QED
  BY <1>6, <1>7

LEMMA KeysStep ==
  ASSUME StoreInv, KeyRows, RetryFindsRun, StoreStep
  PROVE  KeyRows' /\ RetryFindsRun'
<1>1. ASSUME NEW r \in Runs, NEW a \in Attempts, NEW seq \in 1..MaxEvents,
             NEW type \in EventTypes, NEW cites \in SUBSET Citable,
             ApplyRunEvent(r, a, seq, type, cites)
      PROVE  KeyRows' /\ RetryFindsRun'
  <2>1. /\ \A q \in Runs \ {r} : runs'[q] = runs[q]
        /\ r \in StoredRuns /\ runs'[r].status \notin {"unissued", "deleted"}
        /\ runs'[r].task = runs[r].task /\ runs'[r].body = runs[r].body
    BY <1>1, ApplyRunEventRows DEF EventTypes, Finished, StoredRuns
  <2> QED
    BY <1>1, <2>1, KeysKept DEF ApplyRunEvent, StoredRuns
<1>2. ASSUME NEW r \in StoredRuns, NEW status \in {"interrupted", "cancelled"},
             runs' = [runs EXCEPT ![r].status = status], idempotency' = idempotency
      PROVE  KeyRows' /\ RetryFindsRun'
  <2>1. /\ \A q \in Runs \ {r} : runs'[q] = runs[q]
        /\ runs'[r].status \notin {"unissued", "deleted"}
        /\ runs'[r].task = runs[r].task /\ runs'[r].body = runs[r].body
    BY <1>2, StatusRows
  <2> QED
    BY <1>2, <2>1, KeysKept DEF StoredRuns
<1>3. ASSUME NEW r \in Runs, PrepareResume(r)
      PROVE  KeyRows' /\ RetryFindsRun'
  <2>1. /\ \A q \in Runs \ {r} : runs'[q] = runs[q]
        /\ r \in StoredRuns /\ runs'[r].status \notin {"unissued", "deleted"}
        /\ runs'[r].task = runs[r].task /\ runs'[r].body = runs[r].body
    BY <1>3, PrepareResumeRows DEF StoredRuns
  <2> QED
    BY <1>3, <2>1, KeysKept DEF PrepareResume, StoredRuns
<1>4. CASE UNCHANGED <<runs, idempotency>>
  BY <1>4, KeysKept DEF StoredRuns
<1> QED
  BY <1>1, <1>2, <1>3, <1>4, BeginRunKeys, DeleteTaskKeys, StoreCases

LEMMA RequestBodiesStep ==
  ASSUME TypeInv, KeyRows, RequestBodies, [Next]_vars
  PROVE  RequestBodies'
<1>1. StoreInv /\ HandlerInv /\ StoreStep
  BY NextIsStoreStep DEF TypeInv, TypeOK, StoreInv, HandlerInv
<1> SUFFICES ASSUME NEW h \in Requests, req'[h].pc # "idle"
             PROVE  /\ runs'[req'[h].run].status # "unissued"
                    /\ runs'[req'[h].run].status = "deleted"
                         \/ runs'[req'[h].run].body = req'[h].body
  BY DEF RequestBodies, At
<1>2. req \in [Requests -> RequestState] /\ Idle \in RequestState
  BY <1>1, IdleTypes DEF HandlerInv
<1>3. ASSUME NEW k \in Keys, NEW body \in Bodies, NEW r \in Runs, NEW t \in Tasks,
             Start(h, k, body, r, t)
      PROVE  runs'[req'[h].run].status = "running" /\ runs'[req'[h].run].body = req'[h].body
  <2>1. req'[h].run = r /\ req'[h].body = body
    BY <1>2, <1>3 DEF Start, RequestState
  <2>2. runs'[r] = [status |-> "running", task |-> t, body |-> body,
                    attempt |-> 1, next |-> 1, cited |-> {}]
    BY <1>1, <1>3, BeginRunRows DEF Start
  <2> QED
    BY <2>1, <2>2
<1>4. ASSUME NEW k \in Keys, NEW body \in Bodies, StartAgain(h, k, body)
      PROVE  /\ runs'[req'[h].run].status # "unissued"
             /\ runs'[req'[h].run].body = req'[h].body
  <2>1. req'[h].run = idempotency[k].run /\ req'[h].body = body
    BY <1>2, <1>4 DEF StartAgain, RequestState
  <2>2. runs' = runs /\ idempotency[k] # NoEntry /\ idempotency[k].body = body
    BY <1>4 DEF StartAgain, storeVars, runVars
  <2> QED
    BY <2>1, <2>2 DEF KeyRows, StoredRuns
<1>5. ASSUME NEW r \in Runs, Resume(h, r)
      PROVE  runs'[req'[h].run].status = "running" /\ runs'[req'[h].run].body = req'[h].body
  <2>1. req'[h].run = r /\ req'[h].body = runs[r].body
    BY <1>2, <1>5 DEF Resume, RequestState
  <2> QED
    BY <1>1, <1>5, <2>1, PrepareResumeRows DEF Resume
<1>6. CASE GoesOn(h)
  <2>1. /\ ~At(h, "idle") /\ req[h].run \in Runs
        /\ req'[h].run = req[h].run /\ req'[h].body = req[h].body
    BY <1>6 DEF GoesOn, TypeInv, RequestsLinked
  <2>2. PICK r \in Runs : r = req[h].run
    BY <2>1
  <2>3. /\ runs[r].status # "unissued"
        /\ runs[r].status = "deleted" \/ runs[r].body = req[h].body
    BY <2>1, <2>2 DEF RequestBodies
  <2>4. /\ runs'[r].status # "unissued"
        /\ runs'[r].status = "deleted" \/ runs'[r].body = runs[r].body
        /\ runs[r].status = "deleted" => runs'[r].status = "deleted"
    BY <1>1, <2>3, RunLives
  <2> QED
    BY <2>1, <2>2, <2>3, <2>4
<1> QED
  BY <1>1, <1>3, <1>4, <1>5, <1>6, RequestStep

LEMMA KeysInvariant == Spec => [](KeyRows /\ RetryFindsRun /\ RequestBodies)
<1>1. Init => KeyRows /\ RetryFindsRun /\ RequestBodies
  BY DEF Init, RunStoreInit, KeyRows, RetryFindsRun, RequestBodies, StoredRuns, NoRow, At, Idle
<1>2. TypeInv /\ KeyRows /\ RetryFindsRun /\ RequestBodies /\ [Next]_vars
        => (KeyRows /\ RetryFindsRun /\ RequestBodies)'
  BY NextIsStoreStep, KeysStep, RequestBodiesStep DEF TypeInv, TypeOK, StoreInv
<1> QED
  BY <1>1, <1>2, TypeInvariant, PTL DEF Spec

(* An idempotency key names the one run its request began, for as long as  *)
(* the run is stored, and whoever repeats the request is replayed that run *)
(* of the same body, never another's.                                      *)
THEOREM KeysAreFaithful == Spec => []KeysNameTheirRun
<1>1. KeyRows /\ RequestBodies => KeysNameTheirRun
  BY DEF KeyRows, RequestBodies, KeysNameTheirRun
<1> QED
  BY <1>1, KeysInvariant, PTL

(* No stored run is out of reach of its key: a retry of the request finds  *)
(* it and does not execute the question a second time.                     *)
THEOREM RetriesFindTheirRun == Spec => []RetryFindsRun
BY KeysInvariant, PTL
-----------------------------------------------------------------------------
(* What clients are shown                                                  *)

Committed(r) == runs[r].status \in Finished \cup {"deleted"}

(* Between the commit of a result and its delivery nothing undoes it.      *)
DeliveryCommitted ==
  \A h \in Requests : At(h, "deliver") /\ req[h].event \in Finished => Committed(req[h].run)

LEMMA CommittedStays ==
  ASSUME StoreInv, StoreStep, NEW r \in Runs, Committed(r)
  PROVE  Committed(r)'
<1>1. runs[r].status # "unissued" /\ (runs[r].status = "deleted" \/ runs[r].status \in Terminal)
  BY DEF Committed, Finished, Terminal
<1>2. CASE runs[r].status = "deleted"
  BY <1>1, <1>2, RunLives DEF Committed
<1>3. CASE runs[r].status \in Terminal
  BY <1>3, TerminalStep DEF Committed
<1> QED
  BY <1>1, <1>2, <1>3

LEMMA DeliveryStep ==
  ASSUME TypeInv, RequestBodies, DeliveryCommitted, [Next]_vars
  PROVE  DeliveryCommitted'
<1>1. StoreInv /\ HandlerInv /\ StoreStep
  BY NextIsStoreStep DEF TypeInv, TypeOK, StoreInv, HandlerInv
<1>2. req \in [Requests -> RequestState]
  BY <1>1 DEF HandlerInv
<1> SUFFICES ASSUME NEW h \in Requests, req'[h].pc = "deliver", req'[h].event \in Finished
             PROVE  runs'[req'[h].run].status \in Finished \cup {"deleted"}
  BY DEF DeliveryCommitted, At, Committed
<1>3. GoesOn(h)
  BY <1>1, BegunStages, RequestStep
<1>4. req[h].run \in Runs /\ req'[h].run = req[h].run
  BY <1>3 DEF GoesOn, TypeInv, RequestsLinked
<1>5. ~ReadSnapshot(h)
  BY <1>1, BegunStages
<1>6. CASE req'[h].pc = req[h].pc /\ req'[h].event = req[h].event
  <2>1. Committed(req[h].run)
    BY <1>6 DEF DeliveryCommitted, At
  <2> QED
    BY <1>1, <1>4, <2>1, CommittedStays DEF Committed
<1>7. ASSUME NEW seq \in 1..MaxEvents, NEW type \in EventTypes, NEW cites \in SUBSET Citable,
             StreamEvent(h, seq, type, cites)
      PROVE  runs'[req'[h].run].status \in Finished \cup {"deleted"}
  <2>1. PICK r \in Runs : r = req[h].run
    BY <1>4
  <2>2. req'[h].event = type /\ ApplyRunEvent(r, req[h].attempt, seq, type, cites)
    BY <1>2, <1>7, <2>1 DEF StreamEvent, RequestState
  <2>3. req[h].attempt \in Attempts
    BY <1>3 DEF GoesOn, TypeInv, RequestsLinked
  <2>4. runs'[r].status = type
    BY <1>1, <2>2, <2>3, ApplyRunEventRows DEF Finished
  <2> QED
    BY <1>4, <2>1, <2>2, <2>4 DEF Committed
<1> QED
  BY <1>3, <1>5, <1>6, <1>7 DEF GoesOn

LEMMA ShownStep ==
  ASSUME TypeInv, LogInv, DeliveryCommitted, ShownIsCommitted, [Next]_vars
  PROVE  ShownIsCommitted'
<1>1. StoreInv /\ HandlerInv /\ StoreStep
  BY NextIsStoreStep DEF TypeInv, TypeOK, StoreInv, HandlerInv
<1>2. \A r \in shown : r \in Runs /\ Committed(r)'
  BY <1>1, CommittedStays DEF ShownIsCommitted, Committed, HandlerInv
<1>3. ASSUME NEW h \in Requests, Advance(h)
      PROVE  shown' \subseteq shown
               \/ (shown' = shown \cup {req[h].run} /\ runs' = runs /\ Committed(req[h].run))
  <2>1. CASE Replay(h)
    <3>1. \A e \in events : e.type \in Finished => Committed(e.run)
      BY DEF LogInv, EndedLogs, Committed, Finished
    <3> QED
      BY <2>1, <3>1 DEF Replay, storeVars, runVars
  <2>2. CASE Deliver(h)
    BY <2>2 DEF Deliver, DeliveryCommitted, storeVars, runVars
  <2> QED
    BY <1>3, <2>1, <2>2
    DEF Advance, Announce, AnnounceFails, ReadSnapshot, FreezeSnapshot, FreezeFails,
        DeliverFails, ReadOutcome, SettleInterrupts, SettleFindsSettled
<1>4. CASE shown' = shown
  BY <1>2, <1>4 DEF ShownIsCommitted, Committed
<1>5. shown' = shown \/ \E h \in Requests : Advance(h)
  BY DEF Next, vars, handlerVars, Start, StartAgain, Resume, Stream, StreamEvent, StreamRejects,
         StreamEnds, Disconnect, Cancel, Delete, EditMemory, Restart
<1> QED
  BY <1>2, <1>3, <1>4, <1>5 DEF ShownIsCommitted, Committed

LEMMA ShownInvariant == Spec => [](DeliveryCommitted /\ ShownIsCommitted)
<1>1. Init => DeliveryCommitted /\ ShownIsCommitted
  BY DEF Init, DeliveryCommitted, ShownIsCommitted, At, Idle
<1>2. /\ TypeInv /\ LogInv /\ RequestBodies /\ DeliveryCommitted /\ ShownIsCommitted
      /\ [Next]_vars
      => (DeliveryCommitted /\ ShownIsCommitted)'
  BY DeliveryStep, ShownStep
<1> QED
  BY <1>1, <1>2, TypeInvariant, LogInvariant, KeysInvariant, PTL DEF Spec

(* No client sees an answer that is not committed: what emitApplied writes *)
(* and what a retry is replayed was stored before, and no step of anybody  *)
(* takes a stored result back, except with its task.                       *)
THEOREM ShownAnswersAreCommitted == Spec => []ShownIsCommitted
BY ShownInvariant, PTL
-----------------------------------------------------------------------------
(* The transcript                                                          *)

(* An active run was asked last.                                           *)
QuestionLast ==
  \A r \in StoredRuns : runs[r].status \in Active =>
    LET log == messages[runs[r].task] IN log # <<>> /\ log[Len(log)] = Question(r)

TranscriptInv == QuestionLast /\ AnswerBelowQuestion

LEMMA MessageFacts ==
  ASSUME NEW r \in Runs
  PROVE  /\ Question(r) \in Message /\ Question(r).run = r /\ Question(r).role = "user"
         /\ Answer(r) \in Message /\ Answer(r).run = r /\ Answer(r).role = "assistant"
         /\ \A q \in Runs : Question(r) # Answer(q) /\ Answer(q) # Question(r)
         /\ \A q \in Runs : Answer(r) = Answer(q) => r = q
BY DEF Question, Answer, Message

LEMMA Appended ==
  ASSUME NEW log \in Seq(Message), NEW m \in Message
  PROVE  /\ Len(log) \in Nat
         /\ DOMAIN log = 1..Len(log)
         /\ log = <<>> <=> Len(log) = 0
         /\ Append(log, m) # <<>>
         /\ Len(Append(log, m)) = Len(log) + 1
         /\ DOMAIN Append(log, m) = 1..(Len(log) + 1)
         /\ \A i \in 1..Len(log) : Append(log, m)[i] = log[i]
         /\ Append(log, m)[Len(log) + 1] = m
OBVIOUS

LEMMA BeginRunTranscript ==
  ASSUME StoreInv, MessagesLinked, TranscriptInv, NEW k \in Keys, NEW body \in Bodies,
         NEW r \in Runs, NEW t \in Tasks, BeginRun(k, body, r, t)
  PROVE  TranscriptInv'
<1> DEFINE log == messages[t]
           new == Append(log, Question(r))
<1>1. /\ \A q \in Runs \ {r} : runs'[q] = runs[q]
      /\ runs[r].status = "unissued"
      /\ runs'[r].status = "running" /\ runs'[r].task = t
  <2>1. runs'[r] = [status |-> "running", task |-> t, body |-> body,
                    attempt |-> 1, next |-> 1, cited |-> {}]
    BY BeginRunRows
  <2> QED
    BY <2>1, BeginRunRows
<1>2. /\ messages'[t] = new
      /\ \A u \in Tasks \ {t} : messages'[u] = messages[u]
      /\ log \in Seq(Message)
  BY RowsOfStore DEF BeginRun
<1>3. /\ Len(log) \in Nat
      /\ DOMAIN log = 1..Len(log)
      /\ new # <<>> /\ Len(new) = Len(log) + 1 /\ DOMAIN new = 1..(Len(log) + 1)
      /\ \A i \in 1..Len(log) : new[i] = log[i]
      /\ new[Len(log) + 1] = Question(r)
  BY <1>2, Appended, MessageFacts
<1> HIDE DEF log, new
<1>4. \A q \in StoredRuns' : q = r \/ (q \in StoredRuns /\ q \in Runs \ {r} /\ runs'[q] = runs[q])
  BY <1>1 DEF StoredRuns
<1>5. \A q \in StoredRuns : runs[q].task = t => runs[q].status \notin Active
  BY BeginRunActive DEF ActiveRuns, StoredRuns
<1>6. QuestionLast'
  <2> SUFFICES ASSUME NEW q \in StoredRuns', runs'[q].status \in Active
               PROVE  /\ messages'[runs'[q].task] # <<>>
                      /\ messages'[runs'[q].task][Len(messages'[runs'[q].task])] = Question(q)
    BY DEF QuestionLast
  <2>1. CASE q = r
    BY <1>1, <1>2, <1>3, <2>1
  <2>2. CASE q # r
    <3>1. q \in StoredRuns /\ runs'[q] = runs[q]
      BY <1>4, <2>2
    <3>2. PICK u \in Tasks : u = runs[q].task
      BY <3>1, RowsOfStore
    <3>3. u # t /\ messages'[u] = messages[u]
      BY <1>2, <1>5, <3>1, <3>2
    <3>4. messages[u] # <<>> /\ messages[u][Len(messages[u])] = Question(q)
      BY <3>1, <3>2 DEF TranscriptInv, QuestionLast
    <3> QED
      BY <3>1, <3>2, <3>3, <3>4
  <2> QED
    BY <2>1, <2>2
<1>7. \A u \in Tasks : \A i \in DOMAIN messages'[u] :
        messages'[u][i].role = "assistant" =>
          i > 1 /\ messages'[u][i - 1] = Question(messages'[u][i].run)
  <2> SUFFICES ASSUME NEW u \in Tasks, NEW i \in DOMAIN messages'[u],
                      messages'[u][i].role = "assistant"
               PROVE  i > 1 /\ messages'[u][i - 1] = Question(messages'[u][i].run)
    OBVIOUS
  <2>1. CASE u # t
    BY <1>2, <2>1 DEF TranscriptInv, AnswerBelowQuestion
  <2>2. CASE u = t
    <3>1. i \in 1..Len(log)
      BY <1>2, <1>3, <2>2, MessageFacts
    <3>2. log[i].role = "assistant" /\ new[i] = log[i]
      BY <1>2, <1>3, <2>2, <3>1
    <3>3. i > 1 /\ log[i - 1] = Question(log[i].run)
      BY <1>3, <3>1, <3>2 DEF TranscriptInv, AnswerBelowQuestion, log
    <3>4. new[i - 1] = log[i - 1]
      BY <1>3, <3>1, <3>3
    <3> QED
      BY <1>2, <2>2, <3>2, <3>3, <3>4
  <2> QED
    BY <2>1, <2>2
<1>8. \A q \in StoredRuns' : (runs'[q].status \in Finished) <=>
        \E i \in DOMAIN messages'[runs'[q].task] : messages'[runs'[q].task][i] = Answer(q)
  <2> SUFFICES ASSUME NEW q \in StoredRuns'
               PROVE  (runs'[q].status \in Finished) <=>
                        \E i \in DOMAIN messages'[runs'[q].task] :
                          messages'[runs'[q].task][i] = Answer(q)
    OBVIOUS
  <2>1. CASE q = r
    <3>1. \A i \in DOMAIN log : log[i].run # r
      BY <1>1 DEF MessagesLinked, StoredRuns, log
    <3>2. \A i \in DOMAIN new : new[i] # Answer(r)
      BY <1>3, <3>1, MessageFacts
    <3> QED
      BY <1>1, <1>2, <2>1, <3>2 DEF Finished
  <2>2. CASE q # r
    <3>1. q \in StoredRuns /\ q \in Runs /\ runs'[q] = runs[q]
      BY <1>4, <2>2
    <3>2. PICK u \in Tasks : u = runs[q].task
      BY <3>1, RowsOfStore
    <3>3. (runs[q].status \in Finished) <=> \E i \in DOMAIN messages[u] : messages[u][i] = Answer(q)
      BY <3>1, <3>2 DEF TranscriptInv, AnswerBelowQuestion
    <3>4. CASE u # t
      BY <1>2, <3>1, <3>2, <3>3, <3>4
    <3>5. CASE u = t
      <4>1. (\E i \in DOMAIN new : new[i] = Answer(q)) <=> \E i \in DOMAIN log : log[i] = Answer(q)
        BY <1>3, <3>1, MessageFacts
      <4> QED
        BY <1>2, <3>1, <3>2, <3>3, <3>5, <4>1 DEF log
    <3> QED
      BY <3>4, <3>5
  <2> QED
    BY <2>1, <2>2
<1> QED
  BY <1>6, <1>7, <1>8 DEF TranscriptInv, AnswerBelowQuestion
(* A step that keeps the messages, and of the stored runs whether they are *)
(* active or finished.                                                     *)
LEMMA TranscriptKept ==
  ASSUME TranscriptInv, messages' = messages,
         \A q \in StoredRuns' : /\ q \in StoredRuns
                                /\ runs'[q].task = runs[q].task
                                /\ runs'[q].status \in Active => runs[q].status \in Active
                                /\ runs'[q].status \in Finished <=> runs[q].status \in Finished
  PROVE  TranscriptInv'
<1>1. QuestionLast'
  BY DEF TranscriptInv, QuestionLast
<1>2. AnswerBelowQuestion'
  BY DEF TranscriptInv, AnswerBelowQuestion
<1> QED
  BY <1>1, <1>2 DEF TranscriptInv

LEMMA AnswerTranscript ==
  ASSUME StoreInv, MessagesLinked, OneActiveRun, TranscriptInv, NEW r \in Runs, NEW a \in Attempts,
         NEW seq \in 1..MaxEvents, NEW type \in Finished, NEW cites \in SUBSET Citable,
         ApplyRunEvent(r, a, seq, type, cites)
  PROVE  TranscriptInv'
<1>0. type \in EventTypes /\ type # "progress" /\ type \notin Active /\ "running" \in Active
      /\ type \notin {"unissued", "deleted"}
  BY DEF EventTypes, Finished, Active
<1>1. /\ \A q \in Runs \ {r} : runs'[q] = runs[q]
      /\ runs[r].status = "running" /\ runs'[r].status = type /\ runs'[r].task = runs[r].task
  BY <1>0, ApplyRunEventRows
<1>2. r \in StoredRuns
  BY <1>1 DEF StoredRuns
<1>3. PICK t \in Tasks : t = runs[r].task
  BY <1>2, RowsOfStore
<1> DEFINE log == messages[t]
           new == Append(log, Answer(r))
<1>4. /\ messages'[t] = new
      /\ \A u \in Tasks \ {t} : messages'[u] = messages[u]
      /\ log \in Seq(Message)
  BY <1>3, RowsOfStore DEF ApplyRunEvent
<1>5. /\ Len(log) \in Nat
      /\ DOMAIN log = 1..Len(log)
      /\ new # <<>> /\ Len(new) = Len(log) + 1 /\ DOMAIN new = 1..(Len(log) + 1)
      /\ \A i \in 1..Len(log) : new[i] = log[i]
      /\ new[Len(log) + 1] = Answer(r)
  BY <1>4, Appended, MessageFacts
<1>6. Len(log) > 0 /\ log[Len(log)] = Question(r)
  BY <1>0, <1>1, <1>2, <1>3, <1>4, Appended, MessageFacts DEF TranscriptInv, QuestionLast
<1> HIDE DEF log, new
<1>7. \A q \in StoredRuns' : q = r \/ (q \in StoredRuns /\ q \in Runs \ {r} /\ runs'[q] = runs[q])
  BY <1>1 DEF StoredRuns
<1>8. \A q \in StoredRuns \ {r} : runs[q].task = t => runs[q].status \notin Active
  BY <1>0, <1>1, <1>2, <1>3 DEF OneActiveRun, ActiveRuns, StoredRuns
<1>9. QuestionLast'
  <2> SUFFICES ASSUME NEW q \in StoredRuns', runs'[q].status \in Active
               PROVE  /\ messages'[runs'[q].task] # <<>>
                      /\ messages'[runs'[q].task][Len(messages'[runs'[q].task])] = Question(q)
    BY DEF QuestionLast
  <2>1. q \in StoredRuns \ {r} /\ runs'[q] = runs[q]
    BY <1>0, <1>1, <1>7
  <2>2. PICK u \in Tasks : u = runs[q].task
    BY <2>1, RowsOfStore
  <2>3. u # t /\ messages'[u] = messages[u]
    BY <1>4, <1>8, <2>1, <2>2
  <2>4. messages[u] # <<>> /\ messages[u][Len(messages[u])] = Question(q)
    BY <2>1, <2>2 DEF TranscriptInv, QuestionLast
  <2> QED
    BY <2>1, <2>2, <2>3, <2>4
<1>10. \A u \in Tasks : \A i \in DOMAIN messages'[u] :
         messages'[u][i].role = "assistant" =>
           i > 1 /\ messages'[u][i - 1] = Question(messages'[u][i].run)
  <2> SUFFICES ASSUME NEW u \in Tasks, NEW i \in DOMAIN messages'[u],
                      messages'[u][i].role = "assistant"
               PROVE  i > 1 /\ messages'[u][i - 1] = Question(messages'[u][i].run)
    OBVIOUS
  <2>1. CASE u # t
    BY <1>4, <2>1 DEF TranscriptInv, AnswerBelowQuestion
  <2>2. CASE u = t /\ i \in 1..Len(log)
    <3>1. log[i].role = "assistant" /\ new[i] = log[i]
      BY <1>4, <1>5, <2>2
    <3>2. i > 1 /\ log[i - 1] = Question(log[i].run)
      BY <1>5, <2>2, <3>1 DEF TranscriptInv, AnswerBelowQuestion, log
    <3>3. new[i - 1] = log[i - 1]
      BY <1>5, <2>2, <3>2
    <3> QED
      BY <1>4, <2>2, <3>1, <3>2, <3>3
  <2>3. CASE u = t /\ i = Len(log) + 1
    <3>1. i > 1 /\ i - 1 = Len(log) /\ Len(log) \in 1..Len(log)
      BY <1>5, <1>6, <2>3
    <3>2. new[i - 1] = Question(r) /\ new[i] = Answer(r)
      BY <1>5, <1>6, <2>3, <3>1
    <3> QED
      BY <1>4, <2>3, <3>1, <3>2, MessageFacts
  <2> QED
    BY <1>4, <1>5, <2>1, <2>2, <2>3
<1>11. \A q \in StoredRuns' : (runs'[q].status \in Finished) <=>
         \E i \in DOMAIN messages'[runs'[q].task] : messages'[runs'[q].task][i] = Answer(q)
  <2> SUFFICES ASSUME NEW q \in StoredRuns'
               PROVE  (runs'[q].status \in Finished) <=>
                        \E i \in DOMAIN messages'[runs'[q].task] :
                          messages'[runs'[q].task][i] = Answer(q)
    OBVIOUS
  <2>1. CASE q = r
    <3>1. Len(log) + 1 \in DOMAIN new
      BY <1>5
    <3> QED
      BY <1>1, <1>3, <1>4, <1>5, <2>1, <3>1
  <2>2. CASE q # r
    <3>1. q \in StoredRuns /\ q \in Runs /\ runs'[q] = runs[q]
      BY <1>7, <2>2
    <3>2. PICK u \in Tasks : u = runs[q].task
      BY <3>1, RowsOfStore
    <3>3. (runs[q].status \in Finished) <=> \E i \in DOMAIN messages[u] : messages[u][i] = Answer(q)
      BY <3>1, <3>2 DEF TranscriptInv, AnswerBelowQuestion
    <3>4. CASE u # t
      BY <1>4, <3>1, <3>2, <3>3, <3>4
    <3>5. CASE u = t
      <4>1. (\E i \in DOMAIN new : new[i] = Answer(q)) <=> \E i \in DOMAIN log : log[i] = Answer(q)
        BY <1>5, <2>2, <3>1, MessageFacts
      <4> QED
        BY <1>4, <3>1, <3>2, <3>3, <3>5, <4>1 DEF log
    <3> QED
      BY <3>4, <3>5
  <2> QED
    BY <2>1, <2>2
<1> QED
  BY <1>9, <1>10, <1>11 DEF TranscriptInv, AnswerBelowQuestion

LEMMA DeleteTaskTranscript ==
  ASSUME StoreInv, TranscriptInv, NEW t \in Tasks, DeleteTask(t)
  PROVE  TranscriptInv'
<1>1. \A q \in StoredRuns' : q \in StoredRuns /\ runs'[q] = runs[q] /\ runs[q].task # t
  BY DeleteTaskRows DEF StoredRuns, NoRow
<1>2. messages'[t] = <<>> /\ \A u \in Tasks \ {t} : messages'[u] = messages[u]
  BY RowsOfStore DEF DeleteTask, RunsOf
<1>3. \A q \in StoredRuns' : /\ runs'[q].task = runs[q].task /\ runs[q].task \in Tasks \ {t}
                             /\ messages'[runs[q].task] = messages[runs[q].task]
  BY <1>1, <1>2, RowsOfStore
<1>4. QuestionLast'
  BY <1>1, <1>3 DEF TranscriptInv, QuestionLast
<1>5. AnswerBelowQuestion'
  BY <1>1, <1>2, <1>3 DEF TranscriptInv, AnswerBelowQuestion
<1> QED
  BY <1>4, <1>5 DEF TranscriptInv

LEMMA TranscriptStep ==
  ASSUME StoreInv, MessagesLinked, OneActiveRun, TranscriptInv, StoreStep
  PROVE  TranscriptInv'
<1>1. ASSUME NEW r \in Runs, NEW a \in Attempts, NEW seq \in 1..MaxEvents,
             NEW type \in EventTypes, NEW cites \in SUBSET Citable,
             ApplyRunEvent(r, a, seq, type, cites)
      PROVE  TranscriptInv'
  <2>1. CASE type \in Finished
    BY <1>1, <2>1, AnswerTranscript
  <2>2. CASE type \notin Finished
    <3>1. /\ \A q \in Runs \ {r} : runs'[q] = runs[q]
          /\ runs[r].status = "running" /\ runs'[r].status \in {"running", "interrupted"}
          /\ runs'[r].task = runs[r].task
      BY <1>1, <2>2, ApplyRunEventRows DEF EventTypes, Finished
    <3>2. messages' = messages
      BY <1>1, <2>2 DEF ApplyRunEvent
    <3> QED
      BY <3>1, <3>2, TranscriptKept DEF StoredRuns, Active, Finished
  <2> QED
    BY <2>1, <2>2
<1>2. ASSUME NEW r \in StoredRuns, NEW status \in {"interrupted", "cancelled"},
             runs[r].status \notin Terminal,
             runs' = [runs EXCEPT ![r].status = status], messages' = messages
      PROVE  TranscriptInv'
  <2>1. /\ \A q \in Runs \ {r} : runs'[q] = runs[q]
        /\ runs'[r].status = status /\ runs'[r].task = runs[r].task
    BY <1>2, StatusRows
  <2>2. r \in Runs /\ runs[r].status \in Active /\ runs[r].status \notin Finished
    BY <1>2, RowsOfStore DEF StoredRuns, RunRow, RunStatus, Terminal, Finished, Active
  <2>3. status \notin Finished
    BY DEF Finished
  <2> QED
    BY <1>2, <2>1, <2>2, <2>3, TranscriptKept DEF StoredRuns
<1>3. ASSUME NEW r \in Runs, PrepareResume(r)
      PROVE  TranscriptInv'
  <2>1. /\ \A q \in Runs \ {r} : runs'[q] = runs[q]
        /\ runs[r].status = "interrupted" /\ runs'[r].status = "running"
        /\ runs'[r].task = runs[r].task
    BY <1>3, PrepareResumeRows
  <2>2. messages' = messages
    BY <1>3 DEF PrepareResume
  <2> QED
    BY <2>1, <2>2, TranscriptKept DEF StoredRuns, Active, Finished
<1>4. CASE UNCHANGED <<messages, runs>>
  BY <1>4, TranscriptKept DEF StoredRuns
<1> QED
  BY <1>1, <1>2, <1>3, <1>4, BeginRunTranscript, DeleteTaskTranscript, StoreCases

LEMMA TranscriptInvariant == Spec => []TranscriptInv
<1>1. Init => TranscriptInv
  BY DEF Init, RunStoreInit, TranscriptInv, QuestionLast, AnswerBelowQuestion, StoredRuns, NoRow
<1>2. TypeInv /\ MessagesLinked /\ OneActiveRun /\ TranscriptInv /\ [Next]_vars => TranscriptInv'
  BY NextIsStoreStep, TranscriptStep DEF TypeInv, TypeOK, StoreInv
<1> QED
  BY <1>1, <1>2, TypeInvariant, MessagesInvariant, ActiveInvariant, PTL DEF Spec

(* An answer stands directly below its own question, and a run has one     *)
(* exactly when it completed or failed: nothing is appended to a task      *)
(* between the question of its active run and the answer.                  *)
THEOREM AnswersStandBelowQuestions == Spec => []AnswerBelowQuestion
BY TranscriptInvariant, PTL DEF TranscriptInv
-----------------------------------------------------------------------------
(* The frozen contexts                                                     *)

(* A run that is not begun has no attempt and no snapshot; a snapshot has  *)
(* the memories of its attempt, and every attempt those of the first.      *)
SnapshotsCopied ==
  \A r \in Runs, a \in Attempts :
    /\ runs[r].status = "unissued" => runs[r].attempt = 0 /\ execution[r][a] = NoSnapshot
    /\ execution[r][a] # NoSnapshot => execution[r][a].memory = memorySnap[r][a]
    /\ r \in StoredRuns /\ a <= runs[r].attempt => memorySnap[r][a] = memorySnap[r][1]

(* The message c stands above the question of run r.                       *)
Before(r, c) ==
  \E i, j \in DOMAIN messages[runs[r].task] :
    /\ i < j
    /\ messages[runs[r].task][i] = c
    /\ messages[runs[r].task][j] = Question(r)

(* What is frozen, or read to be frozen, for a run that is still active is *)
(* from above its question.  A run that was cancelled meanwhile may freeze *)
(* later messages, too, but can no longer answer.                          *)
FrozenBefore ==
  \A r \in StoredRuns : runs[r].status \in Active =>
    \A a \in Attempts : execution[r][a] # NoSnapshot =>
      \A c \in execution[r][a].recent : Before(r, c)
ReadBefore ==
  \A h \in Requests : At(h, "insert") /\ runs[req[h].run].status \in Active =>
    \A c \in req[h].recent : Before(req[h].run, c)

(* What a finished run cites.                                              *)
Grounds(r, c) == (c \in Memories /\ memorySnap[r][1][c] # 0) \/ Before(r, c)
CitesGrounded ==
  \A r \in StoredRuns : runs[r].status \in Finished => \A c \in runs[r].cited : Grounds(r, c)

(* The log of a stored run's task only grows while the run is stored.      *)
LEMMA LogGrows ==
  ASSUME StoreInv, StoreStep, NEW r \in StoredRuns, r \in StoredRuns'
  PROVE  /\ runs'[r].task = runs[r].task
         /\ \A i \in DOMAIN messages[runs[r].task] :
              /\ i \in DOMAIN messages'[runs[r].task]
              /\ messages'[runs[r].task][i] = messages[runs[r].task][i]
<1>1. r \in Runs /\ runs[r].status \notin {"unissued", "deleted"} /\ runs'[r].status # "deleted"
  BY DEF StoredRuns
<1>2. runs'[r].task = runs[r].task
  BY <1>1, RunLives
<1>3. PICK u \in Tasks : u = runs[r].task
  BY RowsOfStore
<1> DEFINE Grows == \A i \in DOMAIN messages[u] :
                      i \in DOMAIN messages'[u] /\ messages'[u][i] = messages[u][i]
<1>4. ASSUME NEW t \in Tasks, NEW m \in Message, messages' = [messages EXCEPT ![t] = Append(@, m)]
      PROVE  Grows
  <2>1. messages[u] \in Seq(Message) /\ messages'[u] = IF u = t THEN Append(messages[u], m) ELSE messages[u]
    BY <1>4, RowsOfStore
  <2>2. CASE u = t
    <3>1. \A i \in 1..Len(messages[u]) : i \in 1..(Len(messages[u]) + 1)
      BY <2>1, Appended
    <3> QED
      BY <2>1, <2>2, <3>1, Appended
  <2> QED
    BY <2>1, <2>2
<1>5. ASSUME NEW k \in Keys, NEW body \in Bodies, NEW q \in Runs, NEW t \in Tasks,
             BeginRun(k, body, q, t)
      PROVE  Grows
  <2>1. Question(q) \in Message /\ messages' = [messages EXCEPT ![t] = Append(@, Question(q))]
    BY <1>5, MessageFacts DEF BeginRun
  <2> QED
    BY <1>4, <2>1
<1>6. ASSUME NEW q \in Runs, NEW a \in Attempts, NEW seq \in 1..MaxEvents,
             NEW type \in EventTypes, NEW cites \in SUBSET Citable,
             ApplyRunEvent(q, a, seq, type, cites)
      PROVE  Grows
  <2>1. CASE type \in Finished
    <3>1. Answer(q) \in Message /\ runs[q].task \in Tasks
      BY <1>6, MessageFacts, RowsOfStore DEF ApplyRunEvent, Accepts
    <3>2. PICK t \in Tasks : t = runs[q].task
      BY <3>1
    <3>3. messages' = [messages EXCEPT ![t] = Append(@, Answer(q))]
      BY <1>6, <2>1, <3>2 DEF ApplyRunEvent
    <3> QED
      BY <1>4, <3>1, <3>3
  <2>2. CASE type \notin Finished
    BY <1>6, <2>2 DEF ApplyRunEvent
  <2> QED
    BY <2>1, <2>2
<1>7. ASSUME NEW t \in Tasks, DeleteTask(t)
      PROVE  Grows
  <2>1. u # t
    BY <1>1, <1>3, <1>7, DeleteTaskRows DEF NoRow
  <2> QED
    BY <1>7, <2>1, RowsOfStore DEF DeleteTask
<1>8. ASSUME messages' = messages
      PROVE  Grows
  BY <1>8
<1> HIDE DEF Grows
<1>9. Grows
  BY <1>5, <1>6, <1>7, <1>8, StoreCases DEF PrepareResume
<1> QED
  BY <1>2, <1>3, <1>9 DEF Grows

LEMMA BeforeStays ==
  ASSUME StoreInv, StoreStep, NEW r \in StoredRuns, r \in StoredRuns', NEW c, Before(r, c)
  PROVE  Before(r, c)'
<1>1. PICK u : u = runs[r].task
  OBVIOUS
<1>2. /\ runs'[r].task = u
      /\ \A i \in DOMAIN messages[u] : i \in DOMAIN messages'[u] /\ messages'[u][i] = messages[u][i]
  BY <1>1, LogGrows
<1>3. PICK i, j \in DOMAIN messages[u] :
        i < j /\ messages[u][i] = c /\ messages[u][j] = Question(r)
  BY <1>1 DEF Before
<1>4. /\ i \in DOMAIN messages'[u] /\ j \in DOMAIN messages'[u] /\ i < j
      /\ messages'[u][i] = c /\ messages'[u][j] = Question(r)
  BY <1>2, <1>3
<1> QED
  BY <1>2, <1>4 DEF Before, Question

(* RunExecution reads what stands above the question of an active run.     *)
LEMMA RecentIsBefore ==
  ASSUME StoreInv, TranscriptInv, NEW r \in StoredRuns, runs[r].status \in Active,
         NEW c \in RecentMessages(r)
  PROVE  Before(r, c)
<1>1. PICK t \in Tasks : t = runs[r].task
  BY RowsOfStore
<1>2. PICK log : log = messages[t]
  OBVIOUS
<1>3. log \in Seq(Message) /\ log # <<>> /\ log[Len(log)] = Question(r)
  BY <1>1, <1>2, RowsOfStore DEF TranscriptInv, QuestionLast
<1>4. PICK i \in DOMAIN log : log[i] # Question(r) /\ log[i] = c
  BY <1>1, <1>2 DEF RecentMessages
<1>5. Len(log) \in DOMAIN log /\ i < Len(log)
  BY <1>3, <1>4
<1> QED
  BY <1>1, <1>2, <1>3, <1>4, <1>5 DEF Before
(* Who writes snapshots, and what the others leave alone.                  *)
LEMMA ExecutionCases ==
  ASSUME TypeInv, [Next]_vars
  PROVE  \/ execution' = execution
         \/ \E h \in Requests : FreezeSnapshot(h)
         \/ \E r \in Runs : PrepareResume(r)
         \/ \E t \in Tasks : DeleteTask(t)
<1>1. ASSUME NEW h \in Requests, Advance(h) \/ Stream(h)
      PROVE  execution' = execution \/ FreezeSnapshot(h)
  BY <1>1
  DEF Advance, Announce, AnnounceFails, Replay, ReadSnapshot, FreezeFails, Deliver,
      DeliverFails, ReadOutcome, SettleInterrupts, SettleFindsSettled, InterruptRun,
      Stream, StreamEvent, StreamRejects, ApplyRunEvent, storeVars, runVars
<1>2. ASSUME NEW h \in Requests, NEW k \in Keys, NEW body \in Bodies,
             \/ \E r \in Runs, t \in Tasks : Start(h, k, body, r, t)
             \/ StartAgain(h, k, body)
      PROVE  execution' = execution
  BY <1>2 DEF Start, BeginRun, StartAgain, storeVars, runVars
<1>3. ASSUME NEW h \in Requests, StreamEnds(h) \/ Disconnect(h)
      PROVE  execution' = execution
  BY <1>3 DEF StreamEnds, Disconnect, storeVars, runVars
<1>4. ASSUME NEW h \in Requests, NEW r \in Runs, Resume(h, r)
      PROVE  PrepareResume(r)
  BY <1>4 DEF Resume
<1>5. CASE EditMemory \/ Restart \/ UNCHANGED vars
  BY <1>5 DEF EditMemory, Restart, vars, storeVars, runVars
<1>6. ASSUME NEW r \in Runs, Cancel(r)
      PROVE  execution' = execution
  BY <1>6 DEF Cancel, CancelRun
<1>7. ASSUME NEW t \in Tasks, Delete(t)
      PROVE  DeleteTask(t)
  BY <1>7 DEF Delete
<1> QED
  BY <1>1, <1>2, <1>3, <1>4, <1>5, <1>6, <1>7 DEF Next

LEMMA FreezeExecution ==
  ASSUME TypeInv, NEW h \in Requests, FreezeSnapshot(h)
  PROVE  \E r \in StoredRuns, a \in Attempts :
           /\ r = req[h].run
           /\ \A q \in Runs, b \in Attempts :
                \/ execution'[q][b] = execution[q][b]
                \/ /\ q = r /\ b = a
                   /\ execution'[q][b].recent = req[h].recent
                   /\ execution'[q][b].memory = memorySnap[q][b]
           /\ UNCHANGED <<tasks, messages, runs, memorySnap>>
<1>1. PICK r : r = req[h].run
  OBVIOUS
<1>2. PICK a : a = req[h].attempt
  OBVIOUS
<1>3. PICK recent : recent = req[h].recent
  OBVIOUS
<1>4. InsertSnapshot(r, a, recent)
  BY <1>1, <1>2, <1>3 DEF FreezeSnapshot
<1>5. r \in StoredRuns /\ r \in Runs /\ a \in Attempts
  BY <1>1, <1>2, <1>4 DEF InsertSnapshot, StoredRuns, TypeInv, RequestsLinked, FreezeSnapshot, At
<1>6. /\ execution \in [Runs -> [Attempts -> Snapshot \cup {NoSnapshot}]]
      /\ execution' = [execution EXCEPT ![r][a] =
           IF @ = NoSnapshot THEN BuiltSnapshot(r, a, recent) ELSE @]
  BY <1>4 DEF InsertSnapshot, TypeInv, TypeOK, RunStoreTypeOK
<1>7. BuiltSnapshot(r, a, recent).recent = recent
      /\ BuiltSnapshot(r, a, recent).memory = memorySnap[r][a]
  BY DEF BuiltSnapshot
<1>8. ASSUME NEW q \in Runs, NEW b \in Attempts, execution'[q][b] # execution[q][b]
      PROVE  q = r /\ b = a /\ execution'[q][b] = BuiltSnapshot(r, a, recent)
  BY <1>5, <1>6, <1>8
<1>9. UNCHANGED <<tasks, messages, runs, memorySnap>>
  BY <1>4 DEF InsertSnapshot
<1> QED
  BY <1>1, <1>3, <1>5, <1>7, <1>8, <1>9

LEMMA PrepareResumeExecution ==
  ASSUME StoreInv, NEW r \in Runs, PrepareResume(r)
  PROVE  LET a == runs[r].attempt IN
         /\ a \in Attempts /\ a + 1 \in Attempts
         /\ execution[r][a] # NoSnapshot
         /\ execution'[r][a + 1].recent = execution[r][a].recent
         /\ execution'[r][a + 1].memory = execution[r][a].memory
         /\ memorySnap'[r][a + 1] = memorySnap[r][a]
         /\ \A q \in Runs, b \in Attempts : q # r \/ b # a + 1 =>
              execution'[q][b] = execution[q][b] /\ memorySnap'[q][b] = memorySnap[q][b]
<1> DEFINE a == runs[r].attempt
<1>1. r \in StoredRuns
  BY PrepareResumeRows DEF StoredRuns
<1>2. a \in Attempts /\ a < MaxAttempts /\ execution[r][a] # NoSnapshot
  BY <1>1, RowsOfStore DEF PrepareResume
<1>3. PICK b : b = a + 1
  OBVIOUS
<1>4. b \in Attempts
  BY <1>2, <1>3 DEF Attempts
<1>5. PICK copy : copy = [execution[r][a] EXCEPT !.resume = TRUE]
  OBVIOUS
<1>6. /\ execution' = [execution EXCEPT ![r][b] = copy]
      /\ memorySnap' = [memorySnap EXCEPT ![r][b] = memorySnap[r][a]]
  BY <1>3, <1>5 DEF PrepareResume, ResumedSnapshot
<1>7. execution[r][a] \in Snapshot
  BY <1>2, RowsOfStore
<1>8. copy.recent = execution[r][a].recent /\ copy.memory = execution[r][a].memory
  BY <1>5, <1>7 DEF Snapshot
<1> HIDE DEF a
<1>9. /\ execution'[r][b] = copy /\ memorySnap'[r][b] = memorySnap[r][a]
      /\ \A q \in Runs, c \in Attempts : q # r \/ c # b =>
           execution'[q][c] = execution[q][c] /\ memorySnap'[q][c] = memorySnap[q][c]
  BY <1>4, <1>6, RowsOfStore
<1> QED
  BY <1>2, <1>3, <1>4, <1>8, <1>9 DEF a

LEMMA SnapshotsCopiedStep ==
  ASSUME TypeInv, SnapshotsCopied, [Next]_vars
  PROVE  SnapshotsCopied'
<1>0. StoreInv /\ StoreStep
  BY NextIsStoreStep DEF TypeInv, TypeOK, StoreInv
<1>1. 1 \in Attempts /\ \A a \in Attempts : a >= 1 /\ a \in Nat
  BY DEF Attempts
<1>2. ASSUME NEW r \in Runs, PrepareResume(r)
      PROVE  SnapshotsCopied'
  <2>1. /\ \A q \in Runs \ {r} : runs'[q] = runs[q]
        /\ runs[r].status = "interrupted" /\ runs'[r].status = "running"
        /\ runs'[r].attempt = runs[r].attempt + 1
    BY <1>0, <1>2, PrepareResumeRows
  <2>2. PICK a \in Attempts : a = runs[r].attempt
    BY <1>0, <1>2, PrepareResumeExecution
  <2>3. PICK b \in Attempts : b = a + 1
    BY <1>0, <1>2, <2>2, PrepareResumeExecution
  <2>4. /\ execution[r][a] # NoSnapshot
        /\ execution'[r][b].memory = execution[r][a].memory
        /\ memorySnap'[r][b] = memorySnap[r][a]
        /\ \A q \in Runs, c \in Attempts : q # r \/ c # b =>
             execution'[q][c] = execution[q][c] /\ memorySnap'[q][c] = memorySnap[q][c]
    BY <1>0, <1>2, <2>2, <2>3, PrepareResumeExecution
  <2>5. memorySnap[r][a] = memorySnap[r][1] /\ execution[r][a].memory = memorySnap[r][a]
    <3>1. r \in StoredRuns /\ a <= runs[r].attempt
      BY <1>1, <2>1, <2>2 DEF StoredRuns
    <3> QED
      BY <2>4, <3>1 DEF SnapshotsCopied
  <2>6. b # 1 /\ \A c \in Attempts : c <= b => c = b \/ c <= a
    BY <1>1, <2>3
  <2> SUFFICES ASSUME NEW q \in Runs, NEW c \in Attempts
               PROVE  /\ runs'[q].status = "unissued" =>
                           runs'[q].attempt = 0 /\ execution'[q][c] = NoSnapshot
                      /\ execution'[q][c] # NoSnapshot => execution'[q][c].memory = memorySnap'[q][c]
                      /\ q \in StoredRuns' /\ c <= runs'[q].attempt =>
                           memorySnap'[q][c] = memorySnap'[q][1]
    BY DEF SnapshotsCopied
  <2>7. CASE q # r
    BY <1>1, <2>1, <2>4, <2>7 DEF SnapshotsCopied, StoredRuns
  <2>8. CASE q = r
    <3>1. memorySnap'[r][1] = memorySnap[r][1]
      BY <1>1, <2>4, <2>6
    <3>2. CASE c = b
      BY <2>1, <2>4, <2>5, <2>8, <3>1, <3>2
    <3>3. CASE c # b
      <4>1. c <= runs'[r].attempt => memorySnap[r][c] = memorySnap[r][1]
        BY <2>1, <2>2, <2>3, <2>6, <3>3 DEF SnapshotsCopied, StoredRuns
      <4> QED
        BY <2>1, <2>4, <2>8, <3>1, <3>3, <4>1 DEF SnapshotsCopied
    <3> QED
      BY <3>2, <3>3
  <2> QED
    BY <2>7, <2>8
<1>3. ASSUME NEW t \in Tasks, DeleteTask(t)
      PROVE  SnapshotsCopied'
  <2>1. \A q \in Runs : runs'[q] = IF runs[q].task = t THEN NoRow("deleted") ELSE runs[q]
    BY <1>0, <1>3, DeleteTaskRows
  <2>2. \A q \in Runs, c \in Attempts :
          /\ execution'[q][c] = IF runs[q].task = t THEN NoSnapshot ELSE execution[q][c]
          /\ runs[q].task # t => memorySnap'[q] = memorySnap[q]
    BY <1>3 DEF DeleteTask, RunsOf
  <2>3. NoRow("deleted").status = "deleted"
    BY DEF NoRow
  <2> QED
    BY <1>1, <2>1, <2>2, <2>3 DEF SnapshotsCopied, StoredRuns
<1>4. ASSUME NEW h \in Requests, FreezeSnapshot(h)
      PROVE  SnapshotsCopied'
  <2>1. PICK r \in StoredRuns, a \in Attempts :
           /\ \A q \in Runs, b \in Attempts :
                \/ execution'[q][b] = execution[q][b]
                \/ q = r /\ b = a /\ execution'[q][b].memory = memorySnap[q][b]
           /\ UNCHANGED <<runs, memorySnap>>
    BY <1>4, FreezeExecution
  <2>2. StoredRuns' = StoredRuns
    BY <2>1 DEF StoredRuns
  <2> QED
    BY <1>1, <2>1, <2>2 DEF SnapshotsCopied, StoredRuns
<1>5. CASE execution' = execution
  <2>1. ASSUME NEW k \in Keys, NEW body \in Bodies, NEW r \in Runs, NEW t \in Tasks,
               BeginRun(k, body, r, t)
        PROVE  SnapshotsCopied'
    <3>1. /\ \A q \in Runs \ {r} : runs'[q] = runs[q]
          /\ runs[r].status = "unissued"
          /\ runs'[r].status = "running" /\ runs'[r].attempt = 1
      <4>1. runs'[r] = [status |-> "running", task |-> t, body |-> body,
                        attempt |-> 1, next |-> 1, cited |-> {}]
        BY <1>0, <2>1, BeginRunRows
      <4> QED
        BY <1>0, <2>1, <4>1, BeginRunRows
    <3>2. \A q \in Runs \ {r} : memorySnap'[q] = memorySnap[q]
      BY <1>0, <2>1, RowsOfStore DEF BeginRun
    <3>3. \A c \in Attempts : execution[r][c] = NoSnapshot /\ (c <= 1 => c = 1)
      BY <1>1, <3>1 DEF SnapshotsCopied
    <3> QED
      BY <1>1, <1>5, <3>1, <3>2, <3>3 DEF SnapshotsCopied, StoredRuns
  <2>2. ASSUME NEW r \in Runs, memorySnap' = memorySnap,
               \A q \in Runs \ {r} : runs'[q] = runs[q],
               r \in StoredRuns, runs'[r].status # "unissued", runs'[r].attempt = runs[r].attempt
        PROVE  SnapshotsCopied'
    BY <1>1, <1>5, <2>2 DEF SnapshotsCopied, StoredRuns
  <2>3. ASSUME NEW r \in Runs, NEW a \in Attempts, NEW seq \in 1..MaxEvents,
               NEW type \in EventTypes, NEW cites \in SUBSET Citable,
               ApplyRunEvent(r, a, seq, type, cites)
        PROVE  SnapshotsCopied'
    <3>1. /\ \A q \in Runs \ {r} : runs'[q] = runs[q]
          /\ r \in StoredRuns /\ runs'[r].status # "unissued"
          /\ runs'[r].attempt = runs[r].attempt
      BY <1>0, <2>3, ApplyRunEventRows DEF EventTypes, Finished, StoredRuns
    <3> QED
      BY <2>2, <2>3, <3>1 DEF ApplyRunEvent
  <2>4. ASSUME NEW r \in StoredRuns, NEW status \in {"interrupted", "cancelled"},
               runs' = [runs EXCEPT ![r].status = status], memorySnap' = memorySnap
        PROVE  SnapshotsCopied'
    <3>1. /\ \A q \in Runs \ {r} : runs'[q] = runs[q]
          /\ runs'[r].status = status /\ runs'[r].attempt = runs[r].attempt
      BY <1>0, <2>4, StatusRows
    <3> QED
      BY <2>2, <2>4, <3>1 DEF StoredRuns
  <2>5. CASE UNCHANGED <<runs, memorySnap>>
    BY <1>1, <1>5, <2>5 DEF SnapshotsCopied, StoredRuns
  <2> QED
    BY <1>0, <1>2, <1>3, <2>1, <2>3, <2>4, <2>5, StoreCases
<1> QED
  BY <1>2, <1>3, <1>4, <1>5, ExecutionCases
(* What waits to be frozen stays above the question of its run.            *)
LEMMA ReadBeforeStep ==
  ASSUME TypeInv, RequestBodies, TranscriptInv, ReadBefore, [Next]_vars
  PROVE  ReadBefore'
<1>0. StoreInv /\ StoreStep /\ HandlerInv
  BY NextIsStoreStep DEF TypeInv, TypeOK, StoreInv, HandlerInv
<1> SUFFICES ASSUME NEW h \in Requests, At(h, "insert")', runs'[req'[h].run].status \in Active,
                    NEW c \in req'[h].recent
             PROVE  Before(req[h].run, c)' /\ req'[h].run = req[h].run
  BY DEF ReadBefore, Before, Question
<1>1. GoesOn(h)
  BY <1>0, RequestStep, BegunStages DEF At
<1>2. PICK r \in Runs : r = req[h].run /\ r = req'[h].run
  BY <1>0, <1>1, BusyRow DEF GoesOn
<1>3. runs[r].status # "unissued" /\ runs'[r].status # "deleted"
  BY <1>1, <1>2 DEF GoesOn, RequestBodies, Active
<1>4. r \in StoredRuns /\ runs[r].status \in Active /\ r \in StoredRuns'
  BY <1>0, <1>2, <1>3, RunLives DEF StoredRuns, Active
<1>5. ASSUME Before(r, c)
      PROVE  Before(req[h].run, c)'
  <2>1. Before(r, c)'
    BY <1>0, <1>4, <1>5, BeforeStays
  <2> QED
    BY <1>2, <2>1 DEF Before, Question
<1>6. CASE req'[h].pc = req[h].pc /\ req'[h].recent = req[h].recent
  <2>1. Before(r, c)
    BY <1>2, <1>4, <1>6 DEF ReadBefore, At
  <2> QED
    BY <1>2, <1>5, <2>1
<1>7. CASE ReadSnapshot(h)
  <2>1. c \in RecentMessages(r)
    BY <1>0, <1>2, <1>7, BegunStages DEF At
  <2>2. Before(r, c)
    BY <1>0, <1>4, <2>1, RecentIsBefore
  <2> QED
    BY <1>2, <1>5, <2>2
<1>8. ASSUME NEW seq \in 1..MaxEvents, NEW type \in EventTypes, NEW cites \in SUBSET Citable,
             StreamEvent(h, seq, type, cites)
      PROVE  FALSE
  BY <1>0, <1>8 DEF StreamEvent, HandlerInv, RequestState, At
<1> QED
  BY <1>1, <1>6, <1>7, <1>8 DEF GoesOn, At

(* What is frozen was read by a handler or copied from the attempt before. *)
LEMMA FrozenBeforeStep ==
  ASSUME TypeInv, SnapshotsCopied, FrozenBefore, ReadBefore, [Next]_vars
  PROVE  FrozenBefore'
<1>0. StoreInv /\ StoreStep
  BY NextIsStoreStep DEF TypeInv, TypeOK, StoreInv
<1> SUFFICES ASSUME NEW r \in StoredRuns', runs'[r].status \in Active, NEW a \in Attempts,
                    execution'[r][a] # NoSnapshot, NEW c \in execution'[r][a].recent
             PROVE  Before(r, c)'
  BY DEF FrozenBefore
<1>1. r \in Runs
  BY DEF StoredRuns
<1>2. ASSUME runs[r].status # "unissued", Before(r, c)
      PROVE  Before(r, c)'
  <2>1. r \in StoredRuns
    BY <1>0, <1>1, <1>2, RunLives DEF StoredRuns, Active
  <2> QED
    BY <1>0, <1>2, <2>1, BeforeStays
<1>3. ASSUME NEW b \in Attempts, execution[r][b] # NoSnapshot, c \in execution[r][b].recent
      PROVE  Before(r, c)'
  <2>1. runs[r].status # "unissued"
    BY <1>1, <1>3 DEF SnapshotsCopied
  <2>2. r \in StoredRuns /\ runs[r].status \in Active
    BY <1>0, <1>1, <2>1, RunLives DEF StoredRuns, Active
  <2>3. Before(r, c)
    BY <1>3, <2>2 DEF FrozenBefore
  <2> QED
    BY <1>2, <2>1, <2>3
<1>4. ASSUME NEW h \in Requests, FreezeSnapshot(h)
      PROVE  Before(r, c)'
  <2>1. PICK q \in StoredRuns, b \in Attempts :
          /\ q = req[h].run
          /\ execution'[r][a] = execution[r][a]
               \/ (r = q /\ execution'[r][a].recent = req[h].recent)
          /\ runs' = runs
    BY <1>1, <1>4, FreezeExecution
  <2>2. CASE r = q /\ execution'[r][a].recent = req[h].recent
    <3>1. Before(r, c)
      BY <1>4, <2>1, <2>2 DEF ReadBefore, FreezeSnapshot
    <3> QED
      BY <1>2, <2>1, <2>2, <3>1 DEF StoredRuns
  <2> QED
    BY <1>3, <2>1, <2>2
<1>5. ASSUME NEW q \in Runs, PrepareResume(q)
      PROVE  Before(r, c)'
  <2>1. PICK b \in Attempts :
          /\ execution[q][b] # NoSnapshot
          /\ \/ execution'[r][a] = execution[r][a]
             \/ r = q /\ execution'[r][a].recent = execution[q][b].recent
    BY <1>0, <1>1, <1>5, PrepareResumeExecution
  <2> QED
    BY <1>3, <2>1
<1>6. ASSUME NEW t \in Tasks, DeleteTask(t)
      PROVE  Before(r, c)'
  BY <1>1, <1>3, <1>6 DEF DeleteTask
<1> QED
  BY <1>3, <1>4, <1>5, <1>6, ExecutionCases

(* A result may name what is frozen for its attempt; afterwards the row,   *)
(* the first snapshot and the log above the question stay.                 *)
LEMMA CitesGroundedStep ==
  ASSUME StoreInv, SnapshotsCopied, FrozenBefore, CitesGrounded, StoreStep
  PROVE  CitesGrounded'
<1> USE DEF Finished
<1>0. 1 \in Attempts
  BY DEF Attempts
<1> SUFFICES ASSUME NEW r \in StoredRuns', runs'[r].status \in Finished, NEW c \in runs'[r].cited
             PROVE  Grounds(r, c)'
  BY DEF CitesGrounded
<1>1. r \in Runs
  BY DEF StoredRuns
<1>2. ASSUME r \in StoredRuns, Grounds(r, c), memorySnap'[r][1] = memorySnap[r][1]
      PROVE  Grounds(r, c)'
  BY <1>2, BeforeStays DEF Grounds
<1>3. ASSUME runs'[r] = runs[r], memorySnap'[r][1] = memorySnap[r][1]
      PROVE  Grounds(r, c)'
  <2>1. r \in StoredRuns
    BY <1>1, <1>3 DEF StoredRuns
  <2> QED
    BY <1>2, <1>3, <2>1 DEF CitesGrounded
<1>4. ASSUME NEW k \in Keys, NEW body \in Bodies, NEW q \in Runs, NEW t \in Tasks,
             BeginRun(k, body, q, t)
      PROVE  Grounds(r, c)'
  <2>1. runs'[q].status = "running"
    <3>1. runs'[q] = [status |-> "running", task |-> t, body |-> body,
                      attempt |-> 1, next |-> 1, cited |-> {}]
      BY <1>4, BeginRunRows
    <3> QED
      BY <3>1
  <2>2. r # q /\ runs'[r] = runs[r]
    BY <1>1, <1>4, <2>1, BeginRunRows
  <2>3. memorySnap'[r] = memorySnap[r]
    BY <1>1, <1>4, <2>2, RowsOfStore DEF BeginRun
  <2> QED
    BY <1>3, <2>2, <2>3
<1>5. ASSUME NEW q \in Runs, NEW a \in Attempts, NEW seq \in 1..MaxEvents,
             NEW type \in EventTypes, NEW cites \in SUBSET Citable,
             ApplyRunEvent(q, a, seq, type, cites)
      PROVE  Grounds(r, c)'
  <2>1. memorySnap' = memorySnap
    BY <1>5 DEF ApplyRunEvent
  <2>2. CASE r # q
    BY <1>1, <1>3, <1>5, <2>1, <2>2, ApplyRunEventRows
  <2>3. CASE r = q
    <3>1. /\ type \in Finished /\ runs[r].status = "running" /\ runs[r].attempt = a
          /\ runs'[r].cited = cites
      <4>1. type \in Finished /\ runs[r].status = "running" /\ runs[r].attempt = a
        BY <1>5, <2>3, ApplyRunEventRows
      <4>2. runs \in [Runs -> RunRow] /\ runs[r] \in RunRow
        BY <1>1, RowsOfStore
      <4> QED
        BY <1>1, <1>5, <2>3, <4>1, <4>2 DEF ApplyRunEvent, RunRow
    <3>2. r \in StoredRuns /\ execution[r][a] # NoSnapshot /\ c \in AllowedContext(r, a)
      BY <1>5, <2>3, <3>1 DEF ApplyRunEvent, Accepts
    <3>3. CASE c \in execution[r][a].recent
      BY <1>2, <2>1, <3>1, <3>2, <3>3 DEF FrozenBefore, Active, Grounds
    <3>4. CASE c \in Memories /\ execution[r][a].memory[c] # 0
      <4>1. execution[r][a].memory = memorySnap[r][a]
        BY <1>1, <3>2 DEF SnapshotsCopied
      <4>2. a <= runs[r].attempt
        BY <3>1 DEF Attempts
      <4>3. memorySnap[r][a] = memorySnap[r][1]
        BY <1>1, <3>2, <4>2 DEF SnapshotsCopied
      <4> QED
        BY <1>2, <2>1, <3>2, <3>4, <4>1, <4>3 DEF Grounds
    <3> QED
      BY <3>2, <3>3, <3>4 DEF AllowedContext
  <2> QED
    BY <2>2, <2>3
<1>6. ASSUME NEW q \in StoredRuns, NEW status \in {"interrupted", "cancelled"},
             runs' = [runs EXCEPT ![q].status = status], memorySnap' = memorySnap
      PROVE  Grounds(r, c)'
  BY <1>1, <1>3, <1>6, StatusRows
<1>7. ASSUME NEW q \in Runs, PrepareResume(q)
      PROVE  Grounds(r, c)'
  <2>1. r # q /\ runs'[r] = runs[r]
    BY <1>1, <1>7, PrepareResumeRows
  <2> QED
    BY <1>0, <1>1, <1>3, <1>7, <2>1, PrepareResumeExecution
<1>8. ASSUME NEW t \in Tasks, DeleteTask(t)
      PROVE  Grounds(r, c)'
  <2>1. runs[r].task # t /\ runs'[r] = runs[r]
    BY <1>1, <1>8, DeleteTaskRows DEF NoRow, StoredRuns
  <2>2. memorySnap'[r] = memorySnap[r]
    BY <1>1, <1>8, <2>1 DEF DeleteTask, RunsOf
  <2> QED
    BY <1>3, <2>1, <2>2
<1>9. CASE UNCHANGED <<runs, memorySnap>>
  BY <1>3, <1>9
<1> QED
  BY <1>4, <1>5, <1>6, <1>7, <1>8, <1>9, StoreCases

ContextInv == SnapshotsCopied /\ FrozenBefore /\ ReadBefore /\ CitesGrounded

LEMMA ContextInvariant == Spec => []ContextInv
<1>1. Init => ContextInv
  <2> SUFFICES ASSUME Init PROVE ContextInv
    OBVIOUS
  <2>1. StoredRuns = {} /\ \A h \in Requests : ~At(h, "insert")
    BY DEF Init, RunStoreInit, StoredRuns, NoRow, Idle, At
  <2>2. SnapshotsCopied
    BY <2>1 DEF Init, RunStoreInit, SnapshotsCopied, NoRow
  <2> QED
    BY <2>1, <2>2 DEF ContextInv, FrozenBefore, ReadBefore, CitesGrounded
<1>2. /\ TypeInv /\ TranscriptInv /\ KeyRows /\ RetryFindsRun /\ RequestBodies /\ ContextInv
      /\ [Next]_vars
      => ContextInv'
  BY SnapshotsCopiedStep, FrozenBeforeStep, ReadBeforeStep, CitesGroundedStep, NextIsStoreStep
  DEF ContextInv, TypeInv, TypeOK, StoreInv
<1> QED
  BY <1>1, <1>2, TypeInvariant, TranscriptInvariant, KeysInvariant, PTL DEF Spec

(* What an answer names as its context stood above the question in the     *)
(* same task, or was a usable memory when the question was asked; no later *)
(* turn, no memory written meanwhile, however many attempts it took.       *)
THEOREM AnswersAreGrounded == Spec => []GroundedAnswer
<1>1. ContextInv => GroundedAnswer
  BY DEF ContextInv, CitesGrounded, Grounds, Before, GroundedAnswer
<1> QED
  BY <1>1, ContextInvariant, PTL

(* A step that begins another attempt of a begun run is PrepareResume.     *)
LEMMA ResumeStep ==
  ASSUME StoreInv, LogInv, SnapshotsCopied, StoreStep,
         NEW r \in Runs, runs[r].attempt > 0, runs'[r].attempt > runs[r].attempt
  PROVE  LET a == runs[r].attempt IN
         /\ runs[r].status = "interrupted" /\ runs'[r].status = "running"
         /\ runs'[r].attempt = a + 1
         /\ \A e \in events' : e.run = r => e.attempt <= a
         /\ execution'[r][a + 1].recent = execution[r][a].recent
         /\ execution'[r][a + 1].memory = execution[r][a].memory
         /\ execution[r][a].memory = memorySnap[r][1] /\ memorySnap'[r][a + 1] = memorySnap[r][1]
         /\ \A m \in Memories : memorySnap[r][1][m] # 0 =>
              m \in Stored /\ memory[m].rev = memorySnap[r][1][m]
<1> USE DEF Finished
<1>0. runs[r].attempt \in Nat /\ runs'[r] # runs[r] /\ runs[r].status # "unissued"
  <2>1. 1 \in Attempts
    BY DEF Attempts
  <2>2. runs[r].attempt \in Nat
    BY RowsOfStore DEF RunRow
  <2>3. runs[r].status # "unissued"
    BY <2>1, <2>2 DEF SnapshotsCopied
  <2> QED
    BY <2>2, <2>3
<1>1. ASSUME NEW k \in Keys, NEW body \in Bodies, NEW q \in Runs, NEW t \in Tasks,
             BeginRun(k, body, q, t)
      PROVE  FALSE
  BY <1>0, <1>1, BeginRunRows
<1>2. ASSUME NEW q \in Runs, NEW a \in Attempts, NEW seq \in 1..MaxEvents,
             NEW type \in EventTypes, NEW cites \in SUBSET Citable,
             ApplyRunEvent(q, a, seq, type, cites)
      PROVE  FALSE
  BY <1>0, <1>2, ApplyRunEventRows
<1>3. ASSUME NEW q \in StoredRuns, NEW status \in {"interrupted", "cancelled"},
             runs' = [runs EXCEPT ![q].status = status]
      PROVE  FALSE
  BY <1>0, <1>3, StatusRows
<1>4. ASSUME NEW t \in Tasks, DeleteTask(t)
      PROVE  FALSE
  BY <1>0, <1>4, DeleteTaskRows DEF NoRow
<1>5. PrepareResume(r)
  BY <1>0, <1>1, <1>2, <1>3, <1>4, PrepareResumeRows, StoreCases
<1>6. PICK a \in Attempts : a = runs[r].attempt
  BY <1>5, PrepareResumeExecution
<1>7. /\ execution[r][a] # NoSnapshot
      /\ execution'[r][a + 1].recent = execution[r][a].recent
      /\ execution'[r][a + 1].memory = execution[r][a].memory
  BY <1>5, <1>6, PrepareResumeExecution
<1>8. /\ execution[r][a].memory = memorySnap[r][1] /\ memorySnap'[r][a + 1] = memorySnap[r][1]
      /\ \A m \in Memories : memorySnap[r][1][m] # 0 =>
           m \in Stored /\ memory[m].rev = memorySnap[r][1][m]
  <2>1. execution[r][a].memory = memorySnap[r][a]
    BY <1>7 DEF SnapshotsCopied
  <2>2. r \in StoredRuns /\ a <= runs[r].attempt
    <3>1. r \in StoredRuns
      BY <1>5, PrepareResumeRows DEF StoredRuns
    <3>2. a \in Nat
      BY DEF Attempts
    <3> QED BY <1>6, <3>1, <3>2
  <2>3. memorySnap[r][a] = memorySnap[r][1]
    BY <1>6, <2>2 DEF SnapshotsCopied
  <2>4. memorySnap'[r][a + 1] = memorySnap[r][a]
    BY <1>5, <1>6, PrepareResumeExecution
  <2> QED
    BY <1>5, <1>6, <2>1, <2>3, <2>4 DEF PrepareResume, SnapshotCurrent
<1>9. events' = events /\ \A e \in events : e.run = r => e.attempt <= a
  BY <1>5, <1>6 DEF PrepareResume, LogInv, EventsOfRows
<1> QED
  BY <1>5, <1>6, <1>7, <1>8, <1>9, PrepareResumeRows

(* A new attempt starts only from an interrupted run, with an empty log,   *)
(* with the messages and the memories frozen for the attempt before it,    *)
(* which are those frozen when the run began, and only while each of these *)
(* is still stored as it was then (control_store.go:624-701).              *)
THEOREM ResumesKeepContext == Spec => ResumeKeepsContext
<1> DEFINE Keeps ==
      \A r \in Runs : runs[r].attempt > 0 /\ runs'[r].attempt > runs[r].attempt =>
        LET a == runs[r].attempt IN
        /\ runs[r].status = "interrupted" /\ runs'[r].status = "running"
        /\ runs'[r].attempt = a + 1
        /\ \A e \in events' : e.run = r => e.attempt <= a
        /\ execution'[r][a + 1].recent = execution[r][a].recent
        /\ execution'[r][a + 1].memory = execution[r][a].memory
        /\ execution[r][a].memory = memorySnap[r][1] /\ memorySnap'[r][a + 1] = memorySnap[r][1]
        /\ \A m \in Memories : memorySnap[r][1][m] # 0 =>
             m \in Stored /\ memory[m].rev = memorySnap[r][1][m]
<1>1. TypeInv /\ LogInv /\ ContextInv /\ [Next]_vars => [Keeps]_vars
  BY NextIsStoreStep, ResumeStep DEF TypeInv, TypeOK, StoreInv, ContextInv
<1> QED
  BY <1>1, TypeInvariant, LogInvariant, ContextInvariant, PTL DEF Spec, ResumeKeepsContext
=============================================================================
