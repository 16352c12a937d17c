--------------------------- MODULE KnowledgeProofs ---------------------------
(***************************************************************************)
(* Proofs about the knowledge base, for every number of requests, names,   *)
(* errors and restarts.  No two of its stores share a transaction; what    *)
(* holds them together is that a request is one command, that its thread   *)
(* writes nothing after its answer, and that a source has one row.         *)
(***************************************************************************)
EXTENDS KnowledgeProperties, TLAPS

(* A command is given once, when the handler leaves "idle"; a document is  *)
(* named by its upload, and a deletion is of an uploaded document.         *)
Given(h) ==
  /\ Handles(h, "idle") <=> command[h] = NoCommand
  /\ Ingests(h) => Document(h) = h
  /\ Deletes(h) => Ingests(Document(h)) /\ command[h].source = command[Document(h)].source

(* A thread works for a command that was sent, and has answered for good   *)
(* when it ends; what it finds to be replaced has the name of its command. *)
Answered(h) ==
  /\ handler[h] \in {"idle", "call"} => At(h, "none")
  /\ job[h] \in {"save", "index", "add", "added"} => Ingests(h)
  /\ answer[h] = "ready" => Ingests(h) /\ At(h, "end")
  /\ answer[h] = "deleted" => Deletes(h) /\ At(h, "end")
  /\ At(h, "end") => answer[h] # "none"
  /\ Handles(h, "result") => At(h, "end")
  /\ \A c \in found[h] : command[h] # NoCommand /\ c.source = command[h].source

(* Rows belong to uploads; "ready" is what the thread answered, and a row  *)
(* goes only for a deletion.                                               *)
Rowed(d) ==
  /\ catalogue[d] # "none" => Ingests(d)
  /\ Ready(d) => answer[d] = "ready"
  /\ Ingests(d) => Listed(d) \/ \E h \in Requests : Deletes(h) /\ Document(h) = d

BaseInv == TypeOK /\ \A h \in Requests : Given(h) /\ Answered(h) /\ Rowed(h)

USE IndexesAssumption

-----------------------------------------------------------------------------
(* Types                                                                   *)

LEMMA CommandFields ==
  ASSUME TypeOK, NEW h \in Requests, command[h] # NoCommand
  PROVE  /\ Document(h) \in Requests /\ command[h].source \in Sources
         /\ Ingests(h) \/ Deletes(h)
         /\ ~(Ingests(h) /\ Deletes(h))
BY DEF TypeOK, IndexesTypeOK, Command, Document, Ingests, Deletes

(* A thread that runs has a command.                                       *)
LEMMA Working ==
  ASSUME BaseInv, NEW h \in Requests, ~At(h, "none")
  PROVE  /\ command[h] # NoCommand /\ Document(h) \in Requests
         /\ Ingests(h) \/ Deletes(h)
BY CommandFields DEF BaseInv, Given, Answered, Handles, At

(* What an upload writes for a command, and what a deletion.               *)
LEMMA NewCommand ==
  ASSUME NEW h \in Requests, NEW d \in Requests, NEW source \in Sources,
         NEW kind \in {"ingest", "delete"}
  PROVE  /\ [kind |-> kind, document |-> d, source |-> source] \in Command
         /\ [kind |-> kind, document |-> d, source |-> source] # NoCommand
BY DEF Command

(* The threads: what a step leaves alone, and where it goes.               *)
LEMMA ProcessFrame ==
  ASSUME BaseInv, NEW h \in Requests, Process(h)
  PROVE  /\ ~At(h, "none") /\ ~At(h, "end")
         /\ \A g \in Requests \ {h} :
              job'[g] = job[g] /\ answer'[g] = answer[g] /\ found'[g] = found[g]
         /\ UNCHANGED command
<1>1. /\ job \in [Requests -> JobStages] /\ answer \in [Requests -> Answers]
      /\ found \in [Requests -> SUBSET Chunk]
  BY DEF BaseInv, TypeOK, IndexesTypeOK
<1> QED
  BY <1>1 DEF Process, SaveArtifact, ReplaceVersion, RefuseVersion, FindSource, Purge, AddChunks,
    CountChunks, Unindex, Unsave, JobFails, Guarded, Unguarded, Undo, EndWith, Goto, At

(* The types of what a thread writes about itself.                         *)
LEMMA ProcessTypes ==
  ASSUME BaseInv, NEW h \in Requests, Process(h)
  PROVE  IndexesTypeOK'
<1>1. /\ IndexesTypeOK
      /\ Document(h) \in Requests /\ command[h].source \in Sources
      /\ ~At(h, "none")
  BY ProcessFrame, Working, CommandFields DEF BaseInv, TypeOK
<1>2. ASSUME NEW pc \in JobStages, Goto(h, pc)
      PROVE  job' \in [Requests -> JobStages]
  BY <1>1, <1>2 DEF Goto, IndexesTypeOK
<1>3. ASSUME NEW status \in Answers, answer' = [answer EXCEPT ![h] = status]
      PROVE  answer' \in [Requests -> Answers]
  BY <1>1, <1>3 DEF IndexesTypeOK
<1>4. Fault => faults' \in 0..MaxFaults
  BY <1>1 DEF Fault, IndexesTypeOK
<1>5. /\ {"index", "find", "purge", "add", "added", "unindex", "unsave", "end"} \subseteq JobStages
      /\ {"ready", "failed", "deleted"} \subseteq Answers
      /\ Replaced(h) \in JobStages
  BY DEF JobStages, Answers, Replaced
<1>6. CASE SaveArtifact(h)
  BY <1>1, <1>2, <1>5, <1>6 DEF SaveArtifact, IndexesTypeOK, indexVars
<1>7. CASE ReplaceVersion(h)
  BY <1>1, <1>2, <1>5, <1>7 DEF ReplaceVersion, IndexesTypeOK, indexVars
<1>8. CASE RefuseVersion(h)
  BY <1>1, <1>2, <1>3, <1>5, <1>8 DEF RefuseVersion, Undo, IndexesTypeOK, indexVars, storeVars
<1>9. CASE FindSource(h)
  <2>1. PICK same \in SUBSET Chunk :
          /\ found' = [found EXCEPT ![h] = same]
          /\ Goto(h, IF same = {} THEN Replaced(h) ELSE "purge")
    BY <1>1, <1>9 DEF FindSource, IndexesTypeOK
  <2>2. found' \in [Requests -> SUBSET Chunk] /\ job' \in [Requests -> JobStages]
    BY <1>1, <1>2, <1>5, <2>1 DEF IndexesTypeOK
  <2> QED
    BY <1>1, <1>9, <2>2 DEF FindSource, IndexesTypeOK, indexVars, storeVars
<1>10. CASE Purge(h)
  <2>1. found' \in [Requests -> SUBSET Chunk]
    BY <1>1, <1>10 DEF Purge, IndexesTypeOK
  <2> QED
    BY <1>1, <1>2, <1>5, <1>10, <2>1 DEF Purge, IndexesTypeOK, indexVars
<1>11. CASE AddChunks(h)
  <2>1. ChunksOf(Document(h)) \in Chunk
    BY <1>1, ProcessFrame, Working, CommandFields, <1>11
    DEF AddChunks, ChunksOf, Chunk, BaseInv, Given, Answered, At, Ingests
  <2> QED
    BY <1>1, <1>2, <1>5, <1>11, <2>1 DEF AddChunks, IndexesTypeOK, indexVars
<1>12. CASE CountChunks(h)
  BY <1>1, <1>2, <1>3, <1>4, <1>5, <1>12
  DEF CountChunks, EndWith, Undo, IndexesTypeOK, indexVars, storeVars
<1>13. CASE Unindex(h)
  BY <1>1, <1>2, <1>5, <1>13 DEF Unindex, IndexesTypeOK, indexVars
<1>14. CASE Unsave(h)
  BY <1>1, <1>2, <1>3, <1>5, <1>14 DEF Unsave, EndWith, IndexesTypeOK, indexVars
<1>15. CASE JobFails(h)
  BY <1>1, <1>2, <1>3, <1>4, <1>5, <1>15
  DEF JobFails, EndWith, Undo, IndexesTypeOK, indexVars, storeVars
<1> QED
  BY <1>6, <1>7, <1>8, <1>9, <1>10, <1>11, <1>12, <1>13, <1>14, <1>15 DEF Process
-----------------------------------------------------------------------------
(* The basic invariant                                                     *)

(* Where a thread goes.                                                    *)
LEMMA ProcessAnswers ==
  ASSUME BaseInv, NEW h \in Requests, Process(h), handler' = handler
  PROVE  Answered(h)'
<1>1. /\ job \in [Requests -> JobStages] /\ answer \in [Requests -> Answers]
      /\ found \in [Requests -> SUBSET Chunk] /\ vectors \in SUBSET Chunk
      /\ command' = command
      /\ command[h] # NoCommand /\ (Ingests(h) \/ Deletes(h)) /\ ~(Ingests(h) /\ Deletes(h))
      /\ Answered(h) /\ ~At(h, "none") /\ ~At(h, "end")
      /\ Ingests(h)' = Ingests(h) /\ Deletes(h)' = Deletes(h)
  BY ProcessFrame, Working, CommandFields DEF BaseInv, TypeOK, IndexesTypeOK, Ingests, Deletes
<1>2. ~(answer[h] \in {"ready", "deleted"}) /\ handler[h] \notin {"idle", "call", "result"}
  BY <1>1 DEF Answered, Handles
<1>3. ASSUME NEW pc \in {"index", "find", "purge", "add", "added", "unindex", "unsave"},
             Goto(h, pc), answer'[h] \in {answer[h], "failed"},
             pc \in {"index", "add", "added"} => Ingests(h),
             \A c \in found'[h] : c.source = command[h].source
      PROVE  Answered(h)'
  BY <1>1, <1>2, <1>3 DEF Answered, Goto, At, Handles
<1>4. ASSUME NEW status \in {"ready", "failed", "deleted"}, EndWith(h, status), found' = found,
             status = "ready" => Ingests(h), status = "deleted" => Deletes(h)
      PROVE  Answered(h)'
  BY <1>1, <1>2, <1>4 DEF Answered, EndWith, Goto, At, Handles
<1>5. Undo(h) /\ found' = found => Answered(h)'
  BY <1>1, <1>3 DEF Undo, Answered
<1>6. \A c \in found[h] : c.source = command[h].source
  BY <1>1 DEF Answered
<1>7. Ingests(h) => Replaced(h) = "add"
  BY DEF Replaced
<1>8. ~Ingests(h) => Replaced(h) = "unindex"
  BY DEF Replaced
<1>9. CASE SaveArtifact(h)
  BY <1>1, <1>3, <1>6, <1>9 DEF SaveArtifact, Answered, At
<1>10. CASE ReplaceVersion(h) \/ RefuseVersion(h)
  BY <1>3, <1>5, <1>6, <1>10 DEF ReplaceVersion, RefuseVersion
<1>11. CASE FindSource(h)
  <2>1. PICK same \in SUBSET vectors :
          /\ \A c \in same : c.source = command[h].source
          /\ found' = [found EXCEPT ![h] = same]
          /\ Goto(h, IF same = {} THEN Replaced(h) ELSE "purge")
    BY <1>11 DEF FindSource
  <2>2. found'[h] = same
    BY <1>1, <2>1
  <2>3. answer' = answer
    BY <1>11 DEF FindSource
  <2> QED
    BY <1>3, <1>7, <1>8, <2>1, <2>2, <2>3
<1>12. CASE Purge(h)
  <2>1. found'[h] = {} /\ answer' = answer /\ Goto(h, Replaced(h))
    BY <1>1, <1>12 DEF Purge
  <2> QED
    BY <1>3, <1>7, <1>8, <2>1
<1>13. CASE AddChunks(h)
  BY <1>1, <1>3, <1>6, <1>13 DEF AddChunks, Answered, At
<1>14. CASE CountChunks(h)
  BY <1>1, <1>4, <1>5, <1>14 DEF CountChunks, Answered, At
<1>15. CASE Unindex(h)
  BY <1>1, <1>3, <1>6, <1>15 DEF Unindex
<1>16. CASE Unsave(h)
  BY <1>1, <1>4, <1>16 DEF Unsave
<1>17. CASE JobFails(h)
  BY <1>4, <1>5, <1>17 DEF JobFails
<1> QED
  BY <1>9, <1>10, <1>11, <1>12, <1>13, <1>14, <1>15, <1>16, <1>17 DEF Process

(* A thread that has answered does not touch its answer again.             *)
LEMMA ProcessBase ==
  ASSUME BaseInv, NEW h \in Requests, Process(h), UNCHANGED handlerVars
  PROVE  BaseInv'
<1>1. TypeOK'
  BY ProcessTypes DEF BaseInv, TypeOK, handlerVars
<1>2. /\ command' = command /\ UNCHANGED <<catalogue, handler, seen, left>>
      /\ \A g \in Requests \ {h} :
           job'[g] = job[g] /\ answer'[g] = answer[g] /\ found'[g] = found[g]
  BY ProcessFrame DEF handlerVars
<1>3. answer[h] # "ready"
  BY ProcessFrame DEF BaseInv, Answered
<1>4. ASSUME NEW g \in Requests
      PROVE  Given(g)' /\ Rowed(g)'
  BY <1>2, <1>3 DEF BaseInv, Given, Rowed, Handles, Ingests, Deletes, Document, Ready, Listed
<1>5. ASSUME NEW g \in Requests \ {h}
      PROVE  Answered(g)'
  BY <1>2 DEF BaseInv, Answered, Handles, At, Ingests, Deletes
<1>6. Answered(h)'
  BY <1>2, ProcessAnswers
<1> QED
  BY <1>1, <1>4, <1>5, <1>6 DEF BaseInv

(* A new command.                                                          *)
LEMMA UploadBase ==
  ASSUME BaseInv, NEW h \in Requests, NEW source \in Sources, Upload(h, source)
  PROVE  BaseInv'
<1> DEFINE new == [kind |-> "ingest", document |-> h, source |-> source]
<1>1. /\ TypeOK /\ new \in Command /\ new # NoCommand
      /\ command[h] = NoCommand /\ Answered(h) /\ At(h, "none")
  BY NewCommand DEF BaseInv, Given, Answered, Upload, Handles
<1>2. /\ command' = [command EXCEPT ![h] = new]
      /\ handler' = [handler EXCEPT ![h] = "call"]
      /\ catalogue' = [catalogue EXCEPT ![h] = "processing"]
      /\ UNCHANGED <<job, found, answer, vectors, evidence, artifacts, index, dirty, building,
                     read, builds, faults, seen, left>>
  BY DEF Upload, Advance, jobVars, storeVars, indexVars
<1>3. /\ new.kind = "ingest" /\ new.document = h /\ new.source = source
      /\ command'[h] = new /\ handler'[h] = "call" /\ catalogue'[h] = "processing"
      /\ \A g \in Requests \ {h} :
           command'[g] = command[g] /\ handler'[g] = handler[g] /\ catalogue'[g] = catalogue[g]
  BY <1>1, <1>2 DEF TypeOK, IndexesTypeOK
<1> HIDE DEF new
<1>4. TypeOK'
  BY <1>1, <1>2 DEF TypeOK, IndexesTypeOK, Statuses, HandlerStages
<1>5. /\ ~Ingests(h) /\ ~Deletes(h) /\ Ingests(h)' /\ ~Deletes(h)'
      /\ \A g \in Requests \ {h} : Ingests(g)' = Ingests(g) /\ Deletes(g)' = Deletes(g)
  BY <1>1, <1>3 DEF Ingests, Deletes
<1>6. Given(h)' /\ Answered(h)' /\ Rowed(h)'
  BY <1>1, <1>2, <1>3, <1>5 DEF Given, Answered, Rowed, Handles, At, Document, Ready, Listed
<1>7. ASSUME NEW g \in Requests \ {h}
      PROVE  Given(g)' /\ Answered(g)' /\ Rowed(g)'
  <2>1. Given(g) /\ Answered(g) /\ Rowed(g)
    BY DEF BaseInv
  <2>2. Deletes(g) => Document(g) \in Requests \ {h}
    BY <1>1, <1>5, <2>1, CommandFields DEF Given, Deletes
  <2>3. Given(g)'
    BY <1>3, <1>5, <2>1, <2>2 DEF Given, Handles, Document
  <2>4. Answered(g)'
    BY <1>2, <1>3, <1>5, <2>1 DEF Answered, Handles, At
  <2>5. \A x \in Requests : Deletes(x) => Deletes(x)' /\ Document(x)' = Document(x)
    BY <1>3, <1>5 DEF Document
  <2>6. Rowed(g)'
    BY <1>2, <1>3, <1>5, <2>1, <2>5 DEF Rowed, Ready, Listed
  <2> QED
    BY <2>3, <2>4, <2>6
<1> QED
  BY <1>4, <1>6, <1>7 DEF BaseInv

LEMMA DeleteBase ==
  ASSUME BaseInv, NEW h \in Requests, NEW name \in Names, Delete(h, name)
  PROVE  BaseInv'
<1>1. PICK d \in Lookup(name) :
        /\ command' = [command EXCEPT
             ![h] = [kind |-> "delete", document |-> d, source |-> command[d].source]]
        /\ seen' = [seen EXCEPT ![h] = catalogue[d]]
  BY DEF Delete
<1> DEFINE new == [kind |-> "delete", document |-> d, source |-> command[d].source]
<1>2. /\ TypeOK /\ command[h] = NoCommand /\ Answered(h) /\ At(h, "none")
      /\ d \in Requests /\ Listed(d)
  BY <1>1 DEF BaseInv, Given, Answered, Delete, Handles, Lookup, ListedAt
<1>3. /\ Ingests(d) /\ Given(d) /\ catalogue[d] \in Statuses
      /\ command[d].source \in Sources
    BY <1>2, CommandFields DEF BaseInv, Rowed, Listed, Ingests, TypeOK
<1>4. /\ new \in Command /\ new # NoCommand
      /\ new.kind = "delete" /\ new.document = d /\ new.source = command[d].source
  BY <1>2, <1>3, NewCommand
<1> HIDE DEF new
<1>5. /\ handler' = [handler EXCEPT ![h] = "call"]
      /\ UNCHANGED <<job, found, answer, vectors, evidence, artifacts, index, dirty, building,
                     read, builds, faults, catalogue, left>>
  BY DEF Delete, Advance, jobVars, storeVars, indexVars
<1>6. /\ command'[h] = new /\ handler'[h] = "call"
      /\ \A g \in Requests \ {h} : command'[g] = command[g] /\ handler'[g] = handler[g]
  BY <1>1, <1>2, <1>5 DEF TypeOK, IndexesTypeOK, new
<1>7. TypeOK'
  BY <1>1, <1>2, <1>3, <1>4, <1>5 DEF TypeOK, IndexesTypeOK, HandlerStages, new
<1>8. /\ ~Ingests(h) /\ ~Deletes(h) /\ ~Ingests(h)' /\ Deletes(h)'
      /\ \A g \in Requests \ {h} : Ingests(g)' = Ingests(g) /\ Deletes(g)' = Deletes(g)
  BY <1>2, <1>4, <1>6 DEF Ingests, Deletes
<1>9. d # h
  BY <1>3, <1>8
<1>10. Given(h)' /\ Answered(h)'
  BY <1>2, <1>3, <1>4, <1>5, <1>6, <1>8, <1>9 DEF Given, Answered, Handles, At, Document
<1>11. ASSUME NEW g \in Requests
       PROVE  Rowed(g)'
  <2>1. \A x \in Requests : Deletes(x) => Deletes(x)' /\ Document(x)' = Document(x)
    BY <1>6, <1>8 DEF Document
  <2> QED
    BY <1>5, <1>8, <2>1 DEF BaseInv, Rowed, Ready, Listed
<1>12. ASSUME NEW g \in Requests \ {h}
       PROVE  Given(g)' /\ Answered(g)'
  <2>1. Given(g) /\ Answered(g)
    BY DEF BaseInv
  <2>2. Deletes(g) => Document(g) \in Requests \ {h}
    BY <1>2, <1>8, <2>1, CommandFields DEF Given, Deletes
  <2>3. Given(g)'
    BY <1>6, <1>8, <2>1, <2>2 DEF Given, Handles, Document
  <2>4. Answered(g)'
    BY <1>5, <1>6, <1>8, <2>1 DEF Answered, Handles, At
  <2> QED
    BY <2>3, <2>4
<1> QED
  BY <1>7, <1>10, <1>11, <1>12 DEF BaseInv
(* A handler goes on, and may have recorded something.                     *)
Recorded(d) ==
  \/ catalogue'[d] = catalogue[d]
  \/ /\ Listed(d)
     /\ catalogue'[d] \in {"ready", "failed", "deleted"}
     /\ catalogue'[d] = "ready" => answer[d] = "ready"
     /\ catalogue'[d] = "deleted" => \E x \in Requests : Deletes(x) /\ Document(x) = d

LEMMA MovedBase ==
  ASSUME BaseInv, NEW h \in Requests, NEW stage \in {"wait", "result", "fail", "done"},
         ~Handles(h, "idle"), handler' = [handler EXCEPT ![h] = stage],
         stage = "result" => At(h, "end"),
         UNCHANGED <<command, faults, jobVars, storeVars, indexVars, seen, left>>,
         catalogue' \in [Requests -> Statuses], \A d \in Requests : Recorded(d)
  PROVE  BaseInv'
<1>1. /\ TypeOK /\ UNCHANGED <<job, found, answer, vectors, evidence, artifacts, index, dirty,
                              building, read, builds, faults, seen, left, command>>
  BY DEF BaseInv, jobVars, storeVars, indexVars
<1>2. handler' \in [Requests -> HandlerStages] /\ handler'[h] = stage
      /\ \A g \in Requests \ {h} : handler'[g] = handler[g]
  BY <1>1 DEF TypeOK, HandlerStages
<1>3. TypeOK'
  BY <1>1, <1>2 DEF TypeOK, IndexesTypeOK
<1>4. ASSUME NEW g \in Requests
      PROVE  Given(g)' /\ Answered(g)'
  BY <1>1, <1>2 DEF BaseInv, Given, Answered, Handles, At, Ingests, Deletes, Document
<1>5. ASSUME NEW g \in Requests
      PROVE  Rowed(g)'
  <2>1. Rowed(g) /\ Recorded(g)
    BY DEF BaseInv
  <2> QED
    BY <1>1, <2>1 DEF Rowed, Recorded, Ready, Listed, Ingests, Deletes, Document
<1> QED
  BY <1>3, <1>4, <1>5 DEF BaseInv

(* Record changes one row, if it is listed.                                *)
LEMMA RecordBase ==
  ASSUME BaseInv, NEW h \in Requests, handler[h] \in {"fail", "result"},
         handler' = [handler EXCEPT ![h] = "done"],
         UNCHANGED <<command, faults, jobVars, storeVars, indexVars, seen, left>>,
         NEW d \in Requests, NEW status \in {"ready", "failed", "deleted"}, Record(d, status),
         status = "ready" => answer[d] = "ready",
         status = "deleted" => \E x \in Requests : Deletes(x) /\ Document(x) = d
  PROVE  BaseInv'
<1>1. catalogue \in [Requests -> Statuses] /\ ~Handles(h, "idle")
  BY DEF BaseInv, TypeOK, Handles
<1>2. catalogue' \in [Requests -> Statuses] /\ \A g \in Requests : Recorded(g)
  BY <1>1 DEF Record, Recorded, Statuses
<1> QED
  BY <1>1, <1>2, MovedBase

LEMMA HandleBase ==
  ASSUME BaseInv, NEW h \in Requests, Handle(h)
  PROVE  BaseInv'
<1>0. TypeOK /\ Given(h) /\ Answered(h) /\ Rowed(h) /\ catalogue \in [Requests -> Statuses]
  BY DEF BaseInv, TypeOK
<1>1. catalogue' = catalogue => \A d \in Requests : Recorded(d)
  BY DEF Recorded
<1>2. CASE Send(h)
  <2> DEFINE pc == IF Ingests(h) THEN "save" ELSE "find"
  <2>1. /\ At(h, "none") /\ handler[h] = "call" /\ command[h] # NoCommand
        /\ answer[h] \notin {"ready", "deleted"}
    BY <1>0, <1>2 DEF Send, Answered, Given, Handles, At
  <2>2. /\ job' = [job EXCEPT ![h] = pc] /\ handler' = [handler EXCEPT ![h] = "wait"]
        /\ UNCHANGED <<found, answer, vectors, evidence, artifacts, index, dirty,
                       building, read, builds, faults, catalogue, seen, left, command>>
    BY <1>2 DEF Send, Goto, Advance, storeVars, indexVars
  <2>3. pc \in {"save", "find"} /\ (pc = "save" => Ingests(h))
    OBVIOUS
  <2> HIDE DEF pc
  <2>4. /\ job'[h] = pc /\ handler'[h] = "wait"
        /\ \A g \in Requests \ {h} : job'[g] = job[g] /\ handler'[g] = handler[g]
    BY <1>0, <2>2 DEF TypeOK, IndexesTypeOK
  <2>5. TypeOK'
    BY <1>0, <2>2, <2>3 DEF TypeOK, IndexesTypeOK, HandlerStages, JobStages
  <2>6. ASSUME NEW g \in Requests
        PROVE  Given(g)' /\ Rowed(g)'
    BY <2>1, <2>2, <2>4 DEF BaseInv, Given, Rowed, Handles, Ingests, Deletes, Document, Ready, Listed
  <2>7. ASSUME NEW g \in Requests \ {h}
        PROVE  Answered(g)'
    BY <2>2, <2>4 DEF BaseInv, Answered, Handles, At, Ingests, Deletes
  <2>8. Answered(h)'
    BY <1>0, <2>1, <2>2, <2>3, <2>4 DEF Answered, Handles, At, Ingests, Deletes
  <2> QED
    BY <2>5, <2>6, <2>7, <2>8 DEF BaseInv
<1>3. CASE Receive(h)
  BY <1>0, <1>1, <1>3, MovedBase DEF Receive, Advance, Handles
<1>4. CASE CallFails(h)
  <2>1. PICK stage \in {"fail", "done"} : handler' = [handler EXCEPT ![h] = stage]
    BY <1>4 DEF CallFails, Advance
  <2> QED
    BY <1>0, <1>1, <1>4, <2>1, MovedBase DEF CallFails, Handles
<1>5. CASE RecordFailure(h)
  BY <1>5, RecordBase DEF RecordFailure, Advance, Handles
<1>6. CASE Complete(h)
  <2>1. answer[h] \in {"ready", "failed"}
    <3>1. Ingests(h) => ~Deletes(h)
      BY DEF Ingests, Deletes
    <3> QED
      BY <1>0, <1>6, <3>1 DEF Complete, Answered, Handles, At, TypeOK, IndexesTypeOK, Answers
  <2> QED
    BY <1>6, <2>1, RecordBase DEF Complete, Advance, Handles
<1>7. CASE Remove(h)
  <2>1. Document(h) \in Requests
    BY <1>0, <1>7, CommandFields DEF Remove, Deletes
  <2> QED
    BY <1>7, <2>1, RecordBase DEF Remove, Advance, Handles
<1>8. CASE GiveUp(h)
  BY <1>0, <1>1, <1>8, MovedBase DEF GiveUp, Advance, Handles
<1> QED
  BY <1>2, <1>3, <1>4, <1>5, <1>6, <1>7, <1>8 DEF Handle

(* The handlers and the threads of a process that stops are lost.          *)
LEMMA RestartBase ==
  ASSUME BaseInv, Restart
  PROVE  BaseInv'
<1>1. /\ TypeOK /\ UNCHANGED <<job, found, answer, vectors, evidence, artifacts, index, dirty,
                              building, read, builds, catalogue, seen, left, command>>
      /\ faults' \in 0..MaxFaults
  BY DEF BaseInv, Restart, Fault, TypeOK, IndexesTypeOK, jobVars, storeVars, indexVars
<1>2. \A g \in Requests : handler'[g] = IF handler[g] \in {"idle", "done"} THEN handler[g] ELSE "lost"
  BY DEF Restart
<1>3. TypeOK'
  BY <1>1 DEF Restart, TypeOK, IndexesTypeOK, HandlerStages
<1>4. ASSUME NEW g \in Requests
      PROVE  Given(g)' /\ Answered(g)' /\ Rowed(g)'
  BY <1>1, <1>2
  DEF BaseInv, Given, Answered, Rowed, Handles, At, Ingests, Deletes, Document, Ready, Listed
<1> QED
  BY <1>3, <1>4 DEF BaseInv

LEMMA ReloadBase ==
  ASSUME BaseInv, RuntimeRestarts
  PROVE  BaseInv'
<1>1. /\ TypeOK /\ UNCHANGED <<found, answer, vectors, evidence, artifacts, builds, handler,
                              catalogue, seen, left, command>>
      /\ faults' \in 0..MaxFaults
  BY DEF BaseInv, RuntimeRestarts, Reload, Fault, TypeOK, IndexesTypeOK, handlerVars, storeVars
<1>2. \A g \in Requests : job'[g] = IF job[g] \in {"none", "end"} THEN job[g] ELSE "lost"
  BY DEF RuntimeRestarts, Reload
<1>3. TypeOK'
  BY <1>1 DEF RuntimeRestarts, Reload, TypeOK, IndexesTypeOK, JobStages
<1>4. ASSUME NEW g \in Requests
      PROVE  Given(g)' /\ Answered(g)' /\ Rowed(g)'
  BY <1>1, <1>2
  DEF BaseInv, Given, Answered, Rowed, Handles, At, Ingests, Deletes, Document, Ready, Listed
<1> QED
  BY <1>3, <1>4 DEF BaseInv

(* The index has no part in it.                                            *)
LEMMA BuildBase ==
  ASSUME BaseInv, BuildReads \/ BuildEnds \/ UNCHANGED indexVars,
         UNCHANGED <<command, jobVars, storeVars, catalogue, handler, seen>>,
         faults' \in 0..MaxFaults, left' \in SUBSET Requests
  PROVE  BaseInv'
<1>1. TypeOK /\ UNCHANGED <<job, found, answer, vectors, evidence, artifacts, handler,
                           catalogue, seen, command>>
  BY DEF BaseInv, jobVars, storeVars
<1>2. /\ index' \in SUBSET Chunk /\ read' \in SUBSET Chunk /\ builds' \in 0..MaxBuilds
      /\ dirty' \in BOOLEAN /\ building' \in BOOLEAN
  <2>1. CASE BuildReads
    BY <1>1, <2>1 DEF BuildReads, TypeOK, IndexesTypeOK
  <2>2. CASE BuildEnds
    BY <1>1, <2>2 DEF BuildEnds, TypeOK, IndexesTypeOK
  <2>3. CASE UNCHANGED indexVars
    BY <1>1, <2>3 DEF indexVars, TypeOK, IndexesTypeOK
  <2> QED
    BY <2>1, <2>2, <2>3
<1>3. TypeOK'
  BY <1>1, <1>2 DEF TypeOK, IndexesTypeOK
<1>4. ASSUME NEW g \in Requests
      PROVE  Given(g)' /\ Answered(g)' /\ Rowed(g)'
  BY <1>1
  DEF BaseInv, Given, Answered, Rowed, Handles, At, Ingests, Deletes, Document, Ready, Listed
<1> QED
  BY <1>3, <1>4 DEF BaseInv

LEMMA BaseStep == BaseInv /\ [Next]_vars => BaseInv'
<1> SUFFICES ASSUME BaseInv, [Next]_vars PROVE BaseInv'
  OBVIOUS
<1>0. faults \in 0..MaxFaults /\ left \in SUBSET Requests
  BY DEF BaseInv, TypeOK, IndexesTypeOK
<1>1. ASSUME NEW h \in Requests, ClientLeaves(h)
      PROVE  BaseInv'
  <2>1. UNCHANGED <<indexVars, command, jobVars, storeVars, catalogue, handler, seen>>
    BY <1>1 DEF ClientLeaves
  <2>2. faults' \in 0..MaxFaults /\ left' \in SUBSET Requests
    BY <1>0, <1>1 DEF ClientLeaves, Fault
  <2> QED
    BY <2>1, <2>2, BuildBase
<1>2. CASE (BuildReads \/ BuildEnds) /\ UNCHANGED handlerVars
  BY <1>0, <1>2, BuildBase DEF BuildReads, BuildEnds, handlerVars
<1>3. CASE UNCHANGED vars
  BY <1>0, <1>3, BuildBase DEF vars, handlerVars
<1> QED
  BY <1>1, <1>2, <1>3, UploadBase, DeleteBase, HandleBase, ProcessBase, RestartBase, ReloadBase
  DEF Next

LEMMA BaseInvariant == Spec => []BaseInv
<1>1. Init => BaseInv
  <2> SUFFICES ASSUME Init PROVE BaseInv
    OBVIOUS
  <2>1. TypeOK
    <3>1. 0 \in 0..MaxBuilds /\ 0 \in 0..MaxFaults
      OBVIOUS
    <3>2. IndexesTypeOK
      BY <3>1 DEF Init, IndexesInit, IndexesTypeOK, JobStages, Answers
    <3> QED
      BY <3>2 DEF Init, TypeOK, Statuses, HandlerStages
  <2>2. ASSUME NEW h \in Requests
        PROVE  Given(h) /\ Answered(h) /\ Rowed(h)
    BY DEF Init, IndexesInit, Given, Answered, Rowed, Handles, At, Ingests, Deletes, Ready
  <2> QED
    BY <2>1, <2>2 DEF BaseInv
<1> QED
  BY <1>1, BaseStep, PTL DEF Spec

(* Commands, threads, stores, rows and handlers stay well formed: every    *)
(* thread that runs has a command that names an uploaded document.         *)
THEOREM KnowledgeTypeCorrect == Spec => []TypeOK
<1>1. BaseInv => TypeOK
  BY DEF BaseInv
<1> QED
  BY <1>1, BaseInvariant, PTL
-----------------------------------------------------------------------------
(* What a step may do                                                      *)

(* A step that is no upload, no deletion and none of a thread starts a     *)
(* thread or loses some, and writes neither answers nor stores.            *)
Quiet ==
  /\ UNCHANGED <<command, seen, found, answer, vectors, evidence, artifacts>>
  /\ \A g \in Requests :
       \/ job'[g] = job[g]
       \/ job'[g] = "lost" /\ ~At(g, "end")
       \/ At(g, "none") /\ job'[g] = IF Ingests(g) THEN "save" ELSE "find"

LEMMA StepCases ==
  ASSUME BaseInv, [Next]_vars
  PROVE  \/ \E h \in Requests, source \in Sources : Upload(h, source)
         \/ \E h \in Requests, name \in Names : Delete(h, name)
         \/ \E h \in Requests : Process(h) /\ UNCHANGED handlerVars
         \/ Quiet
<1>0. job \in [Requests -> JobStages]
  BY DEF BaseInv, TypeOK, IndexesTypeOK
<1>1. ASSUME UNCHANGED <<command, seen, jobVars, storeVars>>
      PROVE  Quiet
  BY <1>1 DEF Quiet, jobVars, storeVars
<1>2. ASSUME NEW h \in Requests, Send(h)
      PROVE  Quiet
  <2>1. At(h, "none")
    BY <1>2 DEF BaseInv, Answered, Send, Handles
  <2>2. \A g \in Requests : job'[g] = IF g = h THEN IF Ingests(h) THEN "save" ELSE "find" ELSE job[g]
    BY <1>0, <1>2 DEF Send, Goto
  <2> QED
    BY <1>2, <2>1, <2>2 DEF Quiet, Send, storeVars
<1>3. ASSUME NEW h \in Requests, Handle(h), ~Send(h)
      PROVE  Quiet
  BY <1>1, <1>3
  DEF Handle, Receive, CallFails, RecordFailure, Complete, Remove, GiveUp
<1>4. CASE RuntimeRestarts
  BY <1>4 DEF RuntimeRestarts, Reload, handlerVars, storeVars, Quiet, At
<1>5. ASSUME NEW h \in Requests, ClientLeaves(h)
      PROVE  Quiet
  BY <1>1, <1>5 DEF ClientLeaves
<1>6. CASE Restart \/ UNCHANGED vars
  BY <1>1, <1>6 DEF Restart, vars, handlerVars
<1>7. CASE (BuildReads \/ BuildEnds) /\ UNCHANGED handlerVars
  BY <1>1, <1>7 DEF BuildReads, BuildEnds, handlerVars
<1> QED
  BY <1>2, <1>3, <1>4, <1>5, <1>6, <1>7 DEF Next

(* What is given and what is answered stay.                                *)
LEMMA Kept ==
  ASSUME BaseInv, [Next]_vars, NEW h \in Requests
  PROVE  /\ command[h] # NoCommand =>
              /\ command'[h] = command[h] /\ Document(h)' = Document(h)
              /\ Ingests(h)' = Ingests(h) /\ Deletes(h)' = Deletes(h)
         /\ answer[h] \in {"ready", "deleted"} => answer'[h] = answer[h]
         /\ At(h, "end") => At(h, "end")'
<1>0. command \in [Requests -> Command \cup {NoCommand}] /\ Given(h) /\ Answered(h)
  BY DEF BaseInv, TypeOK, IndexesTypeOK
<1>1. ASSUME NEW g \in Requests, NEW source \in Sources, Upload(g, source)
      PROVE  /\ command[h] # NoCommand => command'[h] = command[h]
             /\ answer' = answer /\ job' = job
  BY <1>0, <1>1 DEF Upload, Given, Handles, jobVars
<1>2. ASSUME NEW g \in Requests, NEW name \in Names, Delete(g, name)
      PROVE  /\ command[h] # NoCommand => command'[h] = command[h]
             /\ answer' = answer /\ job' = job
  BY <1>0, <1>2 DEF Delete, Given, Handles, jobVars
<1>3. ASSUME NEW g \in Requests, Process(g)
      PROVE  /\ command' = command
             /\ answer[h] \in {"ready", "deleted"} \/ At(h, "end") =>
                  answer'[h] = answer[h] /\ job'[h] = job[h]
  BY <1>0, <1>3, ProcessFrame DEF Answered
<1>4. ASSUME Quiet
      PROVE  /\ command' = command /\ answer' = answer
             /\ At(h, "end") => At(h, "end")'
  BY <1>4 DEF Quiet, At
<1>5. command[h] # NoCommand => command'[h] = command[h]
  BY <1>1, <1>2, <1>3, <1>4, StepCases
<1>6. answer[h] \in {"ready", "deleted"} => answer'[h] = answer[h]
  BY <1>1, <1>2, <1>3, <1>4, StepCases
<1>7. At(h, "end") => At(h, "end")'
  BY <1>1, <1>2, <1>3, <1>4, StepCases DEF At
<1> QED
  BY <1>5, <1>6, <1>7 DEF Ingests, Deletes, Document
(* What a thread adds to the stores is of its own document, and what it    *)
(* removes is of its document, or has the name of its command.             *)
LEMMA ProcessStores ==
  ASSUME BaseInv, NEW g \in Requests, Process(g)
  PROVE  /\ vectors' \subseteq vectors \cup {ChunksOf(g)} /\ vectors \ found[g] \subseteq vectors'
         /\ evidence' \subseteq evidence \cup {g} /\ evidence \ {Document(g)} \subseteq evidence'
         /\ artifacts' \subseteq artifacts \cup {g} /\ artifacts \ {Document(g)} \subseteq artifacts'
<1>1. Given(g) /\ Answered(g)
  BY DEF BaseInv
<1>2. CASE SaveArtifact(g)
  BY <1>1, <1>2 DEF SaveArtifact, Given, Answered, At
<1>3. CASE ReplaceVersion(g)
  BY <1>1, <1>3 DEF ReplaceVersion, Given, Answered, At
<1>4. CASE AddChunks(g)
  BY <1>1, <1>4 DEF AddChunks, Given, Answered, At
<1>5. CASE RefuseVersion(g) \/ FindSource(g) \/ CountChunks(g) \/ JobFails(g)
  BY <1>5 DEF RefuseVersion, FindSource, CountChunks, JobFails, storeVars
<1>6. CASE Purge(g) \/ Unindex(g) \/ Unsave(g)
  BY <1>6 DEF Purge, Unindex, Unsave
<1> QED
  BY <1>2, <1>3, <1>4, <1>5, <1>6 DEF Process

-----------------------------------------------------------------------------
(* One row for a source                                                    *)

(* A second document of the same name needs a deletion of that name.       *)
OnePerSource ==
  \A d, g \in Requests :
    Ingests(d) /\ Ingests(g) /\ d # g /\ command[d].source = command[g].source =>
      \E h \in Requests : Deletes(h) /\ command[h].source = command[d].source

LEMMA OnePerSourceStep == BaseInv /\ OnePerSource /\ [Next]_vars => OnePerSource'
<1> SUFFICES ASSUME BaseInv, OnePerSource, [Next]_vars,
                    NEW d \in Requests, NEW g \in Requests,
                    Ingests(d)', Ingests(g)', d # g, command'[d].source = command'[g].source
             PROVE  \E h \in Requests : Deletes(h)' /\ command'[h].source = command'[d].source
  BY DEF OnePerSource
<1>1. ASSUME NEW h \in Requests, Deletes(h)
      PROVE  Deletes(h)' /\ command'[h].source = command[h].source
  BY <1>1, Kept DEF Deletes
<1>2. CASE Ingests(d) /\ Ingests(g)
  BY <1>1, <1>2, Kept DEF OnePerSource, Ingests
(* The new one is let in when the other is not listed.                     *)
<1>3. ASSUME NEW h \in Requests, NEW source \in Sources, Upload(h, source),
             NEW x \in Requests, x # h, Ingests(x)', command'[x].source = source
      PROVE  \E y \in Requests : Deletes(y)' /\ command'[y].source = source
  <2>1. command'[x] = command[x] /\ Ingests(x) /\ command[x].source = source
    BY <1>3 DEF Upload, BaseInv, TypeOK, IndexesTypeOK, Ingests
  <2>2. ~Listed(x)
    BY <1>3, <2>1 DEF Upload, ListedAt
  <2>3. PICK y \in Requests : Deletes(y) /\ Document(y) = x
    BY <2>1, <2>2 DEF BaseInv, Rowed
  <2>4. command[y].source = source
    BY <2>1, <2>3 DEF BaseInv, Given
  <2> QED
    BY <1>1, <2>3, <2>4
<1>4. ASSUME NEW h \in Requests, NEW source \in Sources, Upload(h, source)
      PROVE  command'[h].source = source
  BY <1>4 DEF Upload, BaseInv, TypeOK, IndexesTypeOK
<1>5. ASSUME NEW h \in Requests, NEW source \in Sources, Upload(h, source), NEW x \in Requests, x # h
      PROVE  Ingests(x)' = Ingests(x)
  BY <1>5 DEF Upload, BaseInv, TypeOK, IndexesTypeOK, Ingests
<1>6. ASSUME NEW h \in Requests, NEW name \in Names, Delete(h, name), NEW x \in Requests
      PROVE  Ingests(x)' => Ingests(x)
  BY <1>6 DEF Delete, BaseInv, TypeOK, IndexesTypeOK, Ingests
<1>7. command' = command => Ingests(d) /\ Ingests(g)
  BY DEF Ingests
<1> QED
  BY <1>2, <1>3, <1>4, <1>5, <1>6, <1>7, StepCases, ProcessFrame DEF Quiet

-----------------------------------------------------------------------------
(* Confirmed deletions                                                     *)

(* Who saw a document ready deletes it after its thread has ended, ...     *)
SeenReady(h) == Deletes(h) /\ seen[h] = "ready" => answer[Document(h)] = "ready"

(* ... finds its chunks and removes the parts one by one.                  *)
Removed(h) ==
  Deletes(h) /\ seen[h] = "ready" =>
    LET d == Document(h) IN
    /\ At(h, "purge") => (ChunksOf(d) \in vectors => ChunksOf(d) \in found[h])
    /\ job[h] \in {"unindex", "unsave"} => ChunksOf(d) \notin vectors
    /\ At(h, "unsave") => d \notin evidence
    /\ answer[h] = "deleted" =>
         ChunksOf(d) \notin vectors /\ d \notin evidence /\ d \notin artifacts

(* The steps of the deleting thread itself.                                *)
LEMMA RemovesItself ==
  ASSUME BaseInv, NEW h \in Requests, Process(h), Deletes(h), SeenReady(h), Removed(h),
         seen' = seen, seen[h] = "ready"
  PROVE  Removed(h)'
<1>1. PICK d \in Requests : d = Document(h)
  BY CommandFields DEF BaseInv, Deletes
<1>2. /\ job \in [Requests -> JobStages] /\ answer \in [Requests -> Answers]
      /\ found \in [Requests -> SUBSET Chunk]
  BY DEF BaseInv, TypeOK, IndexesTypeOK
<1>3. /\ command' = command /\ ~At(h, "end") /\ Answered(h) /\ Given(h) /\ ~Ingests(h)
      /\ answer[h] # "deleted" /\ command[h].source = command[d].source
  BY <1>1, ProcessFrame DEF BaseInv, Given, Answered, Ingests, Deletes
<1>4. PICK chunks : chunks = ChunksOf(d)
  OBVIOUS
<1>4a. ChunksOf(d)' = chunks /\ chunks.source = command[h].source
  BY <1>3, <1>4 DEF ChunksOf
<1>5. /\ Document(h)' = d
      /\ At(h, "purge") => (chunks \in vectors => chunks \in found[h])
      /\ job[h] \in {"unindex", "unsave"} => chunks \notin vectors
      /\ At(h, "unsave") => d \notin evidence
  BY <1>1, <1>3, <1>4 DEF Removed, Document
<1> SUFFICES /\ job'[h] = "purge" => (chunks \in vectors' => chunks \in found'[h])
             /\ job'[h] \in {"unindex", "unsave"} => chunks \notin vectors'
             /\ job'[h] = "unsave" => d \notin evidence'
             /\ answer'[h] = "deleted" =>
                  chunks \notin vectors' /\ d \notin evidence' /\ d \notin artifacts'
  BY <1>4a, <1>5 DEF Removed, At
<1>6. ~At(h, "save") /\ ~At(h, "index") /\ ~At(h, "add") /\ ~At(h, "added")
  BY <1>3 DEF Answered, At
<1>7. CASE FindSource(h)
  <2>1. PICK same : /\ same = {c \in vectors : c.source = command[h].source}
                    /\ found' = [found EXCEPT ![h] = same]
                    /\ job' = [job EXCEPT ![h] = IF same = {} THEN Replaced(h) ELSE "purge"]
    BY <1>7 DEF FindSource, Goto
  <2>2. /\ found'[h] = same /\ job'[h] = IF same = {} THEN "unindex" ELSE "purge"
    BY <1>2, <1>3, <2>1 DEF Replaced
  <2>3. vectors' = vectors /\ answer' = answer
    BY <1>7 DEF FindSource, storeVars
  <2> QED
    BY <1>4a, <1>3, <2>1, <2>2, <2>3
<1>8. CASE Purge(h)
  <2>1. job'[h] = "unindex" /\ vectors' = vectors \ found[h] /\ answer' = answer /\ At(h, "purge")
    BY <1>2, <1>3, <1>8 DEF Purge, Goto, Replaced
  <2> QED
    BY <1>3, <1>5, <2>1
<1>9. CASE Unindex(h)
  <2>1. /\ job'[h] = "unsave" /\ evidence' = evidence \ {d} /\ vectors' = vectors
        /\ answer' = answer /\ At(h, "unindex")
    BY <1>1, <1>2, <1>9 DEF Unindex, Goto
  <2> QED
    BY <1>3, <1>5, <2>1 DEF At
<1>10. CASE Unsave(h)
  <2>1. /\ job'[h] = "end" /\ artifacts' = artifacts \ {d} /\ UNCHANGED <<vectors, evidence>>
        /\ At(h, "unsave")
    BY <1>1, <1>2, <1>10 DEF Unsave, EndWith, Goto
  <2> QED
    BY <1>5, <2>1 DEF At
<1>11. CASE JobFails(h)
  <2>1. job'[h] = "end" /\ answer'[h] = "failed"
    BY <1>2, <1>3, <1>11 DEF JobFails, Guarded, EndWith, Goto
  <2> QED
    BY <2>1
<1> QED
  BY <1>6, <1>7, <1>8, <1>9, <1>10, <1>11
  DEF Process, SaveArtifact, ReplaceVersion, RefuseVersion, AddChunks, CountChunks
(* The other threads add nothing of a document whose thread has ended.     *)
LEMMA RemovedStep ==
  ASSUME BaseInv, [Next]_vars, NEW h \in Requests, Removed(h), SeenReady(h)
  PROVE  Removed(h)' /\ SeenReady(h)'
<1>1. Given(h) /\ Answered(h) /\ command \in [Requests -> Command \cup {NoCommand}]
      /\ seen \in [Requests -> Statuses]
  BY DEF BaseInv, TypeOK, IndexesTypeOK
<1>2. ASSUME NEW name \in Names, Delete(h, name)
      PROVE  Removed(h)' /\ SeenReady(h)'
  <2>1. PICK d \in Lookup(name) :
          /\ command' = [command EXCEPT
               ![h] = [kind |-> "delete", document |-> d, source |-> command[d].source]]
          /\ seen' = [seen EXCEPT ![h] = catalogue[d]]
    BY <1>2 DEF Delete
  <2>2. d \in Requests /\ Document(h)' = d /\ seen'[h] = catalogue[d]
    BY <1>1, <2>1 DEF Lookup, ListedAt, Document
  <2>3. job'[h] = "none" /\ answer' = answer /\ answer[h] # "deleted"
    BY <1>1, <1>2 DEF Delete, Answered, Handles, At, jobVars
  <2>4. SeenReady(h)'
    BY <2>2, <2>3 DEF BaseInv, Rowed, Ready, SeenReady
  <2> QED
    BY <2>3, <2>4 DEF Removed, At
<1>3. ASSUME NEW source \in Sources, Upload(h, source)
      PROVE  Removed(h)' /\ SeenReady(h)'
  BY <1>1, <1>3 DEF Upload, Removed, SeenReady, Deletes
<1> DEFINE Asked == Deletes(h) /\ seen[h] = "ready"
(* What the other requests do to a deletion.                               *)
<1>4. ASSUME command'[h] = command[h], seen'[h] = seen[h],
             Asked /\ Deletes(h)' =>
               /\ job'[h] = job[h] \/ job'[h] \notin {"purge", "unindex", "unsave"}
               /\ answer'[h] = answer[h] /\ found'[h] = found[h]
               /\ ChunksOf(Document(h)) \in vectors' => ChunksOf(Document(h)) \in vectors
               /\ Document(h) \in evidence' => Document(h) \in evidence
               /\ Document(h) \in artifacts' => Document(h) \in artifacts
      PROVE  Removed(h)' /\ SeenReady(h)'
  <2>1. Deletes(h)' = Deletes(h) /\ Document(h)' = Document(h)
    BY <1>4 DEF Deletes, Document
  <2>2. CASE Asked
    <3>1. PICK d \in Requests : d = Document(h)
      BY <2>2, CommandFields DEF BaseInv, Deletes
    <3>2. Ingests(d) /\ answer[d] = "ready"
      BY <1>1, <2>2, <3>1 DEF Given, SeenReady
    <3>3. command'[d] = command[d] /\ answer'[d] = "ready"
      BY <3>2, Kept DEF Ingests
    <3>4. PICK chunks : chunks = ChunksOf(d)
      OBVIOUS
    <3>5. ChunksOf(d)' = chunks
      BY <3>3, <3>4 DEF ChunksOf
    <3> QED
      BY <1>4, <2>1, <2>2, <3>1, <3>3, <3>4, <3>5 DEF Removed, SeenReady, At
  <2>3. CASE ~Asked
    BY <1>4, <2>1, <2>3 DEF Removed, SeenReady
  <2> QED
    BY <2>2, <2>3
<1>5. ASSUME NEW g \in Requests \ {h}, NEW source \in Sources, Upload(g, source)
      PROVE  Removed(h)' /\ SeenReady(h)'
  BY <1>1, <1>4, <1>5 DEF Upload, jobVars, storeVars
<1>6. ASSUME NEW g \in Requests \ {h}, NEW name \in Names, Delete(g, name)
      PROVE  Removed(h)' /\ SeenReady(h)'
  BY <1>1, <1>4, <1>6 DEF Delete, jobVars, storeVars
<1>7. ASSUME NEW g \in Requests \ {h}, Process(g), UNCHANGED handlerVars
      PROVE  Removed(h)' /\ SeenReady(h)'
  <2>1. /\ command' = command /\ seen' = seen /\ ~At(g, "end")
        /\ job'[h] = job[h] /\ answer'[h] = answer[h] /\ found'[h] = found[h]
    BY <1>7, ProcessFrame DEF handlerVars
  <2>2. Asked => At(Document(h), "end") /\ Document(h) \in Requests
    BY <1>1, CommandFields DEF SeenReady, BaseInv, Answered, Deletes
  <2>3. Asked => g # Document(h) /\ ChunksOf(g) # ChunksOf(Document(h))
    BY <2>1, <2>2 DEF ChunksOf
  <2> QED
    BY <1>4, <1>7, <2>1, <2>3, ProcessStores
<1>8. ASSUME Process(h), UNCHANGED handlerVars
      PROVE  Removed(h)' /\ SeenReady(h)'
  <2>1. /\ command' = command /\ seen' = seen
    BY <1>8, ProcessFrame DEF handlerVars
  <2>2. Deletes(h)' = Deletes(h) /\ Document(h)' = Document(h)
    BY <2>1 DEF Deletes, Document
  <2>3. Asked => Document(h) \in Requests
    BY CommandFields DEF BaseInv, Deletes
  <2>4. SeenReady(h)'
    BY <2>1, <2>2, <2>3, Kept DEF SeenReady
  <2>5. Removed(h)'
    BY <1>8, <2>1, <2>2, RemovesItself DEF Removed
  <2> QED
    BY <2>4, <2>5
<1>9. CASE Quiet
  BY <1>4, <1>9 DEF Quiet
<1> QED
  BY <1>2, <1>3, <1>5, <1>6, <1>7, <1>8, <1>9, StepCases

(* A deletion that found the document ready and that the runtime confirms  *)
(* leaves nothing of it: its upload's thread has ended, and no other       *)
(* thread writes for it.                                                   *)
THEOREM ConfirmedDeletionsAreComplete == Spec => []ConfirmedIsGone
<1> DEFINE Inv == \A h \in Requests : Removed(h) /\ SeenReady(h)
<1>1. Init => Inv
  BY DEF Init, IndexesInit, Removed, SeenReady, Deletes
<1>2. BaseInv /\ Inv /\ [Next]_vars => Inv'
  BY RemovedStep
<1>3. Inv => ConfirmedIsGone
  BY DEF Removed, ConfirmedIsGone
<1> QED
  BY <1>1, <1>2, <1>3, BaseInvariant, PTL DEF Spec
-----------------------------------------------------------------------------
(* Documents that are ready                                                *)

(* A thread that has put its evidence, or its chunks, in place finds them  *)
(* there to its end and after it, unless a deletion was asked for.         *)
EvidenceStays(d) ==
  /\ Ingests(d)
  /\ job[d] \in {"find", "purge", "add", "added"} \/ answer[d] = "ready"
  /\ \A h \in Requests : Deletes(h) => Document(h) # d
  => d \in evidence /\ d \in artifacts
ChunksStay(d) ==
  /\ Ingests(d)
  /\ At(d, "added") \/ answer[d] = "ready"
  /\ \A h \in Requests : Deletes(h) => command[h].source # command[d].source
  => ChunksOf(d) \in vectors

(* No deletion afterwards means none before.                               *)
LEMMA NoDeletionBefore ==
  ASSUME BaseInv, [Next]_vars, NEW d \in Requests, Ingests(d)
  PROVE  /\ (\A h \in Requests : Deletes(h)' => Document(h)' # d) =>
              \A h \in Requests : Deletes(h) => Document(h) # d
         /\ (\A h \in Requests : Deletes(h)' => command'[h].source # command'[d].source) =>
              \A h \in Requests : Deletes(h) => command[h].source # command[d].source
<1>1. ASSUME NEW h \in Requests, Deletes(h)
      PROVE  Deletes(h)' /\ Document(h)' = Document(h) /\ command'[h].source = command[h].source
  BY <1>1, Kept DEF Deletes
<1>2. command'[d].source = command[d].source
  BY Kept DEF Ingests
<1> QED
  BY <1>1, <1>2

LEMMA EvidenceStaysItself ==
  ASSUME BaseInv, NEW d \in Requests, EvidenceStays(d), Process(d), Ingests(d),
         \A h \in Requests : Deletes(h) => Document(h) # d,
         job'[d] \in {"find", "purge", "add", "added"} \/ answer'[d] = "ready"
  PROVE  d \in evidence' /\ d \in artifacts'
<1>1. /\ job \in [Requests -> JobStages] /\ answer \in [Requests -> Answers]
      /\ Document(d) = d /\ answer[d] # "ready" /\ ~Deletes(d)
  BY ProcessFrame DEF BaseInv, TypeOK, IndexesTypeOK, Given, Answered, Ingests, Deletes
<1>2. CASE ReplaceVersion(d)
  BY <1>1, <1>2 DEF ReplaceVersion
<1>3. CASE FindSource(d) \/ AddChunks(d) \/ CountChunks(d)
  BY <1>3 DEF FindSource, AddChunks, CountChunks, storeVars, EvidenceStays, At
<1>4. CASE Purge(d)
  BY <1>4 DEF Purge, EvidenceStays, At
<1>5. CASE SaveArtifact(d) \/ RefuseVersion(d) \/ Unindex(d) \/ Unsave(d) \/ JobFails(d)
  <2>1. job'[d] \in {"index", "unindex", "unsave", "end"} /\ answer'[d] \in {answer[d], "failed"}
    BY <1>1, <1>5
    DEF SaveArtifact, RefuseVersion, Unindex, Unsave, JobFails, Undo, EndWith, Goto
  <2> QED
    BY <1>1, <2>1
<1> QED
  BY <1>2, <1>3, <1>4, <1>5 DEF Process

LEMMA ChunksStayItself ==
  ASSUME BaseInv, NEW d \in Requests, ChunksStay(d), Process(d), Ingests(d),
         \A h \in Requests : Deletes(h) => command[h].source # command[d].source,
         job'[d] = "added" \/ answer'[d] = "ready"
  PROVE  ChunksOf(d) \in vectors'
<1>1. /\ job \in [Requests -> JobStages] /\ answer \in [Requests -> Answers]
      /\ Document(d) = d /\ answer[d] # "ready"
  BY ProcessFrame DEF BaseInv, TypeOK, IndexesTypeOK, Given, Answered, Ingests
<1>2. CASE AddChunks(d)
  BY <1>1, <1>2 DEF AddChunks
<1>3. CASE CountChunks(d)
  BY <1>3 DEF CountChunks, storeVars, ChunksStay
<1>4. CASE ~AddChunks(d) /\ ~CountChunks(d)
  <2>1. job'[d] # "added" /\ answer'[d] \in {answer[d], "failed", "deleted"}
    BY <1>1, <1>4
    DEF Process, SaveArtifact, ReplaceVersion, RefuseVersion, FindSource, Purge, Unindex, Unsave,
        JobFails, Undo, EndWith, Goto, Replaced
  <2> QED
    BY <1>1, <2>1
<1> QED
  BY <1>2, <1>3, <1>4

LEMMA PartsStayStep ==
  ASSUME BaseInv, OnePerSource, [Next]_vars, NEW d \in Requests, EvidenceStays(d), ChunksStay(d)
  PROVE  EvidenceStays(d)' /\ ChunksStay(d)'
<1>1. Given(d) /\ Answered(d)
  BY DEF BaseInv
(* Steps that write no store bring no thread to where these hold.          *)
<1>2. ASSUME UNCHANGED <<vectors, evidence, artifacts>>, Ingests(d)' => Ingests(d),
             Ingests(d) =>
               /\ job'[d] = job[d] \/ job'[d] \notin {"find", "purge", "add", "added"}
               /\ answer'[d] = answer[d]
      PROVE  EvidenceStays(d)' /\ ChunksStay(d)'
  <2>1. Ingests(d) => ChunksOf(d)' = ChunksOf(d)
    BY Kept DEF Ingests, ChunksOf
  <2> QED
    BY <1>2, <2>1, NoDeletionBefore DEF EvidenceStays, ChunksStay, At
<1>3. ASSUME NEW g \in Requests, NEW source \in Sources, Upload(g, source)
      PROVE  EvidenceStays(d)' /\ ChunksStay(d)'
  <2>1. UNCHANGED <<job, answer, vectors, evidence, artifacts>>
    BY <1>3 DEF Upload, jobVars, storeVars
  <2>2. CASE g = d
    <3>1. job'[d] = "none" /\ answer'[d] # "ready"
      BY <1>1, <1>3, <2>1, <2>2 DEF Upload, Answered, Handles, At
    <3> QED
      BY <3>1 DEF EvidenceStays, ChunksStay, At
  <2>3. CASE g # d
    <3>1. command'[d] = command[d]
      BY <1>3, <2>3 DEF Upload, BaseInv, TypeOK, IndexesTypeOK
    <3> QED
      BY <1>2, <2>1, <3>1 DEF Ingests
  <2> QED
    BY <2>2, <2>3
<1>4. ASSUME NEW g \in Requests, NEW name \in Names, Delete(g, name)
      PROVE  EvidenceStays(d)' /\ ChunksStay(d)'
  <2>1. UNCHANGED <<job, answer, vectors, evidence, artifacts>>
    BY <1>4 DEF Delete, jobVars, storeVars
  <2>2. Ingests(d)' => Ingests(d)
    BY <1>4 DEF Delete, BaseInv, TypeOK, IndexesTypeOK, Ingests
  <2> QED
    BY <1>2, <2>1, <2>2
<1>5. ASSUME NEW g \in Requests, Process(g), UNCHANGED handlerVars
      PROVE  EvidenceStays(d)' /\ ChunksStay(d)'
  <2>1. command' = command
    BY <1>5, ProcessFrame
  <2>2. /\ Ingests(d)' = Ingests(d) /\ ChunksOf(d)' = ChunksOf(d)
        /\ \A h \in Requests : Deletes(h)' = Deletes(h) /\ Document(h)' = Document(h)
    BY <2>1 DEF Ingests, Deletes, Document, ChunksOf
  <2>3. CASE g = d
    BY <1>5, <2>1, <2>2, <2>3, EvidenceStaysItself, ChunksStayItself
    DEF EvidenceStays, ChunksStay, At
  <2>4. CASE g # d
    <3>1. job'[d] = job[d] /\ answer'[d] = answer[d] /\ ~At(g, "none")
      BY <1>5, <2>4, ProcessFrame
    <3>2. (Ingests(g) \/ Deletes(g)) /\ Given(g) /\ Answered(g)
      BY <3>1, Working DEF BaseInv
    (* Another upload undoes its own document only, ...                    *)
    <3>3. (\A h \in Requests : Deletes(h) => Document(h) # d) => Document(g) # d
      BY <2>4, <3>2 DEF Given
    (* ... and replaces no chunks of a document it could not be let in     *)
    (* beside.                                                             *)
    <3>4. /\ Ingests(d)
          /\ \A h \in Requests : Deletes(h) => command[h].source # command[d].source
          => ChunksOf(d) \notin found[g]
      BY <2>4, <3>2 DEF OnePerSource, Answered, ChunksOf
    <3>5. EvidenceStays(d)'
      BY <1>5, <2>2, <3>1, <3>3, ProcessStores DEF EvidenceStays
    <3>6. ChunksStay(d)'
      BY <1>5, <2>1, <2>2, <3>1, <3>4, ProcessStores DEF ChunksStay, At
    <3> QED
      BY <3>5, <3>6
  <2> QED
    BY <2>3, <2>4
<1>6. CASE Quiet
  BY <1>2, <1>6 DEF Quiet, Ingests
<1> QED
  BY <1>3, <1>4, <1>5, <1>6, StepCases

(* What is listed as ready can be found: its evidence, its artifact and    *)
(* its chunks are in place until a deletion of it, or of its name, is      *)
(* asked for, whatever fails, leaves or restarts.                          *)
THEOREM ReadyDocumentsAreComplete == Spec => []ReadyIsComplete
<1> DEFINE Inv == OnePerSource /\ \A d \in Requests : EvidenceStays(d) /\ ChunksStay(d)
<1>1. Init => Inv
  BY DEF Init, IndexesInit, OnePerSource, EvidenceStays, ChunksStay, Ingests
<1>2. BaseInv /\ Inv /\ [Next]_vars => Inv'
  BY OnePerSourceStep, PartsStayStep
<1>3. BaseInv /\ Inv => ReadyIsComplete
  BY DEF BaseInv, Rowed, Answered, EvidenceStays, ChunksStay, ReadyIsComplete, Ready
<1> QED
  BY <1>1, <1>2, <1>3, BaseInvariant, PTL DEF Spec
=============================================================================
