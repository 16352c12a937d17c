------------------------------- MODULE Indexes -------------------------------
(***************************************************************************)
(* The agent runtime's side of the knowledge base: the threads that ingest *)
(* and delete documents (app/document_processing.py) and the stores they   *)
(* write, none of which share a transaction: the chunks in Chroma, which   *)
(* are found by owner and source name, the evidence and the parse          *)
(* artifacts in SQLite, which are found by version, and the BM25 index in  *)
(* memory, which is rebuilt from Chroma when it is marked dirty.  The mark *)
(* is a listener of the searches' VectorStore; documents are written       *)
(* through another one (app/factories.py), which has no listener: only the *)
(* first build clears the mark, and nothing but a restart sets it again.   *)
(*                                                                         *)
(* A document has one version.  It is named by the request that uploads    *)
(* it.  Its chunks are added by one call, so they are one element here.    *)
(***************************************************************************)
EXTENDS Naturals

CONSTANTS
  Requests,         (* all the uploads and deletions there will be         *)
  Names,            (* source names                                        *)
  NoCommand,
  MaxBuilds,        (* bound on rebuilds of the BM25 index                 *)
  MaxFaults         (* bound on errors, leaving clients and restarts       *)

Scopes == {"public", "private"}
Sources == Scopes \X Names

Command == [kind : {"ingest", "delete"}, document : Requests, source : Sources]

ASSUME IndexesAssumption ==
  /\ NoCommand \notin Command
  /\ MaxBuilds \in Nat
  /\ MaxFaults \in Nat

VARIABLES
  command,          (* the DocumentProcess of every request                *)
  job,              (* the thread that processes it                        *)
  found,            (* the chunks delete_by_source has found               *)
  answer,           (* the status of the DocumentResult                    *)
  vectors,          (* the chunks in Chroma                                *)
  evidence,         (* documents with evidence chunks                      *)
  artifacts,        (* documents with a parse artifact                     *)
  index,            (* the chunks in the BM25 index                        *)
  dirty,            (* its mark                                            *)
  building,         (* a search rebuilds it and holds its lock, ...        *)
  read,             (* ... and has read these chunks                       *)
  builds,
  faults

jobVars == <<job, found, answer>>
storeVars == <<vectors, evidence, artifacts>>
indexVars == <<index, dirty, building, read, builds>>

Chunk == [document : Requests, source : Sources]
Answers == {"none", "ready", "failed", "deleted"}

(* The stages of process():                                                *)
(*   save                  load, parse and embed it; save the artifact     *)
(*   index                 chunk and embed its pages; then                 *)
(*                         replace_version_chunks                          *)
(*   find, purge           delete_by_source: get, delete                   *)
(*   add, added            collection.add, count                           *)
(*   unindex, unsave       delete_version, delete the artifact             *)
(*   end, lost             answered; the process is gone                   *)
JobStages ==
  {"none", "save", "index", "find", "purge", "add", "added", "unindex", "unsave",
   "end", "lost"}

IndexesTypeOK ==
  /\ command \in [Requests -> Command \cup {NoCommand}]
  /\ job \in [Requests -> JobStages]
  /\ found \in [Requests -> SUBSET Chunk]
  /\ answer \in [Requests -> Answers]
  /\ vectors \in SUBSET Chunk
  /\ evidence \in SUBSET Requests
  /\ artifacts \in SUBSET Requests
  /\ index \in SUBSET Chunk
  /\ dirty \in BOOLEAN
  /\ building \in BOOLEAN
  /\ read \in SUBSET Chunk
  /\ builds \in 0..MaxBuilds
  /\ faults \in 0..MaxFaults

IndexesInit ==
  /\ command = [h \in Requests |-> NoCommand]
  /\ job = [h \in Requests |-> "none"]
  /\ found = [h \in Requests |-> {}]
  /\ answer = [h \in Requests |-> "none"]
  /\ vectors = {} /\ evidence = {} /\ artifacts = {}
  /\ index = {} /\ dirty = TRUE /\ building = FALSE /\ read = {}
  /\ builds = 0 /\ faults = 0

-----------------------------------------------------------------------------
Fault == faults < MaxFaults /\ faults' = faults + 1

Ingests(h) == command[h] # NoCommand /\ command[h].kind = "ingest"
Deletes(h) == command[h] # NoCommand /\ command[h].kind = "delete"
Document(h) == command[h].document
ChunksOf(d) == [document |-> d, source |-> command[d].source]

At(h, pc) == job[h] = pc
Goto(h, pc) == job' = [job EXCEPT ![h] = pc]
EndWith(h, status) == Goto(h, "end") /\ answer' = [answer EXCEPT ![h] = status]

(* The except clause of _ingest.                                           *)
Undo(h) == Goto(h, "unindex") /\ answer' = [answer EXCEPT ![h] = "failed"]

(* Where delete_by_source returns to.                                      *)
Replaced(h) == IF Ingests(h) THEN "add" ELSE "unindex"

SaveArtifact(h) ==
  /\ At(h, "save")
  /\ artifacts' = artifacts \cup {Document(h)}
  /\ Goto(h, "index")
  /\ UNCHANGED <<command, faults, found, answer, vectors, evidence, indexVars>>

ReplaceVersion(h) ==
  /\ At(h, "index")
  /\ Document(h) \in artifacts
  /\ evidence' = evidence \cup {Document(h)}
  /\ Goto(h, "find")
  /\ UNCHANGED <<command, faults, found, answer, vectors, artifacts, indexVars>>

(* Evidence is stored for an artifact only.                                *)
RefuseVersion(h) ==
  /\ At(h, "index")
  /\ Document(h) \notin artifacts
  /\ Undo(h)
  /\ UNCHANGED <<command, faults, found, storeVars, indexVars>>

(* Whatever has the name and the owner of the command is replaced.         *)
FindSource(h) ==
  /\ At(h, "find")
  /\ LET same == {c \in vectors : c.source = command[h].source} IN
       /\ found' = [found EXCEPT ![h] = same]
       /\ Goto(h, IF same = {} THEN Replaced(h) ELSE "purge")
  /\ UNCHANGED <<command, faults, answer, storeVars, indexVars>>

Purge(h) ==
  /\ At(h, "purge")
  /\ vectors' = vectors \ found[h]
  /\ found' = [found EXCEPT ![h] = {}]
  /\ Goto(h, Replaced(h))
  /\ UNCHANGED <<command, faults, answer, evidence, artifacts, indexVars>>

AddChunks(h) ==
  /\ At(h, "add")
  /\ vectors' = vectors \cup {ChunksOf(Document(h))}
  /\ Goto(h, "added")
  /\ UNCHANGED <<command, faults, found, answer, evidence, artifacts, indexVars>>

(* No listener is called; counting the collection for the log may raise.   *)
CountChunks(h) ==
  /\ At(h, "added")
  /\ \/ EndWith(h, "ready") /\ UNCHANGED faults
     \/ Undo(h) /\ Fault
  /\ UNCHANGED <<command, found, storeVars, indexVars>>

Unindex(h) ==
  /\ At(h, "unindex")
  /\ evidence' = evidence \ {Document(h)}
  /\ Goto(h, "unsave")
  /\ UNCHANGED <<command, faults, found, answer, vectors, artifacts, indexVars>>

Unsave(h) ==
  /\ At(h, "unsave")
  /\ artifacts' = artifacts \ {Document(h)}
  /\ EndWith(h, IF Ingests(h) THEN "failed" ELSE "deleted")
  /\ UNCHANGED <<command, faults, found, vectors, evidence, indexVars>>

(* Where a step may raise: in the try block of _ingest, and outside it.    *)
Guarded(h) == Ingests(h) /\ job[h] \in {"index", "find", "purge", "add"}
Unguarded(h) ==
  \/ job[h] \in {"save", "index", "unindex", "unsave"}
  \/ Deletes(h) /\ job[h] \in {"find", "purge"}

(* Faulty: a deletion that raises half-way reports what it was asked for.  *)
JobFailsSilently(h) ==
  /\ \/ Unguarded(h) /\ EndWith(h, IF Ingests(h) THEN "failed" ELSE "deleted")
     \/ Guarded(h) /\ Undo(h)
  /\ Fault
  /\ UNCHANGED <<command, found, storeVars, indexVars>>

(* A step raises: process() answers "failed", after the clean-up if the    *)
(* step is one of the try block.  What was saved before that block stays.  *)
JobFails(h) ==
  /\ \/ Unguarded(h) /\ EndWith(h, "failed")
     \/ Guarded(h) /\ Undo(h)
  /\ Fault
  /\ UNCHANGED <<command, found, storeVars, indexVars>>

Process(h) ==
  \/ SaveArtifact(h) \/ ReplaceVersion(h) \/ RefuseVersion(h) \/ FindSource(h)
  \/ Purge(h) \/ AddChunks(h) \/ CountChunks(h)
  \/ Unindex(h) \/ Unsave(h) \/ JobFails(h)

-----------------------------------------------------------------------------
(* A search rebuilds the index under its lock if it has to.                *)
BuildReads ==
  /\ ~building
  /\ dirty \/ index = {}
  /\ builds < MaxBuilds
  /\ builds' = builds + 1
  /\ building' = TRUE
  /\ read' = vectors
  /\ UNCHANGED <<command, faults, jobVars, storeVars, index, dirty>>

BuildEnds ==
  /\ building
  /\ index' = read
  /\ dirty' = FALSE
  /\ building' = FALSE
  /\ read' = {}
  /\ UNCHANGED <<command, faults, jobVars, storeVars, builds>>

(* The process is restarted: its threads and the index are gone.           *)
Reload ==
  /\ job' = [h \in Requests |-> IF job[h] \in {"none", "end"} THEN job[h] ELSE "lost"]
  /\ index' = {} /\ dirty' = TRUE /\ building' = FALSE /\ read' = {}
  /\ Fault
  /\ UNCHANGED <<command, found, answer, storeVars, builds>>
=============================================================================
