----------------------------- MODULE MemoryStore -----------------------------
(***************************************************************************)
(* The account memories of one owner in the control plane's SQLite store   *)
(* (tables account_memories and memory_settings).  Every statement of the  *)
(* store runs in one immediate transaction, so each operation is one       *)
(* action.  Time is not a number here: a row's expiry lies in the future,  *)
(* in the past, or there is none, and ExpireMemory is the passing of time. *)
(*                                                                         *)
(* An operation that answers with an error changes nothing and is          *)
(* therefore a guard, not an action.                                       *)
(***************************************************************************)
EXTENDS Naturals, FiniteSets

CONSTANTS
  Memories,      (* memory ids: random and never issued twice              *)
  Contents,      (* what a memory may say                                  *)
  NoContent,     (* the content of an id that was never issued             *)
  MaxRevision,   (* bound on the revision counter                          *)
  Quota          (* rows an owner may store (100 in the code)              *)

ASSUME MemoryAssumption ==
  /\ MaxRevision \in Nat \ {0}
  /\ Quota \in Nat \ {0}
  /\ NoContent \notin Contents

VARIABLES
  memory,        (* the rows of account_memories, by id                    *)
  memoryOn       (* memory_settings.use_saved_memory                       *)

memoryVars == <<memory, memoryOn>>

(* A profile row named "name" behaves as a preference, the other profile   *)
(* fields as business context: the kinds differ only in whether a row may  *)
(* live without an expiry.                                                 *)
Kinds == {"preference", "business_context"}
Expiries == {"never", "future", "past"}

MemoryRow ==
  [status  : {"unissued", "stored", "deleted"},
   rev     : 0..MaxRevision,
   content : Contents \cup {NoContent},
   kind    : Kinds,
   expires : Expiries]

MemoryTypeOK ==
  /\ memory \in [Memories -> MemoryRow]
  /\ memoryOn \in BOOLEAN

NoMemory(status) ==
  [status |-> status, rev |-> 0, content |-> NoContent,
   kind |-> "preference", expires |-> "never"]

Stored == {m \in Memories : memory[m].status = "stored"}

(* What ListMemories shows and snapshotMemories copies.                    *)
Usable(m) == m \in Stored /\ memory[m].expires # "past"

MemoryInit ==
  /\ memory = [m \in Memories |-> NoMemory("unissued")]
  /\ memoryOn = TRUE        \* no settings row means enabled

-----------------------------------------------------------------------------
(* The first stored row of the same kind and content is returned instead   *)
(* of a new one, expired or not.                                           *)
Duplicates(kind, content) ==
  {m \in Stored : memory[m].kind = kind /\ memory[m].content = content}

(* Business context always gets an expiry, a preference only when asked.   *)
CreateMemory(m, kind, content, expires) ==
  /\ memory[m].status = "unissued"
  /\ expires = "future" \/ (expires = "never" /\ kind = "preference")
  /\ Duplicates(kind, content) = {}
  /\ Cardinality(Stored) < Quota
  /\ memory' = [memory EXCEPT ![m] =
       [status |-> "stored", rev |-> 1, content |-> content,
        kind |-> kind, expires |-> expires]]
  /\ UNCHANGED memoryOn

(* expiry is "keep" when the request does not mention expires_at.          *)
UpdateMemory(m, expected, content, expiry) ==
  /\ m \in Stored
  /\ memory[m].rev = expected
  /\ expected < MaxRevision
  /\ expiry = "never" => memory[m].kind = "preference"
  /\ memory' = [memory EXCEPT
       ![m].rev     = expected + 1,
       ![m].content = content,
       ![m].expires = IF expiry = "keep" THEN @ ELSE expiry]
  /\ UNCHANGED memoryOn

(* Confirming renews the retention period, also of a row already expired.  *)
ConfirmMemory(m, expected) ==
  /\ m \in Stored
  /\ memory[m].rev = expected
  /\ memory[m].expires # "never"
  /\ expected < MaxRevision
  /\ memory' = [memory EXCEPT ![m].rev = expected + 1, ![m].expires = "future"]
  /\ UNCHANGED memoryOn

DeleteMemory(m) ==
  /\ m \in Stored
  /\ memory' = [memory EXCEPT ![m] = NoMemory("deleted")]
  /\ UNCHANGED memoryOn

ClearMemories ==
  /\ Stored # {}
  /\ memory' = [m \in Memories |->
       IF m \in Stored THEN NoMemory("deleted") ELSE memory[m]]
  /\ UNCHANGED memoryOn

SetMemoryEnabled(enabled) ==
  /\ memoryOn' = enabled
  /\ UNCHANGED memory

ExpireMemory(m) ==
  /\ m \in Stored
  /\ memory[m].expires = "future"
  /\ memory' = [memory EXCEPT ![m].expires = "past"]
  /\ UNCHANGED memoryOn

MemoryNext ==
  \/ \E m \in Memories, kind \in Kinds, c \in Contents, e \in Expiries :
       CreateMemory(m, kind, c, e)
  \/ \E m \in Memories, rev \in 1..MaxRevision, c \in Contents,
        e \in {"keep", "never", "future"} : UpdateMemory(m, rev, c, e)
  \/ \E m \in Memories, rev \in 1..MaxRevision : ConfirmMemory(m, rev)
  \/ \E m \in Memories : DeleteMemory(m) \/ ExpireMemory(m)
  \/ ClearMemories
  \/ \E enabled \in BOOLEAN : SetMemoryEnabled(enabled)

(* snapshotMemories: the revision of every usable row, 0 for the others;   *)
(* nothing at all while the owner has saved memories switched off.         *)
snapshotMemories ==
  [m \in Memories |-> IF memoryOn /\ Usable(m) THEN memory[m].rev ELSE 0]

(* Faulty: the rows are looked up, their revisions not compared.           *)
SnapshotStored(snapshot) == \A m \in Memories : snapshot[m] # 0 => m \in Stored

(* The check PrepareResume makes of a snapshot: every row it names is      *)
(* still stored at the revision it names.                                  *)
SnapshotCurrent(snapshot) ==
  \A m \in Memories : snapshot[m] # 0 => m \in Stored /\ memory[m].rev = snapshot[m]
=============================================================================
