---------------------------- MODULE RuntimeProofs ----------------------------
(***************************************************************************)
(* Proofs about the sessions of a run, for any number of attempts, threads *)
(* and calls and any graph: every variable keeps its type, and the safety  *)
(* properties of the runs.                                                 *)
(***************************************************************************)
EXTENDS RuntimeProperties, TLAPS, FiniteSetTheorems

USE RunControlAssumption, AgentRuntimeAssumption

(* What runs for an attempt runs under a RunControl; a proposal that may   *)
(* still be sent was made; an attempt that was not accepted has no stream; *)
(* a node that was run says where to go on; what completed is over.        *)
Controlled(a) ==
  /\ stream[a] \in Streaming => control[a].status # "none"
  /\ graph[a].pc # "off" => control[a].status # "none"
  /\ \A t \in Threads : call[a][t].pc # "idle" => control[a].status # "none"
  /\ stream[a] \in {"proposed", "usage", "complete"} => proposal[a] # "none"
  /\ control[a].status = "completed" => stream[a] \in {"last", "done"}
  /\ graph[a].pc = "commit" => graph[a].messages.next # "none"
  /\ post[a].pc # "accepted" => stream[a] = "none" /\ log[a] = <<>>

TypeInv == TypeOK /\ \A a \in Attempts : Controlled(a)

-----------------------------------------------------------------------------
(* Operators                                                               *)

LEMMA CheckedRow ==
  ASSUME NEW a \in Attempts, control[a] \in ControlRow
  PROVE  /\ Checked(a) \in ControlRow
         /\ Checked(a).models = control[a].models
         /\ Checked(a).tools = control[a].tools
         /\ control[a].status # "none" => Checked(a).status # "none"
         /\ Passes(a) => Checked(a) = control[a]
BY DEF Checked, Passes, ControlRow, ControlStatus

LEMMA CheckedStatus ==
  ASSUME NEW a \in Attempts, control[a] \in ControlRow, control[a].status # "none", ~Passes(a)
  PROVE  Checked(a).status \in Raised
BY DEF Checked, Passes, ControlRow, ControlStatus, Raised

LEMMA SignalRow ==
  ASSUME NEW a \in Attempts, control[a] \in ControlRow
  PROVE  /\ SignalCancel(a) \in ControlRow
         /\ SignalCancel(a).status = control[a].status
         /\ SignalCancel(a).models = control[a].models
         /\ SignalCancel(a).tools = control[a].tools
         /\ control[a].cancel => SignalCancel(a).cancel
BY DEF SignalCancel, ControlRow, ControlStatus

LEMMA FinishedRow ==
  ASSUME NEW a \in Attempts, control[a] \in ControlRow,
         NEW status \in ControlStatus \ {"none"}
  PROVE  /\ Finished(a, status) \in ControlRow
         /\ Finished(a, status).status \in {status, "completed"}
         /\ Finished(a, status).models = control[a].models
         /\ Finished(a, status).tools = control[a].tools
BY DEF Finished, ControlRow, ControlStatus

LEMMA ReservedRow ==
  ASSUME NEW a \in Attempts, control[a] \in ControlRow, NEW kind \in CallKinds
  PROVE  /\ Reserved(a, kind) \in ControlRow
         /\ Reserved(a, kind).status = control[a].status
         /\ Reserved(a, kind).cancel = control[a].cancel
         /\ kind = "model" => Reserved(a, kind).models = control[a].models + 1
                              /\ Reserved(a, kind).tools = control[a].tools
         /\ kind # "model" => Reserved(a, kind).tools = control[a].tools + 1
                              /\ Reserved(a, kind).models = control[a].models
BY DEF Reserved, ControlRow, ControlStatus, CallKinds

LEMMA NewControlRow ==
  ASSUME NEW models \in Nat, NEW tools \in Nat
  PROVE  /\ NewControl(models, tools) \in ControlRow
         /\ NewControl(models, tools).status = "running"
         /\ NewControl(models, tools).models = models
         /\ NewControl(models, tools).tools = tools
         /\ ~NewControl(models, tools).cancel
BY DEF NewControl, NoControl, ControlRow, ControlStatus

LEMMA NoControlRow == NoControl \in ControlRow /\ NoControl.status = "none"
BY DEF NoControl, ControlRow, ControlStatus

LEMMA SetType ==
  ASSUME control \in [Attempts -> ControlRow], NEW a \in Attempts, NEW row \in ControlRow,
         Set(a, row)
  PROVE  /\ control' \in [Attempts -> ControlRow]
         /\ control'[a] = row
         /\ \A b \in Attempts \ {a} : control'[b] = control[b]
BY DEF Set

LEMMA CallGotoType ==
  ASSUME call \in [Attempts -> [Threads -> CallState]], NEW a \in Attempts, NEW t \in Threads,
         NEW pc \in {"idle", "done"} \cup Busy \cup Raised, CallGoto(a, t, pc)
  PROVE  /\ call' \in [Attempts -> [Threads -> CallState]]
         /\ call'[a][t].pc = pc
         /\ call'[a][t].kind = call[a][t].kind
         /\ \A u \in Threads \ {t} : call'[a][u] = call[a][u]
         /\ \A b \in Attempts \ {a} : call'[b] = call[b]
BY DEF CallGoto, CallState

LEMMA IdleType ==
  ASSUME call \in [Attempts -> [Threads -> CallState]], NEW a \in Attempts, Idle(a)
  PROVE  /\ call' \in [Attempts -> [Threads -> CallState]]
         /\ \A t \in Threads : call'[a][t].pc = "idle"
         /\ \A b \in Attempts \ {a} : call'[b] = call[b]
BY DEF Idle, CallState, NoCall, CallKinds

LEMMA GotoType ==
  ASSUME stream \in [Attempts -> Stages], NEW a \in Attempts, NEW pc \in Stages, Goto(a, pc)
  PROVE  /\ stream' \in [Attempts -> Stages]
         /\ stream'[a] = pc
         /\ \A b \in Attempts \ {a} : stream'[b] = stream[b]
BY DEF Goto

LEMMA YieldType ==
  ASSUME log \in [Attempts -> Seq(Signals)], NEW a \in Attempts, NEW signal \in Signals,
         Yield(a, signal)
  PROVE  /\ log' \in [Attempts -> Seq(Signals)]
         /\ log'[a] = Append(log[a], signal)
         /\ log'[a] # <<>>
         /\ log'[a][Len(log'[a])] = signal
         /\ \A b \in Attempts \ {a} : log'[b] = log[b]
BY DEF Yield

LEMMA GraphGotoType ==
  ASSUME graph \in [Attempts -> [pc : GraphStages, messages : Messages]],
         NEW a \in Attempts, NEW pc \in GraphStages, GraphGoto(a, pc)
  PROVE  /\ graph' \in [Attempts -> [pc : GraphStages, messages : Messages]]
         /\ graph'[a].pc = pc
         /\ graph'[a].messages = graph[a].messages
         /\ \A b \in Attempts \ {a} : graph'[b] = graph[b]
BY DEF GraphGoto

LEMMA LeaveType ==
  ASSUME stream \in [Attempts -> Stages], running \in SUBSET Attempts,
         NEW a \in Attempts, Leave(a)
  PROVE  /\ stream' \in [Attempts -> Stages]
         /\ stream'[a] = "done"
         /\ \A b \in Attempts \ {a} : stream'[b] = stream[b]
         /\ running' = running \ {a}
         /\ running' \in SUBSET Attempts
BY DEF Leave, Goto, Stages

LEMMA ProposeType ==
  ASSUME stream \in [Attempts -> Stages], running \in SUBSET Attempts,
         proposal \in [Attempts -> Proposals],
         NEW a \in Attempts, NEW what \in Proposals, Propose(a, what)
  PROVE  /\ stream' \in [Attempts -> Stages]
         /\ stream'[a] = "proposed"
         /\ \A b \in Attempts \ {a} : stream'[b] = stream[b]
         /\ running' = running
         /\ proposal' \in [Attempts -> Proposals]
         /\ proposal'[a] = what
         /\ \A b \in Attempts \ {a} : proposal'[b] = proposal[b]
BY DEF Propose, Goto, Stages

(* A stopped attempt leaves in silence or proposes a failure.              *)
LEMMA StopWithType ==
  ASSUME stream \in [Attempts -> Stages], running \in SUBSET Attempts,
         proposal \in [Attempts -> Proposals],
         NEW a \in Attempts, NEW status, StopWith(a, status)
  PROVE  /\ stream' \in [Attempts -> Stages]
         /\ stream'[a] \in {"done", "proposed"}
         /\ \A b \in Attempts \ {a} : stream'[b] = stream[b]
         /\ running' \in SUBSET Attempts
         /\ running' = IF stream'[a] = "done" THEN running \ {a} ELSE running
         /\ proposal' \in [Attempts -> Proposals]
         /\ stream'[a] = "proposed" => proposal'[a] = "failed"
         /\ \A b \in Attempts \ {a} : proposal'[b] = proposal[b]
BY LeaveType, ProposeType DEF StopWith, Proposals

(* The attempt before a new one is told to stop and changes in no other way. *)
LEMMA SupersededRows ==
  ASSUME control \in [Attempts -> ControlRow], current \in 0..MaxAttempts, NEW a \in Attempts
  PROVE  /\ Superseded(a) \in [Attempts -> ControlRow]
         /\ \A b \in Attempts :
              /\ Superseded(a)[b].status = control[b].status
              /\ Superseded(a)[b].models = control[b].models
              /\ Superseded(a)[b].tools = control[b].tools
              /\ control[b].cancel => Superseded(a)[b].cancel
<1>1. CASE current = 0 \/ ~Admits(a)
  BY <1>1 DEF Superseded
<1>2. CASE ~(current = 0 \/ ~Admits(a))
  <2>1. current \in Attempts
    BY <1>2 DEF Attempts
  <2>2. control[current] \in ControlRow
    BY <2>1
  <2> QED
    BY <1>2, <2>1, <2>2, SignalRow DEF Superseded
<1> QED BY <1>1, <1>2

LEMMA NoMessagesType == NoMessages \in Messages
BY DEF NoMessages, Messages

LEMMA ReceiveType ==
  ASSUME TypeInv, NEW a \in Attempts, Receive(a)
  PROVE  TypeOK'
<1>1. /\ checkpoint \in Messages
      /\ post \in [Attempts -> [pc : {"unsent", "restored", "accepted", "refused"},
                                restored : Messages]]
  BY DEF TypeInv, TypeOK
<1>2. post' \in [Attempts -> [pc : {"unsent", "restored", "accepted", "refused"},
                              restored : Messages]]
  BY <1>1, NoMessagesType DEF Receive
<1> QED
  BY <1>2 DEF Receive, TypeInv, TypeOK, ControlTypeOK, controlVars, graphVars

LEMMA AnswerType ==
  ASSUME post \in [Attempts -> [pc : {"unsent", "restored", "accepted", "refused"},
                                restored : Messages]],
         NEW a \in Attempts, NEW pc \in {"accepted", "refused"}, Answer(a, pc)
  PROVE  /\ post' \in [Attempts -> [pc : {"unsent", "restored", "accepted", "refused"},
                                    restored : Messages]]
         /\ post'[a].pc = pc
         /\ \A b \in Attempts \ {a} : post'[b] = post[b]
BY DEF Answer

LEMMA RefuseType ==
  ASSUME TypeInv, NEW a \in Attempts, Refuse(a)
  PROVE  TypeOK'
<1>1. control' \in [Attempts -> ControlRow]
  BY SupersededRows DEF Refuse, TypeInv, TypeOK, ControlTypeOK
<1> QED
  BY <1>1, AnswerType DEF Refuse, TypeInv, TypeOK, ControlTypeOK, graphVars

(* An accepted attempt starts with the counts of its checkpoint.           *)
LEMMA AcceptRows ==
  ASSUME TypeOK, NEW a \in Attempts, Accept(a)
  PROVE  /\ control' \in [Attempts -> ControlRow]
         /\ control'[a].status = "running"
         /\ ~control'[a].cancel
         /\ control'[a].models = post[a].restored.models
         /\ control'[a].tools = post[a].restored.tools
         /\ Fits(control'[a].models, control'[a].tools)
         /\ \A b \in Attempts \ {a} :
              /\ control'[b].status = control[b].status
              /\ control'[b].models = control[b].models
              /\ control'[b].tools = control[b].tools
              /\ control[b].cancel => control'[b].cancel
<1> DEFINE models == post[a].restored.models
           tools == post[a].restored.tools
<1>1. /\ models \in Nat
      /\ tools \in Nat
      /\ control \in [Attempts -> ControlRow]
      /\ current \in 0..MaxAttempts
  BY DEF TypeOK, ControlTypeOK, Messages
<1>2. /\ control' = [Superseded(a) EXCEPT ![a] = NewControl(models, tools)]
      /\ Fits(models, tools)
  BY DEF Accept, Acceptable
<1> HIDE DEF models, tools
<1>3. /\ control' \in [Attempts -> ControlRow]
      /\ control'[a] = NewControl(models, tools)
      /\ \A b \in Attempts \ {a} : control'[b] = Superseded(a)[b]
  BY <1>1, <1>2, SupersededRows, NewControlRow
<1>4. /\ control'[a].status = "running"
      /\ ~control'[a].cancel
      /\ control'[a].models = models
      /\ control'[a].tools = tools
  BY <1>1, <1>3, NewControlRow
<1> QED
  BY <1>1, <1>2, <1>3, <1>4, SupersededRows DEF models, tools

LEMMA AcceptType ==
  ASSUME TypeInv, NEW a \in Attempts, Accept(a)
  PROVE  TypeOK'
<1>1. control' \in [Attempts -> ControlRow]
  BY AcceptRows DEF TypeInv
<1>2. stream' \in [Attempts -> Stages]
  BY DEF Accept, TypeInv, TypeOK, Stages
<1>3. current' \in 0..MaxAttempts /\ running' \in SUBSET Attempts
  BY DEF Accept, TypeInv, TypeOK, Attempts
<1> QED
  BY <1>1, <1>2, <1>3, AnswerType
     DEF Accept, TypeInv, TypeOK, ControlTypeOK, graphVars

LEMMA InterruptType ==
  ASSUME TypeInv, NEW a \in Attempts, Interrupt(a)
  PROVE  TypeOK'
<1>1. control[a] \in ControlRow
  BY DEF TypeInv, TypeOK, ControlTypeOK
<1>2. [control[a] EXCEPT !.status = "interrupted"] \in ControlRow
  BY <1>1 DEF ControlRow, ControlStatus
<1> QED
  BY <1>2, SetType, GotoType, YieldType
     DEF Interrupt, TypeInv, TypeOK, ControlTypeOK, graphVars, Stages, Signals

LEMMA CompleteType ==
  ASSUME TypeInv, NEW a \in Attempts, Complete(a)
  PROVE  TypeOK'
<1>1. /\ control[a] \in ControlRow
      /\ proposal[a] \in Signals
  BY DEF Complete, At, TypeInv, TypeOK, ControlTypeOK, Controlled, Proposals, Signals
<1>2. [control[a] EXCEPT !.status = "completed"] \in ControlRow
  BY <1>1 DEF ControlRow, ControlStatus
<1>3. Finished(a, "failed") \in ControlRow
  BY <1>1, FinishedRow DEF ControlStatus
<1> QED
  BY <1>1, <1>2, <1>3, SetType, GotoType, YieldType
     DEF Complete, TypeInv, TypeOK, ControlTypeOK, graphVars, Stages

LEMMA GraphLoadsType ==
  ASSUME TypeInv, NEW a \in Attempts, GraphLoads(a)
  PROVE  TypeOK'
<1> DEFINE fresh == [models |-> 0, tools |-> 0, next |-> "model"]
<1>1. fresh \in Messages /\ checkpoint \in Messages
  BY DEF Messages, Nodes, TypeInv, TypeOK
<1> HIDE DEF fresh
<1>2. PICK loaded \in Messages :
        /\ checkpoint' = loaded
        /\ graph' = [graph EXCEPT ![a] =
             [pc |-> IF loaded.next \in Nodes THEN loaded.next ELSE "ended",
              messages |-> loaded]]
  BY <1>1 DEF GraphLoads, fresh
<1>3. graph' \in [Attempts -> [pc : GraphStages, messages : Messages]]
  BY <1>2 DEF TypeInv, TypeOK, GraphStages
<1> QED
  BY <1>2, <1>3 DEF GraphLoads, TypeInv, TypeOK, ControlTypeOK, controlVars, sessionVars

LEMMA NodeCallsType ==
  ASSUME TypeInv, NEW a \in Attempts, NodeCalls(a)
  PROVE  /\ TypeOK'
         /\ \A b \in Attempts \ {a} : call'[b] = call[b]
<1>1. PICK c \in CallsOf(a) :
        call' = [call EXCEPT ![a] = [t \in Threads |->
          IF t \in c.who THEN [pc |-> "check", kind |-> c.kind] ELSE NoCall]]
  BY DEF NodeCalls
<1>2. c.kind \in CallKinds
  BY DEF CallsOf, CallKinds
<1>3. call \in [Attempts -> [Threads -> CallState]]
  BY DEF TypeInv, TypeOK, ControlTypeOK
<1>4. \A t \in Threads : (IF t \in c.who THEN [pc |-> "check", kind |-> c.kind] ELSE NoCall) \in CallState
  BY <1>2 DEF CallState, Busy, NoCall, CallKinds
<1>5. call' \in [Attempts -> [Threads -> CallState]]
  BY <1>1, <1>3, <1>4
<1> QED
  BY <1>1, <1>3, <1>5 DEF NodeCalls, TypeInv, TypeOK, ControlTypeOK, sessionVars, graphVars

(* The graph's messages after a step of its own.                           *)
LEMMA ModelDoneType ==
  ASSUME TypeInv, NEW a \in Attempts, NEW next \in {"tools", "end"}, ModelDone(a, next)
  PROVE  TypeOK'
<1> DEFINE one == 1
<1>1. one \in Nat
  OBVIOUS
<1>2. /\ graph[a] \in [pc : GraphStages, messages : Messages]
      /\ graph \in [Attempts -> [pc : GraphStages, messages : Messages]]
  BY DEF TypeInv, TypeOK
<1>3. graph[a].messages.models + one \in 0..MaxMessages
  BY <1>2 DEF ModelDone, Messages
<1>4. graph' = [graph EXCEPT ![a] =
        [pc |-> "commit",
         messages |-> [graph[a].messages EXCEPT !.models = graph[a].messages.models + one,
                                                !.next = next]]]
  BY DEF ModelDone
<1> HIDE DEF one
<1>5. [graph[a].messages EXCEPT !.models = graph[a].messages.models + one, !.next = next]
        \in Messages
  BY <1>2, <1>3 DEF Messages, Nodes
<1>6. graph' \in [Attempts -> [pc : GraphStages, messages : Messages]]
  BY <1>2, <1>4, <1>5 DEF GraphStages
<1> QED
  BY <1>6, IdleType DEF ModelDone, TypeInv, TypeOK, ControlTypeOK, sessionVars

LEMMA ToolsDoneType ==
  ASSUME TypeInv, NEW a \in Attempts, ToolsDone(a)
  PROVE  TypeOK'
<1> DEFINE results == Cardinality(Done(a, "tool"))
<1>1. results \in Nat
  <2>1. IsFiniteSet(Done(a, "tool"))
    BY FS_Subset DEF Done
  <2> QED
    BY <2>1, FS_CardinalityType
<1>2. /\ graph[a] \in [pc : GraphStages, messages : Messages]
      /\ graph \in [Attempts -> [pc : GraphStages, messages : Messages]]
  BY DEF TypeInv, TypeOK
<1>3. graph[a].messages.tools + results <= MaxMessages
  BY DEF ToolsDone
<1>4. graph' = [graph EXCEPT ![a] =
        [pc |-> "commit",
         messages |-> [graph[a].messages EXCEPT !.tools = graph[a].messages.tools + results,
                                                !.next = "model"]]]
  BY DEF ToolsDone
<1> HIDE DEF results
<1>5. graph[a].messages.tools + results \in 0..MaxMessages
  BY <1>1, <1>2, <1>3 DEF Messages
<1>6. [graph[a].messages EXCEPT !.tools = graph[a].messages.tools + results, !.next = "model"]
        \in Messages
  BY <1>2, <1>5 DEF Messages, Nodes
<1>7. graph' \in [Attempts -> [pc : GraphStages, messages : Messages]]
  BY <1>2, <1>4, <1>6 DEF GraphStages
<1> QED
  BY <1>7, IdleType DEF ToolsDone, TypeInv, TypeOK, ControlTypeOK, sessionVars

LEMMA NodeRaisesType ==
  ASSUME TypeInv, NEW a \in Attempts, NodeRaises(a)
  PROVE  /\ TypeOK'
         /\ graph'[a].pc \in Raised
         /\ \A b \in Attempts \ {a} : graph'[b] = graph[b]
<1>1. PICK status \in Raised : GraphGoto(a, status)
  BY DEF NodeRaises, Stopped, Raised
<1>2. /\ graph' \in [Attempts -> [pc : GraphStages, messages : Messages]]
      /\ graph'[a].pc \in Raised
      /\ \A b \in Attempts \ {a} : graph'[b] = graph[b]
  <2>1. status \in GraphStages
    BY DEF GraphStages
  <2> QED
    BY <1>1, <2>1, GraphGotoType DEF TypeInv, TypeOK
<1>3. /\ Idle(a)
      /\ UNCHANGED <<control, late, checkpoint, sessionVars, shutdowns>>
  BY DEF NodeRaises
<1> QED
  BY <1>2, <1>3, IdleType DEF TypeInv, TypeOK, ControlTypeOK, sessionVars

LEMMA CommitType ==
  ASSUME TypeInv, NEW a \in Attempts, Commit(a)
  PROVE  /\ TypeOK'
         /\ graph'[a].pc \in {"ended"} \cup Nodes
         /\ \A b \in Attempts \ {a} : graph'[b] = graph[b]
<1>1. /\ graph \in [Attempts -> [pc : GraphStages, messages : Messages]]
      /\ graph[a].messages \in Messages
      /\ graph[a].messages.next \in Nodes \cup {"end"}
  BY DEF TypeInv, TypeOK, Controlled, Messages, Commit
<1> DEFINE ends == graph[a].messages.next = "end" \/
                     (IF graph[a].messages.next = "model" THEN "tools" ELSE "model")
                       \in InterruptAfter
<1>2. PICK stage \in {"ended"} \cup Nodes : GraphGoto(a, stage)
  <2>1. GraphGoto(a, IF ends THEN "ended" ELSE graph[a].messages.next)
    BY DEF Commit
  <2>2. PICK stage : stage = IF ends THEN "ended" ELSE graph[a].messages.next
    OBVIOUS
  <2>3. stage \in {"ended"} \cup Nodes
    BY <1>1, <2>2
  <2> QED
    BY <2>1, <2>2, <2>3
<1>3. /\ graph' \in [Attempts -> [pc : GraphStages, messages : Messages]]
      /\ graph'[a].pc \in {"ended"} \cup Nodes
      /\ \A b \in Attempts \ {a} : graph'[b] = graph[b]
  BY <1>1, <1>2, GraphGotoType DEF GraphStages, Nodes
<1>4. checkpoint' \in Messages /\ UNCHANGED <<controlVars, sessionVars, shutdowns>>
  BY <1>1 DEF Commit
<1> QED
  BY <1>3, <1>4 DEF TypeInv, TypeOK, ControlTypeOK, controlVars, sessionVars

-----------------------------------------------------------------------------
(* Calls                                                                   *)

(* A RunControl after a step of somebody who uses it.                      *)
Kept(a) ==
  /\ control[a].status # "none" => control'[a].status # "none"
  /\ control'[a].status = "completed" => control[a].status = "completed"
  /\ control[a].cancel => control'[a].cancel
  /\ control[a].status \notin {"none", "running"} => control'[a].status # "running"

CallFrame(a) ==
  /\ control' \in [Attempts -> ControlRow]
  /\ call' \in [Attempts -> [Threads -> CallState]]
  /\ Kept(a)
  /\ \A b \in Attempts \ {a} : control'[b] = control[b] /\ call'[b] = call[b]
  /\ late' = late

LEMMA CheckedKeeps ==
  ASSUME NEW a \in Attempts, control \in [Attempts -> ControlRow], Set(a, Checked(a))
  PROVE  /\ control' \in [Attempts -> ControlRow]
         /\ control'[a] = Checked(a)
         /\ \A b \in Attempts \ {a} : control'[b] = control[b]
         /\ Kept(a)
<1>1. control[a] \in ControlRow
  OBVIOUS
<1>2. /\ control' \in [Attempts -> ControlRow]
      /\ control'[a] = Checked(a)
      /\ \A b \in Attempts \ {a} : control'[b] = control[b]
  BY <1>1, CheckedRow, SetType
<1>3. Kept(a)
  BY <1>1, <1>2 DEF Kept, Checked, ControlRow, ControlStatus
<1> QED BY <1>2, <1>3

LEMMA CheckThenFrame ==
  ASSUME TypeInv, NEW a \in Attempts, NEW t \in Threads, NEW next \in {"done"} \cup Busy,
         call[a][t].pc # "idle", CheckThen(a, t, next)
  PROVE  CallFrame(a)
<1>1. /\ control \in [Attempts -> ControlRow]
      /\ call \in [Attempts -> [Threads -> CallState]]
      /\ control[a] \in ControlRow
      /\ control[a].status # "none"
  BY DEF TypeInv, TypeOK, ControlTypeOK, Controlled
<1>2. PICK pc : pc = IF Passes(a) THEN next ELSE Checked(a).status
  OBVIOUS
<1>3. pc \in {"idle", "done"} \cup Busy \cup Raised
  BY <1>1, <1>2, CheckedStatus
<1>4. Set(a, Checked(a)) /\ CallGoto(a, t, pc) /\ late' = late
  BY <1>2 DEF CheckThen
<1>5. /\ call' \in [Attempts -> [Threads -> CallState]]
      /\ \A b \in Attempts \ {a} : call'[b] = call[b]
  BY <1>1, <1>3, <1>4, CallGotoType
<1> QED
  BY <1>1, <1>4, <1>5, CheckedKeeps DEF CallFrame

LEMMA ReserveFrame ==
  ASSUME TypeInv, NEW a \in Attempts, NEW t \in Threads, Reserve(a, t)
  PROVE  /\ CallFrame(a)
         /\ control'[a] \in
              {Reserved(a, call[a][t].kind),
               [control[a] EXCEPT !.status = "budget_exhausted", !.cancel = TRUE]}
         /\ control'[a].models # control[a].models => control[a].models < MaxModelCalls
         /\ control'[a].tools # control[a].tools => control[a].tools < MaxToolCalls
<1> DEFINE kind == call[a][t].kind
           stopped == [control[a] EXCEPT !.status = "budget_exhausted", !.cancel = TRUE]
<1>1. /\ control \in [Attempts -> ControlRow]
      /\ call \in [Attempts -> [Threads -> CallState]]
      /\ control[a] \in ControlRow
      /\ kind \in CallKinds
      /\ control[a].status # "none"
  BY DEF TypeInv, TypeOK, ControlTypeOK, CallState, Controlled, Reserve, CallAt
<1>2. stopped \in ControlRow
  BY <1>1 DEF ControlRow, ControlStatus
<1>3. stopped.models = control[a].models /\ stopped.tools = control[a].tools
      /\ stopped.status = "budget_exhausted" /\ stopped.cancel
  BY <1>1 DEF ControlRow
<1>4. late' = late
  BY DEF Reserve
<1>5. CASE MayReserve(a, kind)
  <2>1. Set(a, Reserved(a, kind)) /\ CallGoto(a, t, "submit")
    BY <1>5 DEF Reserve
  <2>2. /\ control' \in [Attempts -> ControlRow]
        /\ control'[a] = Reserved(a, kind)
        /\ \A b \in Attempts \ {a} : control'[b] = control[b]
    BY <1>1, <2>1, ReservedRow, SetType
  <2>3. /\ call' \in [Attempts -> [Threads -> CallState]]
        /\ \A b \in Attempts \ {a} : call'[b] = call[b]
    BY <1>1, <2>1, CallGotoType DEF Busy
  <2>4. Kept(a)
    BY <1>1, <2>2, ReservedRow DEF Kept
  <2>5. /\ control'[a].models # control[a].models => control[a].models < MaxModelCalls
        /\ control'[a].tools # control[a].tools => control[a].tools < MaxToolCalls
    BY <1>1, <1>5, <2>2, ReservedRow DEF MayReserve
  <2> QED
    BY <1>4, <2>2, <2>3, <2>4, <2>5 DEF CallFrame
<1>6. CASE ~MayReserve(a, kind)
  <2>1. Set(a, stopped) /\ CallGoto(a, t, "budget_exhausted")
    BY <1>6 DEF Reserve
  <2> HIDE DEF stopped
  <2>2. /\ control' \in [Attempts -> ControlRow]
        /\ control'[a] = stopped
        /\ \A b \in Attempts \ {a} : control'[b] = control[b]
    BY <1>1, <1>2, <2>1, SetType
  <2>3. /\ call' \in [Attempts -> [Threads -> CallState]]
        /\ \A b \in Attempts \ {a} : call'[b] = call[b]
    BY <1>1, <2>1, CallGotoType DEF Raised, ControlStatus
  <2>4. Kept(a)
    BY <1>3, <2>2 DEF Kept
  <2>5. CallFrame(a)
    BY <1>4, <2>2, <2>3, <2>4 DEF CallFrame
  <2>6. /\ control'[a].models = control[a].models
        /\ control'[a].tools = control[a].tools
    BY <1>3, <2>2
  <2> QED
    BY <2>2, <2>5, <2>6 DEF stopped
<1> QED BY <1>5, <1>6

LEMMA CallTimesOutFrame ==
  ASSUME TypeInv, NEW a \in Attempts, NEW t \in Threads, CallTimesOut(a, t)
  PROVE  CallFrame(a) /\ control'[a] = Finished(a, "timed_out")
<1>1. /\ control \in [Attempts -> ControlRow]
      /\ call \in [Attempts -> [Threads -> CallState]]
      /\ control[a] \in ControlRow
  BY DEF TypeInv, TypeOK, ControlTypeOK
<1>2. Set(a, Finished(a, "timed_out")) /\ CallGoto(a, t, "timed_out") /\ late' = late
  BY DEF CallTimesOut
<1>3. Finished(a, "timed_out") \in ControlRow
  BY <1>1, FinishedRow DEF ControlStatus
<1>4. /\ control' \in [Attempts -> ControlRow]
      /\ control'[a] = Finished(a, "timed_out")
      /\ \A b \in Attempts \ {a} : control'[b] = control[b]
  BY <1>1, <1>2, <1>3, SetType
<1>5. /\ call' \in [Attempts -> [Threads -> CallState]]
      /\ \A b \in Attempts \ {a} : call'[b] = call[b]
  BY <1>1, <1>2, CallGotoType DEF Raised, ControlStatus
<1>6. Kept(a)
  BY <1>1, <1>4 DEF Kept, Finished, ControlRow, ControlStatus
<1> QED BY <1>2, <1>4, <1>5, <1>6 DEF CallFrame

LEMMA CallFailsFrame ==
  ASSUME TypeInv, NEW a \in Attempts, NEW t \in Threads, CallFails(a, t)
  PROVE  CallFrame(a) /\ control' = control
<1>1. PICK pc : pc = IF call[a][t].kind = "model" THEN "error" ELSE "done"
  OBVIOUS
<1>2. CallGoto(a, t, pc) /\ control' = control /\ late' = late
  BY <1>1 DEF CallFails
<1>3. pc \in {"idle", "done"} \cup Busy \cup Raised
  BY <1>1 DEF Raised
<1>4. /\ call' \in [Attempts -> [Threads -> CallState]]
      /\ \A b \in Attempts \ {a} : call'[b] = call[b]
  BY <1>2, <1>3, CallGotoType DEF TypeInv, TypeOK, ControlTypeOK
<1> QED
  BY <1>2, <1>4 DEF CallFrame, Kept, TypeInv, TypeOK, ControlTypeOK

(* Whatever a thread does, it is a step of its own attempt.                *)
LEMMA CallStepFrame ==
  ASSUME TypeInv, NEW a \in Attempts, NEW t \in Threads, CallStep(a, t)
  PROVE  /\ CallFrame(a)
         /\ call[a][t].pc \in Busy
         /\ control[a].status # "none"
         /\ \/ Reserve(a, t)
            \/ control'[a].models = control[a].models /\ control'[a].tools = control[a].tools
<1>1. /\ control \in [Attempts -> ControlRow]
      /\ control[a] \in ControlRow
  BY DEF TypeInv, TypeOK, ControlTypeOK
<1>2. call[a][t].pc \in Busy
  BY DEF CallStep, CheckBudget, Reserve, Submit, Return, StopWaiting, CallTimesOut, CallFails,
         CallAt, Busy
<1>3. control[a].status # "none" /\ call[a][t].pc # "idle"
  BY <1>2 DEF Busy, TypeInv, Controlled
<1>4. ASSUME NEW next \in {"done"} \cup Busy, CheckThen(a, t, next)
      PROVE  /\ CallFrame(a)
             /\ control'[a].models = control[a].models /\ control'[a].tools = control[a].tools
  BY <1>1, <1>3, <1>4, CheckThenFrame, CheckedKeeps, CheckedRow DEF CheckThen
<1>5. CASE CheckBudget(a, t) \/ Submit(a, t) \/ Return(a, t) \/ StopWaiting(a, t)
  <2>1. \E next \in {"done"} \cup Busy : CheckThen(a, t, next)
    BY <1>5 DEF CheckBudget, Submit, Return, StopWaiting, Busy
  <2> QED BY <1>2, <1>3, <1>4, <2>1
<1>6. CASE Reserve(a, t)
  BY <1>2, <1>3, <1>6, ReserveFrame
<1>7. CASE CallTimesOut(a, t)
  BY <1>1, <1>2, <1>3, <1>7, CallTimesOutFrame, FinishedRow DEF ControlStatus
<1>8. CASE CallFails(a, t)
  BY <1>2, <1>3, <1>8, CallFailsFrame
<1> QED
  BY <1>5, <1>6, <1>7, <1>8 DEF CallStep

LEMMA CallerType ==
  ASSUME TypeInv, NEW a \in Attempts, NEW t \in Threads, Caller(a, t)
  PROVE  TypeOK'
BY CallStepFrame DEF Caller, CallFrame, TypeInv, TypeOK, ControlTypeOK, sessionVars, graphVars

LEMMA NestedCallType ==
  ASSUME TypeInv, NEW a \in Attempts, NEW t \in Threads, NestedCall(a, t)
  PROVE  /\ TypeOK'
         /\ \A b \in Attempts \ {a} : call'[b] = call[b]
<1>1. /\ call \in [Attempts -> [Threads -> CallState]]
      /\ call' = [call EXCEPT ![a][t] = [pc |-> "check", kind |-> "model"]]
      /\ UNCHANGED <<control, late>>
  BY DEF NestedCall, BeginCall, TypeInv, TypeOK, ControlTypeOK
<1>2. [pc |-> "check", kind |-> "model"] \in CallState
  BY DEF CallState, Busy, CallKinds
<1>3. /\ call' \in [Attempts -> [Threads -> CallState]]
      /\ \A b \in Attempts \ {a} : call'[b] = call[b]
  BY <1>1, <1>2
<1> QED
  BY <1>1, <1>3 DEF NestedCall, TypeInv, TypeOK, ControlTypeOK, sessionVars, graphVars

LEMMA ShutdownRows ==
  ASSUME TypeInv, Shutdown
  PROVE  /\ \A a \in Attempts :
              /\ control'[a] = NoControl
              /\ graph'[a] = NoGraph
              /\ \A t \in Threads : call'[a][t] = NoCall
              /\ stream'[a] = IF stream[a] = "none" THEN "none" ELSE "done"
              /\ post[a].pc # "restored" => post'[a] = post[a]
              /\ post[a].pc = "restored" => post'[a].pc = "refused"
         /\ running' = {} /\ current' = 0 /\ late' = {}
         /\ UNCHANGED <<proposal, log>>
BY DEF Shutdown, TypeInv, TypeOK

LEMMA ShutdownType ==
  ASSUME TypeInv, Shutdown
  PROVE  TypeOK'
<1>1. /\ control' \in [Attempts -> ControlRow]
      /\ late' \in SUBSET Attempts
      /\ call' \in [Attempts -> [Threads -> CallState]]
  BY NoControlRow DEF Shutdown, NoCall, CallState, CallKinds
<1>2. stream' \in [Attempts -> Stages]
  BY DEF Shutdown, TypeInv, TypeOK, Stages
<1>3. post' \in [Attempts -> [pc : {"unsent", "restored", "accepted", "refused"},
                              restored : Messages]]
  <2>1. /\ post \in [Attempts -> [pc : {"unsent", "restored", "accepted", "refused"},
                                   restored : Messages]]
        /\ post' = [a \in Attempts |->
             IF post[a].pc = "restored" THEN [post[a] EXCEPT !.pc = "refused"] ELSE post[a]]
    BY DEF Shutdown, TypeInv, TypeOK
  <2> QED BY <2>1
<1>4. graph' \in [Attempts -> [pc : GraphStages, messages : Messages]]
  BY NoMessagesType DEF Shutdown, NoGraph, GraphStages
<1>5. shutdowns' \in 0..MaxShutdowns
  BY DEF Shutdown, TypeInv, TypeOK
<1>6. /\ current' \in 0..MaxAttempts
      /\ running' \in SUBSET Attempts
      /\ UNCHANGED <<proposal, log, connected, checkpoint>>
  BY DEF Shutdown
<1> QED
  BY <1>1, <1>2, <1>3, <1>4, <1>5, <1>6 DEF TypeInv, TypeOK, ControlTypeOK

-----------------------------------------------------------------------------
(* What one attempt does is nothing to another                             *)

LEMMA InterruptRows ==
  ASSUME TypeOK, NEW a \in Attempts, Interrupt(a)
  PROVE  /\ control'[a].status = "interrupted"
         /\ control'[a].models = control[a].models
         /\ control'[a].tools = control[a].tools
         /\ \A b \in Attempts \ {a} : control'[b] = control[b]
<1> DEFINE row == [control[a] EXCEPT !.status = "interrupted"]
<1>1. control \in [Attempts -> ControlRow] /\ control[a] \in ControlRow
  BY DEF TypeOK, ControlTypeOK
<1>2. /\ row \in ControlRow
      /\ row.status = "interrupted"
      /\ row.models = control[a].models
      /\ row.tools = control[a].tools
  BY <1>1 DEF ControlRow, ControlStatus
<1>3. Set(a, row)
  BY DEF Interrupt
<1> QED
  BY <1>1, <1>2, <1>3, SetType

LEMMA CompleteRows ==
  ASSUME TypeInv, NEW a \in Attempts, Complete(a)
  PROVE  /\ control'[a].status = proposal[a]
         /\ control'[a].models = control[a].models
         /\ control'[a].tools = control[a].tools
         /\ \A b \in Attempts \ {a} : control'[b] = control[b]
<1> DEFINE row == [control[a] EXCEPT !.status = "completed"]
<1>1. /\ control \in [Attempts -> ControlRow]
      /\ control[a] \in ControlRow
      /\ proposal[a] \in {"completed", "failed"}
      /\ control[a].status # "completed"
  BY DEF TypeInv, TypeOK, ControlTypeOK, Controlled, Complete, At, Proposals
<1>2. CASE proposal[a] = "completed"
  <2>1. /\ row \in ControlRow
        /\ row.status = "completed"
        /\ row.models = control[a].models
        /\ row.tools = control[a].tools
    BY <1>1 DEF ControlRow, ControlStatus
  <2>2. Set(a, row)
    BY <1>2 DEF Complete
  <2> QED
    BY <1>1, <1>2, <2>1, <2>2, SetType
<1>3. CASE proposal[a] = "failed"
  <2>1. Set(a, Finished(a, "failed"))
    BY <1>3 DEF Complete
  <2>2. /\ Finished(a, "failed") \in ControlRow
        /\ Finished(a, "failed").status = "failed"
        /\ Finished(a, "failed").models = control[a].models
        /\ Finished(a, "failed").tools = control[a].tools
    BY <1>1 DEF Finished, ControlRow, ControlStatus
  <2> QED
    BY <1>1, <1>3, <2>1, <2>2, SetType
<1> QED BY <1>1, <1>2, <1>3

Elsewhere(a) ==
  \A b \in Attempts \ {a} :
    /\ control'[b].status = control[b].status
    /\ control[b].cancel => control'[b].cancel
    /\ control'[b].models = control[b].models
    /\ control'[b].tools = control[b].tools
    /\ call'[b] = call[b]
    /\ post'[b] = post[b]
    /\ stream'[b] = stream[b]
    /\ proposal'[b] = proposal[b]
    /\ log'[b] = log[b]
    /\ graph'[b] = graph[b]

LEMMA ElsewhereControlled ==
  ASSUME NEW a \in Attempts, \A b \in Attempts : Controlled(b), Elsewhere(a)
  PROVE  \A b \in Attempts \ {a} : Controlled(b)'
BY DEF Elsewhere, Controlled


(* A step of the sessions, the generator or the graph of one attempt.      *)
AttemptStep(a) == Serve(a) \/ Cancel(a) \/ Generator(a) \/ Graph(a)

LEMMA AttemptStepType ==
  ASSUME TypeInv, NEW a \in Attempts, AttemptStep(a)
  PROVE  TypeOK'
<1>1. CASE Receive(a)
  BY <1>1, ReceiveType
<1>2. CASE Refuse(a)
  BY <1>2, RefuseType
<1>3. CASE Accept(a)
  BY <1>3, AcceptType
<1>4. CASE Cancel(a)
  BY <1>4, SetType, SignalRow
     DEF Cancel, sessionVars, graphVars, TypeInv, TypeOK, ControlTypeOK
<1>5. CASE Start(a)
  BY <1>5, GotoType, YieldType
     DEF Start, Stages, Signals, controlVars, graphVars, TypeInv, TypeOK,
         ControlTypeOK
<1>6. CASE RunGraph(a)
  BY <1>6, GotoType, GraphGotoType
     DEF RunGraph, Stages, GraphStages, controlVars, TypeInv, TypeOK, ControlTypeOK
<1>7. CASE StreamStops(a)
  BY <1>7, CheckedKeeps, StopWithType, CheckedRow
     DEF StreamStops, graphVars, TypeInv, TypeOK, ControlTypeOK
<1>8. CASE GraphRaises(a)
  BY <1>8, GraphGotoType, StopWithType
     DEF GraphRaises, GraphStages, controlVars, TypeInv, TypeOK, ControlTypeOK
<1>9. CASE GraphEnds(a)
  BY <1>9, GotoType, GraphGotoType
     DEF GraphEnds, Stages, GraphStages, controlVars, TypeInv, TypeOK, ControlTypeOK
<1>10. CASE Interrupt(a)
  BY <1>10, InterruptType
<1>11. CASE VerifyEnds(a)
  BY <1>11, GraphGotoType, ProposeType, StopWithType
     DEF VerifyEnds, GraphStages, Proposals, controlVars, TypeInv, TypeOK,
         ControlTypeOK
<1>12. CASE AnnounceUsage(a)
  BY <1>12, CheckedKeeps, GotoType, YieldType, LeaveType
     DEF AnnounceUsage, Stages, Signals, graphVars, TypeInv, TypeOK, ControlTypeOK
<1>13. CASE CheckCompletion(a)
  BY <1>13, CheckedKeeps, GotoType, LeaveType
     DEF CheckCompletion, Stages, graphVars, TypeInv, TypeOK, ControlTypeOK
<1>14. CASE Complete(a)
  BY <1>14, CompleteType
<1>15. CASE Exhausted(a)
  BY <1>15, LeaveType
     DEF Exhausted, controlVars, graphVars, TypeInv, TypeOK, ControlTypeOK
<1>16. CASE Drop(a)
  BY <1>16, GraphGotoType, LeaveType
     DEF Drop, GraphStages, controlVars, TypeInv, TypeOK, ControlTypeOK
<1>17. CASE LoseUnstarted(a)
  BY <1>17, GotoType
     DEF LoseUnstarted, Stages, controlVars, graphVars, TypeInv, TypeOK,
         ControlTypeOK
<1>18. CASE GraphLoads(a)
  BY <1>18, GraphLoadsType
<1>19. CASE NodeCalls(a)
  BY <1>19, NodeCallsType
<1>20. CASE ToolsDone(a)
  BY <1>20, ToolsDoneType
<1>21. CASE NodeRaises(a)
  BY <1>21, NodeRaisesType
<1>22. CASE Commit(a)
  BY <1>22, CommitType
<1>23. CASE \E next \in {"tools", "end"} : ModelDone(a, next)
  BY <1>23, ModelDoneType
<1> QED
  BY <1>1, <1>2, <1>3, <1>4, <1>5, <1>6, <1>7, <1>8, <1>9, <1>10, <1>11, <1>12,
     <1>13, <1>14, <1>15, <1>16, <1>17, <1>18, <1>19, <1>20, <1>21, <1>22, <1>23
     DEF AttemptStep, Serve, Generator, Graph

LEMMA AttemptStepElsewhere ==
  ASSUME TypeInv, NEW a \in Attempts, AttemptStep(a)
  PROVE  Elsewhere(a)
<1>1. CASE Receive(a)
  BY <1>1
     DEF Receive, controlVars, graphVars, TypeInv, TypeOK, ControlTypeOK, Elsewhere
<1>2. CASE Refuse(a)
  BY <1>2, SupersededRows, AnswerType
     DEF Refuse, graphVars, TypeInv, TypeOK, ControlTypeOK, Elsewhere
<1>3. CASE Accept(a)
  <2>1. \A b \in Attempts \ {a} :
          /\ control'[b].status = control[b].status
          /\ control'[b].models = control[b].models
          /\ control'[b].tools = control[b].tools
          /\ control[b].cancel => control'[b].cancel
    BY <1>3, AcceptRows DEF TypeInv
  <2>2. /\ \A b \in Attempts \ {a} : post'[b] = post[b] /\ stream'[b] = stream[b]
        /\ UNCHANGED <<call, proposal, log, graph>>
    BY <1>3, AnswerType DEF Accept, TypeInv, TypeOK, graphVars
  <2> QED BY <2>1, <2>2 DEF Elsewhere
<1>4. CASE Cancel(a)
  BY <1>4, SetType, SignalRow
     DEF Cancel, sessionVars, graphVars, TypeInv, TypeOK, ControlTypeOK, Elsewhere
<1>5. CASE Start(a)
  BY <1>5, GotoType, YieldType
     DEF Start, Stages, Signals, controlVars, graphVars, TypeInv, TypeOK,
         ControlTypeOK, Elsewhere
<1>6. CASE RunGraph(a)
  BY <1>6, GotoType, GraphGotoType
     DEF RunGraph, Stages, GraphStages, controlVars, TypeInv, TypeOK, ControlTypeOK,
         Elsewhere
<1>7. CASE StreamStops(a)
  <2>1. \A b \in Attempts \ {a} : control'[b] = control[b]
    BY <1>7, CheckedKeeps DEF StreamStops, TypeInv, TypeOK, ControlTypeOK
  <2>2. /\ \A b \in Attempts \ {a} : stream'[b] = stream[b] /\ proposal'[b] = proposal[b]
        /\ UNCHANGED <<call, post, log, graph>>
    BY <1>7, StopWithType DEF StreamStops, TypeInv, TypeOK, graphVars
  <2> QED BY <2>1, <2>2 DEF Elsewhere
<1>8. CASE GraphRaises(a)
  BY <1>8, GraphGotoType, StopWithType
     DEF GraphRaises, GraphStages, controlVars, TypeInv, TypeOK, ControlTypeOK,
         Elsewhere
<1>9. CASE GraphEnds(a)
  BY <1>9, GotoType, GraphGotoType
     DEF GraphEnds, Stages, GraphStages, controlVars, TypeInv, TypeOK,
         ControlTypeOK, Elsewhere
<1>10. CASE Interrupt(a)
  <2>1. \A b \in Attempts \ {a} : control'[b] = control[b]
    BY <1>10, InterruptRows DEF TypeInv
  <2>2. /\ \A b \in Attempts \ {a} : stream'[b] = stream[b] /\ log'[b] = log[b]
        /\ UNCHANGED <<call, post, proposal, graph>>
    BY <1>10 DEF Interrupt, Goto, Yield, TypeInv, TypeOK, graphVars
  <2> QED BY <2>1, <2>2 DEF Elsewhere
<1>11. CASE VerifyEnds(a)
  BY <1>11, GraphGotoType, ProposeType, StopWithType
     DEF VerifyEnds, GraphStages, Proposals, controlVars, TypeInv, TypeOK,
         ControlTypeOK, Elsewhere
<1>12. CASE AnnounceUsage(a)
  <2>1. \A b \in Attempts \ {a} : control'[b] = control[b]
    BY <1>12, CheckedKeeps DEF AnnounceUsage, TypeInv, TypeOK, ControlTypeOK
  <2>2. /\ \A b \in Attempts \ {a} : stream'[b] = stream[b] /\ log'[b] = log[b]
        /\ UNCHANGED <<call, post, proposal, graph>>
    BY <1>12 DEF AnnounceUsage, Goto, Leave, Yield, TypeInv, TypeOK, graphVars
  <2> QED BY <2>1, <2>2 DEF Elsewhere
<1>13. CASE CheckCompletion(a)
  <2>1. \A b \in Attempts \ {a} : control'[b] = control[b]
    BY <1>13, CheckedKeeps DEF CheckCompletion, TypeInv, TypeOK, ControlTypeOK
  <2>2. /\ \A b \in Attempts \ {a} : stream'[b] = stream[b]
        /\ UNCHANGED <<call, post, proposal, log, graph>>
    BY <1>13 DEF CheckCompletion, Goto, Leave, TypeInv, TypeOK, graphVars
  <2> QED BY <2>1, <2>2 DEF Elsewhere
<1>14. CASE Complete(a)
  <2>1. \A b \in Attempts \ {a} : control'[b] = control[b]
    BY <1>14, CompleteRows DEF TypeInv
  <2>2. /\ \A b \in Attempts \ {a} : stream'[b] = stream[b] /\ log'[b] = log[b]
        /\ UNCHANGED <<call, post, proposal, graph>>
    BY <1>14 DEF Complete, Goto, Yield, TypeInv, TypeOK, graphVars
  <2> QED BY <2>1, <2>2 DEF Elsewhere
<1>15. CASE Exhausted(a)
  BY <1>15, LeaveType
     DEF Exhausted, controlVars, graphVars, TypeInv, TypeOK, ControlTypeOK,
         Elsewhere
<1>16. CASE Drop(a)
  BY <1>16, GraphGotoType, LeaveType
     DEF Drop, GraphStages, controlVars, TypeInv, TypeOK, ControlTypeOK, Elsewhere
<1>17. CASE LoseUnstarted(a)
  BY <1>17, GotoType
     DEF LoseUnstarted, Stages, controlVars, graphVars, TypeInv, TypeOK,
         ControlTypeOK, Elsewhere
<1>18. CASE GraphLoads(a)
  BY <1>18
     DEF GraphLoads, controlVars, sessionVars, TypeInv, TypeOK, ControlTypeOK,
         Elsewhere
<1>19. CASE NodeCalls(a)
  BY <1>19, NodeCallsType
     DEF NodeCalls, sessionVars, graphVars, TypeInv, TypeOK, ControlTypeOK,
         Elsewhere
<1>20. CASE ToolsDone(a)
  BY <1>20, IdleType
     DEF ToolsDone, sessionVars, TypeInv, TypeOK, ControlTypeOK, Elsewhere
<1>21. CASE NodeRaises(a)
  BY <1>21, NodeRaisesType, IdleType
     DEF NodeRaises, sessionVars, TypeInv, TypeOK, ControlTypeOK, Elsewhere
<1>22. CASE Commit(a)
  BY <1>22, CommitType
     DEF Commit, controlVars, sessionVars, TypeInv, TypeOK, ControlTypeOK, Elsewhere
<1>23. CASE \E next \in {"tools", "end"} : ModelDone(a, next)
  BY <1>23, IdleType DEF ModelDone, TypeInv, TypeOK, ControlTypeOK, sessionVars, Elsewhere
<1> QED
  BY <1>1, <1>2, <1>3, <1>4, <1>5, <1>6, <1>7, <1>8, <1>9, <1>10, <1>11, <1>12,
     <1>13, <1>14, <1>15, <1>16, <1>17, <1>18, <1>19, <1>20, <1>21, <1>22, <1>23
     DEF AttemptStep, Serve, Generator, Graph

LEMMA AttemptStepControlled ==
  ASSUME TypeInv, NEW a \in Attempts, AttemptStep(a)
  PROVE  Controlled(a)'
<1>1. CASE Receive(a)
  BY <1>1
     DEF Receive, controlVars, graphVars, TypeInv, TypeOK, ControlTypeOK,
         Controlled, Streaming, Stages
<1>2. CASE Refuse(a)
  <2>1. control'[a].status = control[a].status
    BY <1>2, SupersededRows DEF Refuse, TypeInv, TypeOK, ControlTypeOK
  <2>2. /\ post[a].pc = "restored"
        /\ UNCHANGED <<call, graph, stream, proposal, log>>
    BY <1>2 DEF Refuse, graphVars
  <2> QED BY <2>1, <2>2 DEF TypeInv, Controlled
<1>3. CASE Accept(a)
  <2>1. control'[a].status = "running"
    BY <1>3, AcceptRows DEF TypeInv
  <2>2. post'[a].pc = "accepted" /\ stream'[a] = "new"
    BY <1>3, AnswerType DEF Accept, TypeInv, TypeOK
  <2>3. UNCHANGED <<call, graph, proposal, log>>
    BY <1>3 DEF Accept, graphVars
  <2> QED BY <2>1, <2>2, <2>3 DEF TypeInv, Controlled
<1>4. CASE Cancel(a)
  BY <1>4, SetType, SignalRow
     DEF Cancel, sessionVars, graphVars, TypeInv, TypeOK, ControlTypeOK, Controlled,
         Streaming, Stages
<1>5. CASE Start(a)
  BY <1>5, GotoType, YieldType
     DEF Start, Stages, Signals, controlVars, graphVars, TypeInv, TypeOK,
         ControlTypeOK, Controlled, Streaming, At
<1>6. CASE RunGraph(a)
  <2>1. stream[a] = "first" /\ stream'[a] = "graph"
    BY <1>6 DEF RunGraph, At, Goto, TypeInv, TypeOK
  <2>2. graph'[a].pc = "start"
    BY <1>6 DEF RunGraph, GraphGoto, TypeInv, TypeOK
  <2>3. UNCHANGED <<control, call, post, proposal, log>>
    BY <1>6 DEF RunGraph, controlVars
  <2> QED BY <2>1, <2>2, <2>3 DEF TypeInv, Controlled, Streaming, Stages
<1>7. CASE StreamStops(a)
  BY <1>7, CheckedKeeps, StopWithType
     DEF StreamStops, graphVars, TypeInv, TypeOK, ControlTypeOK, Controlled,
         Streaming, Stages, Kept
<1>8. CASE GraphRaises(a)
  <2>1. stream[a] = "graph"
    BY <1>8 DEF GraphRaises, At
  <2>2. /\ stream'[a] \in {"done", "proposed"}
        /\ stream'[a] = "proposed" => proposal'[a] = "failed"
    BY <1>8, StopWithType DEF GraphRaises, TypeInv, TypeOK
  <2>3. graph'[a].pc = "off"
    BY <1>8 DEF GraphRaises, GraphGoto, TypeInv, TypeOK
  <2>4. UNCHANGED <<control, call, post, log>>
    BY <1>8 DEF GraphRaises, controlVars
  <2> QED BY <2>1, <2>2, <2>3, <2>4 DEF TypeInv, Controlled, Streaming, Stages
<1>9. CASE GraphEnds(a)
  <2>1. stream[a] = "graph" /\ stream'[a] \in {"pause", "verify"}
    BY <1>9 DEF GraphEnds, At, Goto, TypeInv, TypeOK
  <2>2. graph'[a].pc \in {"off", "verify"}
    BY <1>9 DEF GraphEnds, GraphGoto, TypeInv, TypeOK
  <2>3. UNCHANGED <<control, call, post, proposal, log>>
    BY <1>9 DEF GraphEnds, controlVars
  <2> QED BY <2>1, <2>2, <2>3 DEF TypeInv, Controlled, Streaming, Stages
<1>10. CASE Interrupt(a)
  BY <1>10, InterruptRows, GotoType, YieldType
     DEF Interrupt, Stages, Signals, graphVars, TypeInv, TypeOK, ControlTypeOK,
         Controlled, Streaming, At
<1>11. CASE VerifyEnds(a)
  <2>1. stream[a] = "verify"
    BY <1>11 DEF VerifyEnds, At
  <2>2. stream'[a] \in {"done", "proposed"} /\ (stream'[a] = "proposed" => proposal'[a] # "none")
    <3>1. CASE \E status \in Stopped(a) : StopWith(a, status)
      BY <3>1, StopWithType DEF TypeInv, TypeOK
    <3>2. CASE Propose(a, "completed") \/ Propose(a, "failed")
      BY <3>2, ProposeType DEF TypeInv, TypeOK, Proposals
    <3> QED BY <1>11, <3>1, <3>2 DEF VerifyEnds
  <2>3. graph'[a].pc = "off"
    BY <1>11 DEF VerifyEnds, GraphGoto, TypeInv, TypeOK
  <2>4. UNCHANGED <<control, call, post, log>>
    BY <1>11 DEF VerifyEnds, controlVars
  <2> QED BY <2>1, <2>2, <2>3, <2>4 DEF TypeInv, Controlled, Streaming, Stages
<1>12. CASE AnnounceUsage(a)
  BY <1>12, CheckedKeeps, GotoType, YieldType, LeaveType
     DEF AnnounceUsage, Stages, Signals, graphVars, TypeInv, TypeOK, ControlTypeOK,
         Controlled, Streaming, Kept, At
<1>13. CASE CheckCompletion(a)
  BY <1>13, CheckedKeeps, GotoType, LeaveType
     DEF CheckCompletion, Stages, graphVars, TypeInv, TypeOK, ControlTypeOK,
         Controlled, Streaming, Kept, At
<1>14. CASE Complete(a)
  BY <1>14, CompleteRows, GotoType, YieldType
     DEF Complete, Stages, Signals, graphVars, TypeInv, TypeOK, ControlTypeOK,
         Controlled, Streaming, At
<1>15. CASE Exhausted(a)
  BY <1>15, LeaveType
     DEF Exhausted, controlVars, graphVars, TypeInv, TypeOK, ControlTypeOK,
         Controlled, Streaming, Stages, At
<1>16. CASE Drop(a)
  BY <1>16, GraphGotoType, LeaveType
     DEF Drop, GraphStages, controlVars, TypeInv, TypeOK, ControlTypeOK, Controlled,
         Streaming, Stages, At
<1>17. CASE LoseUnstarted(a)
  BY <1>17, GotoType
     DEF LoseUnstarted, Stages, controlVars, graphVars, TypeInv, TypeOK,
         ControlTypeOK, Controlled, Streaming, At
<1>18. CASE GraphLoads(a)
  BY <1>18
     DEF GraphLoads, controlVars, sessionVars, TypeInv, TypeOK, ControlTypeOK,
         Controlled, Streaming, Stages
<1>19. CASE NodeCalls(a)
  <2>1. graph[a].pc # "off"
    BY <1>19 DEF NodeCalls, Nodes
  <2>2. UNCHANGED <<control, post, stream, proposal, log, graph>>
    BY <1>19 DEF NodeCalls, sessionVars, graphVars
  <2> QED BY <2>1, <2>2 DEF TypeInv, Controlled
<1>20. CASE ToolsDone(a)
  BY <1>20, IdleType
     DEF ToolsDone, sessionVars, TypeInv, TypeOK, ControlTypeOK, Controlled,
         Streaming, Stages
<1>21. CASE NodeRaises(a)
  <2>1. /\ graph[a].pc # "off"
        /\ \A t \in Threads : call'[a][t].pc = "idle"
    BY <1>21, IdleType DEF NodeRaises, Nodes, TypeInv, TypeOK, ControlTypeOK
  <2>2. graph'[a].pc \in Raised
    BY <1>21, NodeRaisesType
  <2>3. UNCHANGED <<control, post, stream, proposal, log>>
    BY <1>21 DEF NodeRaises, sessionVars
  <2> QED BY <2>1, <2>2, <2>3 DEF TypeInv, Controlled, Raised, ControlStatus
<1>22. CASE Commit(a)
  <2>1. graph[a].pc = "commit"
    BY <1>22 DEF Commit
  <2>2. graph'[a].pc \in {"ended"} \cup Nodes
    BY <1>22, CommitType
  <2>3. UNCHANGED <<control, call, post, stream, proposal, log>>
    BY <1>22 DEF Commit, controlVars, sessionVars
  <2> QED BY <2>1, <2>2, <2>3 DEF TypeInv, Controlled, Nodes
<1>23. CASE \E next \in {"tools", "end"} : ModelDone(a, next)
  BY <1>23, IdleType DEF ModelDone, TypeInv, TypeOK, ControlTypeOK, sessionVars, Controlled, Streaming, Stages
<1> QED
  BY <1>1, <1>2, <1>3, <1>4, <1>5, <1>6, <1>7, <1>8, <1>9, <1>10, <1>11, <1>12,
     <1>13, <1>14, <1>15, <1>16, <1>17, <1>18, <1>19, <1>20, <1>21, <1>22, <1>23
     DEF AttemptStep, Serve, Generator, Graph

-----------------------------------------------------------------------------
(* The other steps                                                         *)

LEMMA CallerElsewhere ==
  ASSUME TypeInv, NEW a \in Attempts, NEW t \in Threads, Caller(a, t)
  PROVE  Elsewhere(a) /\ Controlled(a)'
<1>1. CallFrame(a) /\ control[a].status # "none"
  BY CallStepFrame DEF Caller
<1>2. UNCHANGED <<post, stream, proposal, log, graph>>
  BY DEF Caller, sessionVars, graphVars
<1>3. Elsewhere(a)
  BY <1>1, <1>2 DEF CallFrame, Elsewhere
<1>4. Controlled(a)'
  BY <1>1, <1>2 DEF CallFrame, Kept, TypeInv, Controlled
<1> QED BY <1>3, <1>4

LEMMA NestedCallElsewhere ==
  ASSUME TypeInv, NEW a \in Attempts, NEW t \in Threads, NestedCall(a, t)
  PROVE  Elsewhere(a) /\ Controlled(a)'
<1>1. /\ \A b \in Attempts \ {a} : call'[b] = call[b]
      /\ graph[a].pc = "tools"
      /\ UNCHANGED <<control, post, stream, proposal, log, graph>>
  BY NestedCallType DEF NestedCall, BeginCall, sessionVars, graphVars
<1>2. Elsewhere(a)
  BY <1>1 DEF Elsewhere
<1>3. Controlled(a)'
  BY <1>1 DEF TypeInv, Controlled
<1> QED BY <1>2, <1>3

LEMMA ShutdownControlled ==
  ASSUME TypeInv, Shutdown
  PROVE  \A a \in Attempts : Controlled(a)'
<1> TAKE a \in Attempts
<1>1. /\ control'[a].status = "none"
      /\ graph'[a].pc = "off"
      /\ \A t \in Threads : call'[a][t].pc = "idle"
  BY ShutdownRows DEF NoControl, NoGraph, NoCall
<1>2. stream'[a] \in {"none", "done"} /\ (stream[a] = "none" => stream'[a] = "none")
  BY ShutdownRows
<1>3. post'[a].pc # "accepted" => post[a].pc # "accepted"
  BY ShutdownRows
<1>4. UNCHANGED <<proposal, log>>
  BY ShutdownRows
<1> QED BY <1>1, <1>2, <1>3, <1>4 DEF TypeInv, Controlled, Streaming

(* The clock and the client touch nothing else.                            *)
Ambient ==
  \/ \E a \in Attempts : DeadlinePasses(a) /\ UNCHANGED <<sessionVars, graphVars, shutdowns>>
  \/ \E a \in Attempts : Disconnect(a)
  \/ UNCHANGED vars

LEMMA AmbientFrame ==
  ASSUME TypeInv, Ambient
  PROVE  /\ TypeOK'
         /\ UNCHANGED <<control, call, current, running, post, stream, proposal, log, graph>>
<1>1. CASE \E a \in Attempts : DeadlinePasses(a) /\ UNCHANGED <<sessionVars, graphVars, shutdowns>>
  BY <1>1 DEF DeadlinePasses, TypeInv, TypeOK, ControlTypeOK, sessionVars, graphVars
<1>2. CASE \E a \in Attempts : Disconnect(a)
  BY <1>2 DEF Disconnect, TypeInv, TypeOK, ControlTypeOK, controlVars, graphVars
<1>3. CASE UNCHANGED vars
  BY <1>3 DEF TypeInv, TypeOK, ControlTypeOK, vars, controlVars, sessionVars, graphVars
<1> QED BY <1>1, <1>2, <1>3 DEF Ambient

(* Every step is one of these.                                             *)
LEMMA NextIsStep ==
  ASSUME [Next]_vars
  PROVE  \/ \E a \in Attempts : AttemptStep(a)
         \/ \E a \in Attempts, t \in Threads : Caller(a, t) \/ NestedCall(a, t)
         \/ Ambient
         \/ Shutdown
BY DEF Next, AttemptStep, Ambient

LEMMA TypeInvInit == Init => TypeInv
<1> SUFFICES ASSUME Init PROVE TypeInv
  OBVIOUS
<1>1. ControlTypeOK
  BY NoControlRow DEF Init, ControlInit, ControlTypeOK, NoCall, CallState, CallKinds
<1>2. TypeOK
  BY <1>1, NoMessagesType DEF Init, TypeOK, Stages, Proposals, NoGraph, GraphStages
<1>3. \A a \in Attempts : Controlled(a)
  BY DEF Init, ControlInit, NoControl, NoGraph, NoCall, Controlled, Streaming
<1> QED BY <1>2, <1>3 DEF TypeInv

LEMMA TypeInvStep ==
  ASSUME TypeInv, [Next]_vars
  PROVE  TypeInv'
<1>1. ASSUME NEW a \in Attempts, AttemptStep(a)
      PROVE  TypeInv'
  <2>1. TypeOK' /\ Elsewhere(a) /\ Controlled(a)'
    BY <1>1, AttemptStepType, AttemptStepElsewhere, AttemptStepControlled
  <2>2. \A b \in Attempts \ {a} : Controlled(b)'
    BY <2>1, ElsewhereControlled DEF TypeInv
  <2> QED BY <2>1, <2>2 DEF TypeInv
<1>2. ASSUME NEW a \in Attempts, NEW t \in Threads, Caller(a, t) \/ NestedCall(a, t)
      PROVE  TypeInv'
  <2>1. TypeOK' /\ Elsewhere(a) /\ Controlled(a)'
    BY <1>2, CallerType, NestedCallType, CallerElsewhere, NestedCallElsewhere
  <2>2. \A b \in Attempts \ {a} : Controlled(b)'
    BY <2>1, ElsewhereControlled DEF TypeInv
  <2> QED BY <2>1, <2>2 DEF TypeInv
<1>3. CASE Ambient
  <2>1. \A a \in Attempts : Controlled(a)'
    BY <1>3, AmbientFrame DEF TypeInv, Controlled
  <2> QED BY <1>3, <2>1, AmbientFrame DEF TypeInv
<1>4. CASE Shutdown
  BY <1>4, ShutdownType, ShutdownControlled DEF TypeInv
<1> QED BY <1>1, <1>2, <1>3, <1>4, NextIsStep

(* The types hold together with this: what streams or runs a graph has a   *)
(* RunControl, which is what makes the types inductive.                    *)
THEOREM TypesHold == Spec => []TypeInv
<1>1. TypeInv /\ [Next]_vars => TypeInv'
  BY TypeInvStep
<1> QED BY <1>1, TypeInvInit, PTL DEF Spec

(* Every variable of the runtime keeps its type (TypeOK), whatever the     *)
(* threads of the attempts, the requests and the clock do: in particular a *)
(* thread is only ever stopped with a status check() or _reserve can have, *)
(* and only a proposal that was made is written to the stream.             *)
THEOREM RuntimeTypeCorrect == Spec => []TypeOK
<1>1. TypeInv => TypeOK
  BY DEF TypeInv
<1> QED BY <1>1, TypesHold, PTL

-----------------------------------------------------------------------------
(* Budgets                                                                 *)

(* A step that is not a call starts within the budget or counts nothing.   *)
LEMMA AttemptStepCalls ==
  ASSUME TypeInv, NEW a \in Attempts, AttemptStep(a)
  PROVE  \/ control'[a].models = control[a].models /\ control'[a].tools = control[a].tools
         \/ control'[a].models <= MaxModelCalls /\ control'[a].tools <= MaxToolCalls
<1>1. CASE Receive(a)
  BY <1>1 DEF Receive, controlVars
<1>2. CASE Refuse(a)
  BY <1>2, SupersededRows DEF Refuse, TypeInv, TypeOK, ControlTypeOK
<1>3. CASE Accept(a)
  BY <1>3, AcceptRows DEF TypeInv, Fits
<1>4. CASE Cancel(a)
  BY <1>4, SignalRow, SetType DEF Cancel, TypeInv, TypeOK, ControlTypeOK
<1>5. CASE Start(a)
  BY <1>5 DEF Start, controlVars
<1>6. CASE RunGraph(a)
  BY <1>6 DEF RunGraph, controlVars
<1>7. CASE StreamStops(a)
  BY <1>7, CheckedKeeps, CheckedRow DEF StreamStops, TypeInv, TypeOK, ControlTypeOK
<1>8. CASE GraphRaises(a)
  BY <1>8 DEF GraphRaises, controlVars
<1>9. CASE GraphEnds(a)
  BY <1>9 DEF GraphEnds, controlVars
<1>10. CASE Interrupt(a)
  BY <1>10, InterruptRows DEF TypeInv
<1>11. CASE VerifyEnds(a)
  BY <1>11 DEF VerifyEnds, controlVars
<1>12. CASE AnnounceUsage(a)
  BY <1>12, CheckedKeeps, CheckedRow DEF AnnounceUsage, TypeInv, TypeOK, ControlTypeOK
<1>13. CASE CheckCompletion(a)
  BY <1>13, CheckedKeeps, CheckedRow DEF CheckCompletion, TypeInv, TypeOK, ControlTypeOK
<1>14. CASE Complete(a)
  BY <1>14, CompleteRows
<1>15. CASE Exhausted(a)
  BY <1>15 DEF Exhausted, controlVars
<1>16. CASE Drop(a)
  BY <1>16 DEF Drop, controlVars
<1>17. CASE LoseUnstarted(a)
  BY <1>17 DEF LoseUnstarted, controlVars
<1>18. CASE GraphLoads(a)
  BY <1>18 DEF GraphLoads, controlVars
<1>19. CASE NodeCalls(a)
  BY <1>19 DEF NodeCalls
<1>20. CASE ToolsDone(a)
  BY <1>20 DEF ToolsDone
<1>21. CASE NodeRaises(a)
  BY <1>21 DEF NodeRaises
<1>22. CASE Commit(a)
  BY <1>22 DEF Commit, controlVars
<1>23. CASE \E next \in {"tools", "end"} : ModelDone(a, next)
  BY <1>23 DEF ModelDone
<1> QED
  BY <1>1, <1>2, <1>3, <1>4, <1>5, <1>6, <1>7, <1>8, <1>9, <1>10, <1>11, <1>12,
     <1>13, <1>14, <1>15, <1>16, <1>17, <1>18, <1>19, <1>20, <1>21, <1>22, <1>23
     DEF AttemptStep, Serve, Generator, Graph

LEMMA BudgetStep ==
  ASSUME TypeInv, WithinBudget, [Next]_vars
  PROVE  WithinBudget'
<1>1. ASSUME NEW a \in Attempts, AttemptStep(a)
      PROVE  WithinBudget'
  BY <1>1, AttemptStepCalls, AttemptStepElsewhere DEF Elsewhere, WithinBudget
<1>2. ASSUME NEW a \in Attempts, NEW t \in Threads, Caller(a, t)
      PROVE  WithinBudget'
  <2>1. \A b \in Attempts \ {a} :
          control'[b].models = control[b].models /\ control'[b].tools = control[b].tools
    BY <1>2, CallerElsewhere DEF Elsewhere
  <2>2. /\ control[a] \in ControlRow
        /\ call[a][t].kind \in CallKinds
    BY DEF TypeInv, TypeOK, ControlTypeOK, CallState
  <2>3. control'[a].models <= MaxModelCalls /\ control'[a].tools <= MaxToolCalls
    <3>1. CASE Reserve(a, t)
      <4>1. PICK row \in {Reserved(a, call[a][t].kind),
               [control[a] EXCEPT !.status = "budget_exhausted", !.cancel = TRUE]} :
              /\ control'[a] = row
              /\ row.models # control[a].models => control[a].models < MaxModelCalls
              /\ row.tools # control[a].tools => control[a].tools < MaxToolCalls
        BY <3>1, ReserveFrame
      <4>2. control[a].models \in Nat /\ control[a].tools \in Nat
        BY <2>2 DEF ControlRow
      <4>3. /\ row.models \in {control[a].models, control[a].models + 1}
            /\ row.tools \in {control[a].tools, control[a].tools + 1}
        <5>1. CASE row = Reserved(a, call[a][t].kind)
          BY <2>2, <5>1, ReservedRow
        <5>2. CASE row = [control[a] EXCEPT !.status = "budget_exhausted", !.cancel = TRUE]
          BY <2>2, <5>2 DEF ControlRow
        <5> QED BY <4>1, <5>1, <5>2
      <4> QED BY <4>1, <4>2, <4>3 DEF WithinBudget
    <3>2. CASE ~Reserve(a, t)
      BY <1>2, <3>2, CallStepFrame DEF Caller, WithinBudget
    <3> QED BY <3>1, <3>2
  <2> QED BY <2>1, <2>3 DEF WithinBudget
<1>3. CASE Ambient \/ \E a \in Attempts, t \in Threads : NestedCall(a, t)
  BY <1>3, AmbientFrame DEF NestedCall, BeginCall, WithinBudget
<1>4. CASE Shutdown
  BY <1>4, ShutdownRows DEF NoControl, WithinBudget
<1> QED BY <1>1, <1>2, <1>3, <1>4, NextIsStep

(* However many threads reserve at once, an attempt never makes more model *)
(* or tool calls than its budget (WithinBudget): check() and the           *)
(* reservation are two steps, but _reserve compares and counts in one.     *)
THEOREM CallsStayWithinBudget == Spec => []WithinBudget
<1>1. Init => WithinBudget
  BY DEF Init, ControlInit, NoControl, WithinBudget
<1>2. TypeInv /\ WithinBudget /\ [Next]_vars => WithinBudget'
  BY BudgetStep
<1> QED BY <1>1, <1>2, TypesHold, PTL DEF Spec

-----------------------------------------------------------------------------
(* One stream at a time                                                    *)

(* Only the current attempt is marked running, and what streams is marked. *)
OneRunning ==
  /\ running \subseteq {current}
  /\ \A a \in Attempts : stream[a] \in Streaming => a \in running

(* Only an accepted attempt is marked, and who leaves is not.              *)
LEMMA AttemptStepMarks ==
  ASSUME TypeInv, NEW a \in Attempts, AttemptStep(a)
  PROVE  \/ Accept(a)
         \/ /\ current' = current
            /\ running' = running
            /\ stream'[a] \in Streaming => stream[a] \in Streaming
         \/ /\ current' = current
            /\ running' = running \ {a}
            /\ stream'[a] \notin Streaming
<1>1. CASE Receive(a)
  BY <1>1
     DEF Receive
<1>2. CASE Refuse(a)
  BY <1>2
     DEF Refuse
<1>3. CASE Accept(a)
  BY <1>3
<1>4. CASE Cancel(a)
  BY <1>4
     DEF Cancel, sessionVars
<1>5. CASE Start(a)
  BY <1>5, GotoType
     DEF Start, TypeInv, TypeOK, Stages, Streaming, At
<1>6. CASE RunGraph(a)
  BY <1>6, GotoType
     DEF RunGraph, TypeInv, TypeOK, Stages, Streaming, At
<1>7. CASE StreamStops(a)
  BY <1>7, StopWithType
     DEF StreamStops, TypeInv, TypeOK, Streaming, Stages, At
<1>8. CASE GraphRaises(a)
  BY <1>8, StopWithType
     DEF GraphRaises, TypeInv, TypeOK, Streaming, Stages, At
<1>9. CASE GraphEnds(a)
  BY <1>9, GotoType
     DEF GraphEnds, TypeInv, TypeOK, Stages, Streaming, At
<1>10. CASE Interrupt(a)
  BY <1>10, GotoType
     DEF Interrupt, TypeInv, TypeOK, Stages, Streaming, At
<1>11. CASE VerifyEnds(a)
  BY <1>11, StopWithType, ProposeType
     DEF VerifyEnds, TypeInv, TypeOK, Streaming, Stages, At, Proposals
<1>12. CASE AnnounceUsage(a)
  BY <1>12, GotoType, LeaveType
     DEF AnnounceUsage, TypeInv, TypeOK, Stages, Streaming, At
<1>13. CASE CheckCompletion(a)
  BY <1>13, GotoType, LeaveType
     DEF CheckCompletion, TypeInv, TypeOK, Stages, Streaming, At
<1>14. CASE Complete(a)
  BY <1>14, GotoType
     DEF Complete, TypeInv, TypeOK, Stages, Streaming, At
<1>15. CASE Exhausted(a)
  BY <1>15, LeaveType
     DEF Exhausted, TypeInv, TypeOK, Streaming
<1>16. CASE Drop(a)
  BY <1>16, LeaveType
     DEF Drop, TypeInv, TypeOK, Streaming
<1>17. CASE LoseUnstarted(a)
  BY <1>17, GotoType
     DEF LoseUnstarted, TypeInv, TypeOK, Stages, Streaming, At
<1>18. CASE GraphLoads(a)
  BY <1>18
     DEF GraphLoads, sessionVars
<1>19. CASE NodeCalls(a)
  BY <1>19
     DEF NodeCalls, sessionVars
<1>20. CASE ToolsDone(a)
  BY <1>20
     DEF ToolsDone, sessionVars
<1>21. CASE NodeRaises(a)
  BY <1>21
     DEF NodeRaises, sessionVars
<1>22. CASE Commit(a)
  BY <1>22
     DEF Commit, sessionVars
<1>23. CASE \E next \in {"tools", "end"} : ModelDone(a, next)
  BY <1>23 DEF ModelDone, sessionVars
<1> QED
  BY <1>1, <1>2, <1>3, <1>4, <1>5, <1>6, <1>7, <1>8, <1>9, <1>10, <1>11, <1>12,
     <1>13, <1>14, <1>15, <1>16, <1>17, <1>18, <1>19, <1>20, <1>21, <1>22, <1>23
     DEF AttemptStep, Serve, Generator, Graph

LEMMA OneRunningStep ==
  ASSUME TypeInv, OneRunning, [Next]_vars
  PROVE  OneRunning'
<1>1. ASSUME NEW a \in Attempts, AttemptStep(a)
      PROVE  OneRunning'
  <2>1. \A b \in Attempts \ {a} : stream'[b] = stream[b]
    BY <1>1, AttemptStepElsewhere DEF Elsewhere
  <2>2. CASE Accept(a)
    <3>1. /\ current' = a
          /\ running' = running \cup {a}
          /\ current = 0 \/ current \notin running
      BY <2>2 DEF Accept, Acceptable, Admits
    <3>2. running = {}
      BY <3>1 DEF OneRunning, TypeInv, TypeOK, Attempts
    <3> QED BY <2>1, <3>1, <3>2 DEF OneRunning
  <2>3. CASE ~Accept(a)
    BY <1>1, <2>1, <2>3, AttemptStepMarks DEF OneRunning
  <2> QED BY <2>2, <2>3
<1>2. ASSUME NEW a \in Attempts, NEW t \in Threads, Caller(a, t) \/ NestedCall(a, t)
      PROVE  OneRunning'
  BY <1>2 DEF Caller, NestedCall, sessionVars, OneRunning
<1>3. CASE Ambient
  BY <1>3, AmbientFrame DEF OneRunning
<1>4. CASE Shutdown
  BY <1>4, ShutdownRows DEF OneRunning, Streaming
<1> QED BY <1>1, <1>2, <1>3, <1>4, NextIsStep

(* The table of sessions marks the current attempt only, and every         *)
(* generator that streams is that attempt's.                               *)
THEOREM OneRuns == Spec => []OneRunning
<1>1. Init => OneRunning
  BY DEF Init, OneRunning, Streaming
<1>2. TypeInv /\ OneRunning /\ [Next]_vars => OneRunning'
  BY OneRunningStep
<1> QED BY <1>1, <1>2, TypesHold, PTL DEF Spec

(* Only the newest attempt of a run streams (SupersededIsSilent): execute  *)
(* refuses an attempt while the session of the one before is marked        *)
(* running, and the mark is cleared only where the generator ends.         *)
THEOREM OneAttemptStreams == Spec => []SupersededIsSilent
<1>1. OneRunning => SupersededIsSilent
  BY DEF OneRunning, SupersededIsSilent
<1> QED BY <1>1, OneRuns, PTL

-----------------------------------------------------------------------------
(* What a stage of the generator says about its log and its threads        *)

Endings == {"interrupted", "completed", "failed"}
LastOf(a) == log[a][Len(log[a])]
Over(a) == log[a] # <<>> /\ LastOf(a) \in Endings

Halted(a) == control[a].cancel \/ control[a].status \notin {"none", "running"}
AtRest(a) == graph[a].pc = "off" /\ Quiet(a)

(* Events are sent in the order of the stages.  A proposal without any     *)
(* event before it comes from an attempt that check() lets go no further.  *)
LogOfStage(a) ==
  /\ stream[a] \in {"none", "new"} => log[a] = <<>>
  /\ log[a] = <<>> =>
       \/ stream[a] \in {"none", "new", "done", "lost"}
       \/ stream[a] = "proposed" /\ Halted(a)
  /\ stream[a] \in {"first", "graph", "pause", "verify"} => LastOf(a) = "progress"
  /\ stream[a] = "proposed" /\ log[a] # <<>> => LastOf(a) = "progress"
  /\ stream[a] \in {"usage", "complete"} => LastOf(a) = "usage"
  /\ stream[a] = "last" => Over(a)
  /\ Over(a) => stream[a] \in {"last", "done"}

LEMMA StreamStopsHalts ==
  ASSUME TypeInv, NEW a \in Attempts, StreamStops(a)
  PROVE  /\ Halted(a)'
         /\ stream[a] \in {"new", "graph", "verify"}
         /\ stream'[a] \in {"done", "proposed"}
         /\ UNCHANGED <<log, graph, call>>
<1>1. /\ stream[a] \in {"new", "graph", "verify"}
      /\ ~Passes(a)
      /\ Set(a, Checked(a))
      /\ UNCHANGED <<log, graph, call>>
  BY DEF StreamStops, graphVars
<1>2. /\ control \in [Attempts -> ControlRow]
      /\ control[a] \in ControlRow
      /\ control[a].status # "none"
  BY <1>1 DEF TypeInv, TypeOK, ControlTypeOK, Controlled, Streaming, Stages
<1>3. Halted(a)'
  BY <1>1, <1>2, CheckedKeeps, CheckedStatus DEF Halted, Raised, ControlStatus
<1>4. stream'[a] \in {"done", "proposed"}
  BY StopWithType DEF StreamStops, TypeInv, TypeOK
<1> QED BY <1>1, <1>3, <1>4

LEMMA AttemptStepLog ==
  ASSUME TypeInv, NEW a \in Attempts, LogOfStage(a), AttemptStep(a)
  PROVE  LogOfStage(a)'
<1>1. CASE Receive(a)
  BY <1>1 DEF Receive, controlVars, LogOfStage, LastOf, Over, Halted
<1>2. CASE Refuse(a)
  BY <1>2, SupersededRows, AnswerType
     DEF Refuse, graphVars, TypeInv, TypeOK, ControlTypeOK, LogOfStage, LastOf,
         Over, Endings, Halted, At, Stages
<1>3. CASE Accept(a)
  <2>1. stream'[a] = "new" /\ log'[a] = log[a]
    BY <1>3 DEF Accept, TypeInv, TypeOK
  <2>2. log[a] = <<>>
    BY <1>3 DEF Accept, TypeInv, Controlled
  <2> QED BY <2>1, <2>2 DEF LogOfStage, Over
<1>4. CASE Cancel(a)
  BY <1>4, SetType, SignalRow
     DEF Cancel, sessionVars, graphVars, TypeInv, TypeOK, ControlTypeOK, LogOfStage,
         LastOf, Over, Endings, Halted, At, Stages
<1>5. CASE Start(a)
  BY <1>5, GotoType, YieldType
     DEF Start, Stages, Signals, controlVars, graphVars, TypeInv, TypeOK,
         ControlTypeOK, LogOfStage, LastOf, Over, Endings, Halted, At, Stages
<1>6. CASE RunGraph(a)
  BY <1>6, GotoType, GraphGotoType
     DEF RunGraph, Stages, GraphStages, controlVars, TypeInv, TypeOK, ControlTypeOK,
         LogOfStage, LastOf, Over, Endings, Halted, At, Stages
<1>7. CASE StreamStops(a)
  BY <1>7, StreamStopsHalts DEF LogOfStage, LastOf, Over, Endings
<1>8. CASE GraphRaises(a)
  BY <1>8, GraphGotoType, StopWithType
     DEF GraphRaises, GraphStages, controlVars, TypeInv, TypeOK, ControlTypeOK,
         LogOfStage, LastOf, Over, Endings, Halted, At, Stages
<1>9. CASE GraphEnds(a)
  BY <1>9, GotoType, GraphGotoType
     DEF GraphEnds, Stages, GraphStages, controlVars, TypeInv, TypeOK,
         ControlTypeOK, LogOfStage, LastOf, Over, Endings, Halted, At, Stages
<1>10. CASE Interrupt(a)
  BY <1>10, InterruptRows, GotoType, YieldType
     DEF Interrupt, Stages, Signals, graphVars, TypeInv, TypeOK, ControlTypeOK,
         LogOfStage, LastOf, Over, Endings, Halted, At, Stages
<1>11. CASE VerifyEnds(a)
  BY <1>11, GraphGotoType, ProposeType, StopWithType
     DEF VerifyEnds, GraphStages, Proposals, controlVars, TypeInv, TypeOK,
         ControlTypeOK, LogOfStage, LastOf, Over, Endings, Halted, At, Stages
<1>12. CASE AnnounceUsage(a)
  BY <1>12, CheckedKeeps, GotoType, YieldType, LeaveType
     DEF AnnounceUsage, Stages, Signals, graphVars, TypeInv, TypeOK, ControlTypeOK,
         LogOfStage, LastOf, Over, Endings, Halted, Kept, At, Stages
<1>13. CASE CheckCompletion(a)
  BY <1>13, CheckedKeeps, GotoType, LeaveType
     DEF CheckCompletion, Stages, graphVars, TypeInv, TypeOK, ControlTypeOK,
         LogOfStage, LastOf, Over, Endings, Halted, Kept, At, Stages
<1>14. CASE Complete(a)
  <2>1. stream'[a] = "last"
    BY <1>14 DEF Complete, Goto, TypeInv, TypeOK
  <2>2. proposal[a] \in Endings /\ proposal[a] \in Signals
    BY <1>14 DEF Complete, At, TypeInv, TypeOK, Controlled, Proposals, Endings, Signals
  <2>3. log'[a] # <<>> /\ log'[a][Len(log'[a])] = proposal[a]
    BY <1>14, <2>2, YieldType DEF Complete, TypeInv, TypeOK
  <2> QED BY <2>1, <2>2, <2>3 DEF LogOfStage, LastOf, Over
<1>15. CASE Exhausted(a)
  BY <1>15, LeaveType
     DEF Exhausted, controlVars, graphVars, TypeInv, TypeOK, ControlTypeOK,
         LogOfStage, LastOf, Over, Endings, Halted, At, Stages
<1>16. CASE Drop(a)
  BY <1>16, GraphGotoType, LeaveType
     DEF Drop, GraphStages, controlVars, TypeInv, TypeOK, ControlTypeOK, LogOfStage,
         LastOf, Over, Endings, Halted, At, Stages
<1>17. CASE LoseUnstarted(a)
  BY <1>17, GotoType
     DEF LoseUnstarted, Stages, controlVars, graphVars, TypeInv, TypeOK,
         ControlTypeOK, LogOfStage, LastOf, Over, Endings, Halted, At, Stages
<1>18. CASE GraphLoads(a)
  BY <1>18 DEF GraphLoads, controlVars, sessionVars, LogOfStage, LastOf, Over, Halted
<1>19. CASE NodeCalls(a)
  BY <1>19 DEF NodeCalls, controlVars, sessionVars, LogOfStage, LastOf, Over, Halted
<1>20. CASE ToolsDone(a)
  BY <1>20 DEF ToolsDone, controlVars, sessionVars, LogOfStage, LastOf, Over, Halted
<1>21. CASE NodeRaises(a)
  BY <1>21 DEF NodeRaises, controlVars, sessionVars, LogOfStage, LastOf, Over, Halted
<1>22. CASE Commit(a)
  BY <1>22 DEF Commit, controlVars, sessionVars, LogOfStage, LastOf, Over, Halted
<1>23. CASE \E next \in {"tools", "end"} : ModelDone(a, next)
  BY <1>23 DEF ModelDone, sessionVars, LogOfStage, LastOf, Over, Halted
<1> QED
  BY <1>1, <1>2, <1>3, <1>4, <1>5, <1>6, <1>7, <1>8, <1>9, <1>10, <1>11, <1>12,
     <1>13, <1>14, <1>15, <1>16, <1>17, <1>18, <1>19, <1>20, <1>21, <1>22, <1>23
     DEF AttemptStep, Serve, Generator, Graph


(* Nothing runs for an attempt whose ending was sent or is about to be,    *)
(* except where check() lets it go no further; so its status stays.        *)
RestOfStage(a) ==
  /\ stream[a] \in {"none", "new", "first", "pause", "usage", "complete", "last"} => AtRest(a)
  /\ stream[a] = "proposed" => AtRest(a) \/ Halted(a)
  /\ graph[a].pc \in {"start", "commit", "ended"} \cup Raised => Quiet(a)
  /\ Over(a) /\ control[a].status # "none" => AtRest(a) /\ control[a].status = LastOf(a)

LEMMA AttemptStepRest ==
  ASSUME TypeInv, NEW a \in Attempts, LogOfStage(a), RestOfStage(a),
         AttemptStep(a)
  PROVE  RestOfStage(a)'
<1>1. CASE Receive(a)
  BY <1>1
     DEF Receive, controlVars, graphVars, TypeInv, TypeOK, ControlTypeOK,
         LogOfStage, RestOfStage, AtRest, Quiet, LastOf, Over, Endings, Halted, At,
         Stages
<1>2. CASE Refuse(a)
  BY <1>2, SupersededRows, AnswerType
     DEF Refuse, graphVars, TypeInv, TypeOK, ControlTypeOK, LogOfStage, RestOfStage,
         AtRest, Quiet, LastOf, Over, Endings, Halted, At, Stages
<1>3. CASE Accept(a)
  <2>1. stream[a] = "none" /\ log[a] = <<>>
    BY <1>3 DEF Accept, TypeInv, Controlled
  <2>2. stream'[a] = "new" /\ UNCHANGED <<call, graph, log>>
    BY <1>3 DEF Accept, graphVars, TypeInv, TypeOK
  <2> QED BY <2>1, <2>2 DEF RestOfStage, AtRest, Quiet, Over
<1>4. CASE Cancel(a)
  BY <1>4, SetType, SignalRow
     DEF Cancel, sessionVars, graphVars, TypeInv, TypeOK, ControlTypeOK, LogOfStage,
         RestOfStage, AtRest, Quiet, LastOf, Over, Endings, Halted, At, Stages
<1>5. CASE Start(a)
  BY <1>5, GotoType, YieldType
     DEF Start, Stages, Signals, controlVars, graphVars, TypeInv, TypeOK,
         ControlTypeOK, LogOfStage, RestOfStage, AtRest, Quiet, LastOf, Over,
         Endings, Halted, At, Stages
<1>6. CASE RunGraph(a)
  BY <1>6, GotoType, GraphGotoType
     DEF RunGraph, Stages, GraphStages, controlVars, TypeInv, TypeOK, ControlTypeOK,
         LogOfStage, RestOfStage, AtRest, Quiet, LastOf, Over, Endings, Halted, At,
         Stages
<1>7. CASE StreamStops(a)
  <2>1. /\ Halted(a)'
        /\ ~Over(a)
        /\ stream'[a] \in {"done", "proposed"}
        /\ UNCHANGED <<log, graph, call>>
    BY <1>7, StreamStopsHalts DEF LogOfStage
  <2> QED BY <2>1 DEF RestOfStage, Over, LastOf, Quiet
<1>8. CASE GraphRaises(a)
  BY <1>8, GraphGotoType, StopWithType
     DEF GraphRaises, GraphStages, controlVars, TypeInv, TypeOK, ControlTypeOK,
         LogOfStage, RestOfStage, AtRest, Quiet, LastOf, Over, Endings, Halted, At,
         Stages
<1>9. CASE GraphEnds(a)
  BY <1>9, GotoType, GraphGotoType
     DEF GraphEnds, Stages, GraphStages, controlVars, TypeInv, TypeOK,
         ControlTypeOK, LogOfStage, RestOfStage, AtRest, Quiet, LastOf, Over,
         Endings, Halted, At, Stages
<1>10. CASE Interrupt(a)
  BY <1>10, InterruptRows, GotoType, YieldType
     DEF Interrupt, Stages, Signals, graphVars, TypeInv, TypeOK, ControlTypeOK,
         LogOfStage, RestOfStage, AtRest, Quiet, LastOf, Over, Endings, Halted, At,
         Stages
<1>11. CASE VerifyEnds(a)
  BY <1>11, GraphGotoType, ProposeType, StopWithType
     DEF VerifyEnds, GraphStages, Proposals, controlVars, TypeInv, TypeOK,
         ControlTypeOK, LogOfStage, RestOfStage, AtRest, Quiet, LastOf, Over,
         Endings, Halted, At, Stages
<1>12. CASE AnnounceUsage(a)
  <2>1. /\ stream[a] = "proposed"
        /\ Set(a, Checked(a))
        /\ UNCHANGED <<call, graph>>
    BY <1>12 DEF AnnounceUsage, At, graphVars
  <2>2. ~Over(a)
    BY <2>1 DEF LogOfStage
  <2>3. CASE Passes(a)
    <3>1. AtRest(a)
      <4>1. ~Halted(a)
        BY <2>1, <2>3 DEF Passes, Checked, Halted, TypeInv, TypeOK, ControlTypeOK, ControlRow
      <4> QED BY <2>1, <4>1 DEF RestOfStage
    <3>2. stream'[a] = "usage"
      BY <1>12, <2>3 DEF AnnounceUsage, Goto, TypeInv, TypeOK
    <3>3. log'[a][Len(log'[a])] = "usage"
      BY <1>12, <2>3, YieldType DEF AnnounceUsage, TypeInv, TypeOK, Signals
    <3> QED BY <2>1, <3>1, <3>2, <3>3 DEF RestOfStage, AtRest, Quiet, Over, LastOf, Endings
  <2>4. CASE ~Passes(a)
    <3>1. stream'[a] = "done" /\ log' = log
      BY <1>12, <2>4 DEF AnnounceUsage, Leave, Goto, TypeInv, TypeOK
    <3> QED BY <2>1, <2>2, <3>1 DEF RestOfStage, Quiet, Over, LastOf
  <2> QED BY <2>3, <2>4
<1>13. CASE CheckCompletion(a)
  BY <1>13, CheckedKeeps, GotoType, LeaveType
     DEF CheckCompletion, Stages, graphVars, TypeInv, TypeOK, ControlTypeOK,
         LogOfStage, RestOfStage, AtRest, Quiet, LastOf, Over, Endings, Halted,
         Kept, At, Stages
<1>14. CASE Complete(a)
  <2>1. AtRest(a) /\ UNCHANGED <<call, graph>>
    BY <1>14 DEF Complete, At, RestOfStage, graphVars
  <2>2. proposal[a] \in Signals /\ stream'[a] = "last"
    BY <1>14 DEF Complete, At, Goto, TypeInv, TypeOK, Controlled, Proposals, Signals
  <2>3. log'[a][Len(log'[a])] = proposal[a]
    BY <1>14, <2>2, YieldType DEF Complete, TypeInv, TypeOK
  <2>4. control'[a].status = proposal[a]
    BY <1>14, CompleteRows
  <2> QED BY <2>1, <2>2, <2>3, <2>4 DEF RestOfStage, AtRest, Quiet, LastOf
<1>15. CASE Exhausted(a)
  BY <1>15, LeaveType
     DEF Exhausted, controlVars, graphVars, TypeInv, TypeOK, ControlTypeOK,
         LogOfStage, RestOfStage, AtRest, Quiet, LastOf, Over, Endings, Halted, At,
         Stages
<1>16. CASE Drop(a)
  BY <1>16, GraphGotoType, LeaveType
     DEF Drop, GraphStages, controlVars, TypeInv, TypeOK, ControlTypeOK, LogOfStage,
         RestOfStage, AtRest, Quiet, LastOf, Over, Endings, Halted, At, Stages
<1>17. CASE LoseUnstarted(a)
  BY <1>17, GotoType
     DEF LoseUnstarted, Stages, controlVars, graphVars, TypeInv, TypeOK,
         ControlTypeOK, LogOfStage, RestOfStage, AtRest, Quiet, LastOf, Over,
         Endings, Halted, At, Stages
<1>18. CASE GraphLoads(a)
  BY <1>18
     DEF GraphLoads, controlVars, sessionVars, TypeInv, TypeOK, ControlTypeOK,
         LogOfStage, RestOfStage, AtRest, Quiet, LastOf, Over, Endings, Halted, At,
         Stages
<1>19. CASE NodeCalls(a)
  <2>1. /\ graph[a].pc \in Nodes \cup {"verify"}
        /\ UNCHANGED <<control, stream, log, graph>>
    BY <1>19 DEF NodeCalls, sessionVars, graphVars
  <2>2. ~AtRest(a)
    BY <2>1 DEF AtRest, Nodes
  <2>3. graph[a].pc \notin {"start", "commit", "ended"} \cup Raised
    BY <2>1 DEF Nodes, Raised, ControlStatus
  <2> QED BY <2>1, <2>2, <2>3 DEF RestOfStage, Halted, Over, LastOf
<1>20. CASE ToolsDone(a)
  <2>1. /\ graph[a].pc # "off"
        /\ \A t \in Threads : call'[a][t].pc = "idle"
        /\ UNCHANGED <<control, stream, log>>
    BY <1>20, IdleType DEF ToolsDone, Nodes, sessionVars, TypeInv, TypeOK, ControlTypeOK
  <2> QED BY <2>1 DEF RestOfStage, AtRest, Quiet, Busy, LastOf, Over, Halted
<1>21. CASE NodeRaises(a)
  <2>1. /\ graph[a].pc # "off"
        /\ \A t \in Threads : call'[a][t].pc = "idle"
        /\ UNCHANGED <<control, stream, log>>
    BY <1>21, IdleType DEF NodeRaises, Nodes, sessionVars, TypeInv, TypeOK, ControlTypeOK
  <2> QED BY <2>1 DEF RestOfStage, AtRest, Quiet, Busy, LastOf, Over, Halted
<1>22. CASE Commit(a)
  BY <1>22, CommitType
     DEF Commit, controlVars, sessionVars, TypeInv, TypeOK, ControlTypeOK,
         LogOfStage, RestOfStage, AtRest, Quiet, LastOf, Over, Endings, Halted, At,
         Stages
<1>23. CASE \E next \in {"tools", "end"} : ModelDone(a, next)
  <2>1. /\ graph[a].pc = "model"
        /\ \A t \in Threads : call'[a][t].pc = "idle"
        /\ UNCHANGED <<control, stream, log>>
    BY <1>23, IdleType DEF ModelDone, sessionVars, TypeInv, TypeOK, ControlTypeOK
  <2> QED BY <2>1 DEF RestOfStage, AtRest, Quiet, Busy, LastOf, Over, Halted
<1> QED
  BY <1>1, <1>2, <1>3, <1>4, <1>5, <1>6, <1>7, <1>8, <1>9, <1>10, <1>11, <1>12,
     <1>13, <1>14, <1>15, <1>16, <1>17, <1>18, <1>19, <1>20, <1>21, <1>22, <1>23
     DEF AttemptStep, Serve, Generator, Graph

StageInv == \A a \in Attempts : LogOfStage(a) /\ RestOfStage(a)

LEMMA StageInvInit == Init => StageInv
BY DEF Init, ControlInit, NoControl, NoGraph, NoCall, StageInv, LogOfStage, RestOfStage, Over,
       AtRest, Quiet, Busy

LEMMA ElsewhereStage ==
  ASSUME StageInv, NEW a \in Attempts, Elsewhere(a)
  PROVE  \A b \in Attempts \ {a} : LogOfStage(b)' /\ RestOfStage(b)'
<1> TAKE b \in Attempts \ {a}
<1>1. /\ UNCHANGED <<call[b], stream[b], log[b], graph[b], control[b].status>>
      /\ control[b].cancel => control'[b].cancel
  BY DEF Elsewhere
<1>2. Halted(b) => Halted(b)'
  BY <1>1 DEF Halted
<1>3. /\ Over(b)' <=> Over(b)
      /\ LastOf(b)' = LastOf(b)
      /\ AtRest(b)' <=> AtRest(b)
      /\ Quiet(b)' <=> Quiet(b)
  BY <1>1 DEF Over, LastOf, AtRest, Quiet
<1>4. LogOfStage(b)'
  BY <1>1, <1>2, <1>3 DEF StageInv, LogOfStage
<1>5. RestOfStage(b)'
  BY <1>1, <1>2, <1>3 DEF StageInv, RestOfStage
<1> QED BY <1>4, <1>5

LEMMA CallerStage ==
  ASSUME TypeInv, NEW a \in Attempts, LogOfStage(a), RestOfStage(a),
         NEW t \in Threads, Caller(a, t)
  PROVE  LogOfStage(a)' /\ RestOfStage(a)'
<1>1. /\ CallFrame(a)
      /\ ~Quiet(a)
      /\ control[a].status # "none"
      /\ UNCHANGED <<stream, log, graph>>
  BY CallStepFrame DEF Caller, Quiet, sessionVars, graphVars
<1>2. Halted(a) => Halted(a)'
  BY <1>1 DEF Halted, CallFrame, Kept
<1>3. LogOfStage(a)'
  BY <1>1, <1>2 DEF LogOfStage, Over, LastOf
<1>4. RestOfStage(a)'
  BY <1>1, <1>2 DEF RestOfStage, AtRest, Over, LastOf
<1> QED BY <1>3, <1>4

LEMMA NestedCallStage ==
  ASSUME TypeInv, NEW a \in Attempts, LogOfStage(a), RestOfStage(a),
         NEW t \in Threads, NestedCall(a, t)
  PROVE  LogOfStage(a)' /\ RestOfStage(a)'
<1>1. /\ graph[a].pc = "tools"
      /\ UNCHANGED <<control, stream, log, graph>>
  BY DEF NestedCall, BeginCall, sessionVars, graphVars
<1>2. ~AtRest(a) /\ graph[a].pc \notin {"start", "commit", "ended"} \cup Raised
  BY <1>1 DEF AtRest, Raised, ControlStatus
<1>3. LogOfStage(a)'
  BY <1>1 DEF LogOfStage, Over, LastOf, Halted
<1>4. RestOfStage(a)'
  BY <1>1, <1>2 DEF RestOfStage, Over, LastOf, Halted
<1> QED BY <1>3, <1>4

LEMMA ShutdownStage ==
  ASSUME TypeInv, StageInv, Shutdown
  PROVE  StageInv'
<1> SUFFICES ASSUME NEW a \in Attempts PROVE LogOfStage(a)' /\ RestOfStage(a)'
  BY DEF StageInv
<1>1. /\ control'[a].status = "none"
      /\ graph'[a].pc = "off"
      /\ \A t \in Threads : call'[a][t].pc = "idle"
      /\ stream'[a] = IF stream[a] = "none" THEN "none" ELSE "done"
      /\ log' = log
  BY ShutdownRows DEF NoControl, NoGraph, NoCall
<1>2. AtRest(a)'
  BY <1>1 DEF AtRest, Quiet, Busy
<1>3. LogOfStage(a)'
  BY <1>1 DEF StageInv, LogOfStage, Over, LastOf
<1>4. RestOfStage(a)'
  BY <1>1, <1>2 DEF RestOfStage, AtRest
<1> QED BY <1>3, <1>4

LEMMA StageInvStep ==
  ASSUME TypeInv, StageInv, [Next]_vars
  PROVE  StageInv'
<1>1. ASSUME NEW a \in Attempts, AttemptStep(a)
      PROVE  StageInv'
  <2>1. LogOfStage(a)' /\ RestOfStage(a)'
    BY <1>1, AttemptStepLog, AttemptStepRest DEF StageInv
  <2> QED BY <1>1, <2>1, AttemptStepElsewhere, ElsewhereStage DEF StageInv
<1>2. ASSUME NEW a \in Attempts, NEW t \in Threads, Caller(a, t) \/ NestedCall(a, t)
      PROVE  StageInv'
  <2>1. LogOfStage(a)' /\ RestOfStage(a)'
    BY <1>2, CallerStage, NestedCallStage DEF StageInv
  <2>2. Elsewhere(a)
    BY <1>2, CallerElsewhere, NestedCallElsewhere
  <2> QED BY <2>1, <2>2, ElsewhereStage DEF StageInv
<1>3. CASE Ambient
  BY <1>3, AmbientFrame
     DEF StageInv, LogOfStage, RestOfStage, Over, LastOf, Halted, AtRest, Quiet
<1>4. CASE Shutdown
  BY <1>4, ShutdownStage
<1> QED BY <1>1, <1>2, <1>3, <1>4, NextIsStep

(* What an attempt has sent and what its threads may still do fit the      *)
(* stage its generator is at.                                              *)
THEOREM StagesHold == Spec => []StageInv
<1>1. TypeInv /\ StageInv /\ [Next]_vars => StageInv'
  BY StageInvStep
<1> QED BY <1>1, StageInvInit, TypesHold, PTL DEF Spec

(* A log that ends with a result or an interruption has a RunControl of    *)
(* the same status (StatusMatchesLog): cancels and deadlines that come     *)
(* later change nothing, because signal_cancel leaves the status to the    *)
(* next check(), and nothing that checks runs any more.                    *)
THEOREM EndingsAgree == Spec => []StatusMatchesLog
<1>1. StageInv => StatusMatchesLog
  BY DEF StageInv, RestOfStage, Over, LastOf, Endings, StatusMatchesLog
<1> QED BY <1>1, StagesHold, PTL

-----------------------------------------------------------------------------
(* Refinement                                                              *)

(* What a step of an attempt is on the wire: nothing, the next event, the  *)
(* end of the stream, or (Accept) its beginning.                           *)
Silent(a) ==
  /\ log' = log
  /\ stream'[a] \in Streaming <=> stream[a] \in Streaming

Sends(a) ==
  /\ stream[a] \in Streaming
  /\ stream'[a] \in Streaming
  /\ \E s \in Signals : s \in Wire!MayFollow(log[a]) /\ log' = [log EXCEPT ![a] = Append(@, s)]

Closes(a) ==
  /\ stream[a] \in Streaming
  /\ stream'[a] \notin Streaming
  /\ log' = log

LEMMA AttemptStepWire ==
  ASSUME TypeInv, NEW a \in Attempts, LogOfStage(a), AttemptStep(a)
  PROVE  Accept(a) \/ Silent(a) \/ Sends(a) \/ Closes(a)
<1>1. CASE Receive(a)
  BY <1>1 DEF Receive, Silent
<1>2. CASE Refuse(a)
  BY <1>2 DEF Refuse, Silent
<1>3. CASE Accept(a)
  BY <1>3
<1>4. CASE Cancel(a)
  BY <1>4 DEF Cancel, sessionVars, Silent
<1>5. CASE Start(a)
  <2>1. stream[a] = "new" /\ stream'[a] = "first"
    BY <1>5 DEF Start, At, Goto, TypeInv, TypeOK
  <2>2. log' = [log EXCEPT ![a] = Append(@, "progress")]
    BY <1>5 DEF Start, Yield
  <2>3. "progress" \in Wire!MayFollow(log[a])
    BY <2>1 DEF LogOfStage, Wire!MayFollow
  <2> QED BY <2>1, <2>2, <2>3 DEF Sends, Streaming, Stages, Signals
<1>6. CASE RunGraph(a)
  BY <1>6, GotoType
     DEF RunGraph, TypeInv, TypeOK, Streaming, Stages, Silent, Closes, At
<1>7. CASE StreamStops(a)
  BY <1>7, StopWithType
     DEF StreamStops, TypeInv, TypeOK, Streaming, Stages, Silent, Closes, At
<1>8. CASE GraphRaises(a)
  BY <1>8, StopWithType
     DEF GraphRaises, TypeInv, TypeOK, Streaming, Stages, Silent, Closes, At
<1>9. CASE GraphEnds(a)
  BY <1>9, GotoType
     DEF GraphEnds, TypeInv, TypeOK, Streaming, Stages, Silent, Closes, At
<1>10. CASE Interrupt(a)
  <2>1. stream[a] = "pause" /\ stream'[a] = "last"
    BY <1>10 DEF Interrupt, At, Goto, TypeInv, TypeOK
  <2>2. log' = [log EXCEPT ![a] = Append(@, "interrupted")]
    BY <1>10 DEF Interrupt, Yield
  <2>3. "interrupted" \in Wire!MayFollow(log[a])
    BY <2>1 DEF LogOfStage, LastOf, Wire!MayFollow
  <2> QED BY <2>1, <2>2, <2>3 DEF Sends, Streaming, Stages, Signals
<1>11. CASE VerifyEnds(a)
  BY <1>11, StopWithType, ProposeType
     DEF VerifyEnds, TypeInv, TypeOK, Streaming, Stages, Silent, Closes, At,
         Proposals
<1>12. CASE AnnounceUsage(a)
  <2>1. stream[a] = "proposed"
    BY <1>12 DEF AnnounceUsage, At
  <2>2. CASE Passes(a)
    <3>1. log[a] # <<>>
      <4>1. ~Halted(a)
        BY <2>2 DEF Passes, Checked, Halted, TypeInv, TypeOK, ControlTypeOK, ControlRow
      <4> QED BY <2>1, <4>1 DEF LogOfStage
    <3>2. stream'[a] = "usage"
      BY <1>12, <2>2 DEF AnnounceUsage, Goto, TypeInv, TypeOK
    <3>3. log' = [log EXCEPT ![a] = Append(@, "usage")]
      BY <1>12, <2>2 DEF AnnounceUsage, Yield
    <3>4. "usage" \in Wire!MayFollow(log[a])
      BY <2>1, <3>1 DEF LogOfStage, LastOf, Wire!MayFollow
    <3> QED BY <2>1, <3>2, <3>3, <3>4 DEF Sends, Streaming, Stages, Signals
  <2>3. CASE ~Passes(a)
    BY <1>12, <2>1, <2>3, LeaveType DEF AnnounceUsage, TypeInv, TypeOK, Closes, Streaming, Stages
  <2> QED BY <2>2, <2>3
<1>13. CASE CheckCompletion(a)
  BY <1>13, GotoType, LeaveType
     DEF CheckCompletion, TypeInv, TypeOK, Streaming, Stages, Silent, Closes, At
<1>14. CASE Complete(a)
  <2>1. stream[a] = "complete" /\ stream'[a] = "last"
    BY <1>14 DEF Complete, At, Goto, TypeInv, TypeOK
  <2>2. log' = [log EXCEPT ![a] = Append(@, proposal[a])]
    BY <1>14 DEF Complete, Yield
  <2>3. proposal[a] \in {"completed", "failed"}
    BY <2>1 DEF TypeInv, TypeOK, Controlled, Proposals
  <2>4. proposal[a] \in Wire!MayFollow(log[a])
    BY <2>1, <2>3 DEF LogOfStage, LastOf, Wire!MayFollow
  <2> QED BY <2>1, <2>2, <2>3, <2>4 DEF Sends, Streaming, Stages, Signals
<1>15. CASE Exhausted(a)
  BY <1>15, LeaveType
     DEF Exhausted, TypeInv, TypeOK, Streaming, Stages, Silent, Closes, At
<1>16. CASE Drop(a)
  BY <1>16, LeaveType
     DEF Drop, TypeInv, TypeOK, Streaming, Stages, Silent, Closes, At
<1>17. CASE LoseUnstarted(a)
  BY <1>17, GotoType
     DEF LoseUnstarted, TypeInv, TypeOK, Streaming, Stages, Silent, Closes, At
<1>18. CASE GraphLoads(a)
  BY <1>18 DEF GraphLoads, sessionVars, Silent
<1>19. CASE NodeCalls(a)
  BY <1>19 DEF NodeCalls, sessionVars, Silent
<1>20. CASE ToolsDone(a)
  BY <1>20 DEF ToolsDone, sessionVars, Silent
<1>21. CASE NodeRaises(a)
  BY <1>21 DEF NodeRaises, sessionVars, Silent
<1>22. CASE Commit(a)
  BY <1>22 DEF Commit, sessionVars, Silent
<1>23. CASE \E next \in {"tools", "end"} : ModelDone(a, next)
  BY <1>23 DEF ModelDone, sessionVars, Silent
<1> QED
  BY <1>1, <1>2, <1>3, <1>4, <1>5, <1>6, <1>7, <1>8, <1>9, <1>10, <1>11, <1>12,
     <1>13, <1>14, <1>15, <1>16, <1>17, <1>18, <1>19, <1>20, <1>21, <1>22, <1>23
     DEF AttemptStep, Serve, Generator, Graph

LEMMA WireStep ==
  ASSUME TypeInv, OneRunning, OneRunning', StageInv, [Next]_vars
  PROVE  [Wire!StreamNext]_(Wire!streamVars)
<1> DEFINE Step == [Wire!StreamNext]_(Wire!streamVars)
<1>0. /\ log \in [Attempts -> Seq(Signals)]
      /\ current \in 0..MaxAttempts
      /\ 0 \notin Attempts
  BY DEF TypeInv, TypeOK, Attempts
<1>1. ASSUME UNCHANGED <<OpenStream, log>> PROVE Step
  BY <1>1 DEF Wire!streamVars
<1>2. ASSUME NEW a \in Attempts, AttemptStep(a)
      PROVE  Step
  <2>1. \A b \in Attempts \ {a} : stream'[b] = stream[b]
    BY <1>2, AttemptStepElsewhere DEF Elsewhere
  <2>2. CASE Accept(a)
    <3>1. /\ current = 0 \/ current \notin running
          /\ current' = a
          /\ stream'[a] = "new"
          /\ log' = log
          /\ log[a] = <<>>
      BY <2>2 DEF Accept, Acceptable, Admits, TypeInv, TypeOK, Controlled
    <3>2. OpenStream = 0 /\ OpenStream' = a
      BY <1>0, <3>1 DEF OpenStream, OneRunning, Streaming, Stages, Attempts
    <3>3. Wire!Open(a)
      BY <3>1, <3>2 DEF Wire!Open
    <3> QED BY <3>3 DEF Wire!StreamNext
  <2>3. CASE ~Accept(a)
    <3>1. current' = current
      BY <1>2, <2>3, AttemptStepMarks
    <3>2. stream[a] \in Streaming => OpenStream = a
      BY <1>0 DEF OpenStream, OneRunning
    <3>3. stream'[a] \in Streaming => OpenStream' = a
      BY <1>0, <3>1 DEF OpenStream, OneRunning
    <3>4. CASE Silent(a)
      <4>1. OpenStream' = OpenStream
        BY <1>0, <2>1, <3>1, <3>4 DEF OpenStream, Silent, Attempts
      <4> QED BY <1>1, <3>4, <4>1 DEF Silent
    <3>5. CASE Sends(a)
      <4>1. PICK s \in Signals :
              s \in Wire!MayFollow(log[a]) /\ log' = [log EXCEPT ![a] = Append(@, s)]
        BY <3>5 DEF Sends
      <4>2. OpenStream = a /\ OpenStream' = a
        BY <3>2, <3>3, <3>5 DEF Sends
      <4>3. Wire!Send(s)
        BY <1>0, <4>1, <4>2 DEF Wire!Send
      <4> QED BY <4>3 DEF Wire!StreamNext, Signals
    <3>6. CASE Closes(a)
      <4>1. OpenStream = a
        BY <3>2, <3>6 DEF Closes
      <4>2. OpenStream' = 0
        <5>1. current = a
          BY <3>6 DEF Closes, OneRunning
        <5> QED BY <3>1, <3>6, <5>1 DEF OpenStream, Closes
      <4>3. Wire!Close
        BY <1>0, <3>6, <4>1, <4>2 DEF Wire!Close, Closes
      <4> QED BY <4>3 DEF Wire!StreamNext
    <3> QED
      BY <1>2, <2>3, <3>4, <3>5, <3>6, AttemptStepWire DEF StageInv
  <2> QED BY <2>2, <2>3
<1>3. ASSUME NEW a \in Attempts, NEW t \in Threads, Caller(a, t) \/ NestedCall(a, t)
      PROVE  Step
  BY <1>1, <1>3 DEF Caller, NestedCall, sessionVars, OpenStream
<1>4. CASE Ambient
  BY <1>1, <1>4, AmbientFrame DEF OpenStream
<1>5. CASE Shutdown
  <2>1. OpenStream' = 0 /\ log' = log
    BY <1>5, ShutdownRows DEF OpenStream
  <2>2. CASE OpenStream = 0
    BY <1>1, <2>1, <2>2
  <2>3. CASE OpenStream # 0
    <3>1. Wire!Close
      BY <2>1, <2>3 DEF Wire!Close
    <3> QED BY <3>1 DEF Wire!StreamNext
  <2> QED BY <2>2, <2>3
<1> QED BY <1>2, <1>3, <1>4, <1>5, NextIsStep

(* To the control plane the sessions, threads, checkpoints and restarts of *)
(* a run are plain streams of events (ImplementsEventStream): one at a     *)
(* time, each of progress and at most one ending, whose result comes after *)
(* the attempt's usage.                                                    *)
THEOREM SessionsImplementEventStream == Spec => ImplementsEventStream
<1>1. Init => Wire!StreamInit
  BY DEF Init, OpenStream, Wire!StreamInit
<1>2. TypeInv /\ OneRunning /\ OneRunning' /\ StageInv /\ [Next]_vars
        => [Wire!StreamNext]_(Wire!streamVars)
  BY WireStep
<1> QED
  BY <1>1, <1>2, TypesHold, OneRuns, StagesHold, PTL
  DEF Spec, ImplementsEventStream, Wire!StreamSpec
-----------------------------------------------------------------------------
(* Stops and answers                                                       *)

(* An attempt that check() does not let go on any more.                    *)
Barred(a) == Halted(a) \/ a \in late

(* It has sent no answer, and its generator is where no answer comes from. *)
Silenced(a) ==
  /\ ~Answered(a)
  /\ stream[a] \notin {"none", "complete"}
  /\ stream[a] \in Streaming \ {"last"} => Barred(a)

(* An answer is the last event.                                            *)
AnswersLast == \A a \in Attempts : Answered(a) => stream[a] \in {"last", "done"}

LEMMA BarredStops ==
  ASSUME TypeOK, NEW a \in Attempts, Barred(a)
  PROVE  ~Passes(a)
BY DEF Barred, Halted, Passes, Checked, TypeOK, ControlTypeOK, ControlRow

LEMMA KeptBars ==
  ASSUME NEW a \in Attempts, Kept(a), late' = late
  PROVE  Barred(a) => Barred(a)'
BY DEF Kept, Barred, Halted

(* What a step can do to the log and the stage of its attempt.             *)
Waits(a) == log'[a] = log[a] /\ stream'[a] = stream[a] /\ (Barred(a) => Barred(a)')
Ends(a) ==
  /\ log'[a] = log[a]
  /\ \/ stream[a] \in Streaming /\ stream'[a] = "done"
     \/ stream[a] = "new" /\ stream'[a] = "lost"
GoesOn(a) ==
  /\ stream[a] \in Streaming \ {"complete", "last"}
  /\ stream'[a] \in Streaming \ {"complete", "last"}
  /\ log'[a] = log[a] \/ \E s \in {"progress", "usage"} : log'[a] = Append(log[a], s)
  /\ Barred(a) => Barred(a)'
PassesLast(a) ==
  /\ Passes(a)
  /\ stream[a] = "usage" /\ stream'[a] = "complete"
  /\ log'[a] = log[a]
Pauses(a) ==
  /\ stream[a] = "pause" /\ stream'[a] = "last"
  /\ log'[a] = Append(log[a], "interrupted")
Answers(a) == stream[a] = "complete" /\ stream'[a] = "last"

LEMMA AttemptStepFate ==
  ASSUME TypeInv, NEW a \in Attempts, AttemptStep(a)
  PROVE  /\ late' = late
         /\ \/ Accept(a) \/ Waits(a) \/ Ends(a) \/ GoesOn(a) \/ PassesLast(a) \/ Pauses(a)
            \/ Answers(a)
<1>0. /\ stream \in [Attempts -> Stages] /\ stream[a] \in Stages
      /\ log \in [Attempts -> Seq(Signals)]
      /\ running \in SUBSET Attempts
      /\ proposal \in [Attempts -> Proposals]
      /\ control \in [Attempts -> ControlRow] /\ control[a] \in ControlRow
  BY DEF TypeInv, TypeOK, ControlTypeOK
<1>1. ASSUME UNCHANGED <<control, late, stream, log>> PROVE late' = late /\ Waits(a)
  BY <1>1 DEF Waits, Barred, Halted
<1>2. CASE Receive(a)
  BY <1>1, <1>2 DEF Receive, controlVars
<1>3. CASE Refuse(a)
  <2>1. UNCHANGED <<late, stream, log>>
    BY <1>3 DEF Refuse
  <2>2. /\ control'[a].status = control[a].status
        /\ control[a].cancel => control'[a].cancel
    BY <1>3, SupersededRows DEF Refuse, TypeInv, TypeOK, ControlTypeOK
  <2> QED BY <2>1, <2>2 DEF Waits, Barred, Halted
<1>4. CASE Accept(a)
  BY <1>4 DEF Accept
<1>5. CASE Cancel(a)
  <2>1. UNCHANGED <<late, stream, log>>
    BY <1>5 DEF Cancel, sessionVars
  <2>2. /\ control'[a].status = control[a].status
        /\ control[a].cancel => control'[a].cancel
    BY <1>0, <1>5, SetType, SignalRow DEF Cancel
  <2> QED BY <2>1, <2>2 DEF Waits, Barred, Halted
<1>6. CASE Start(a)
  <2>1. /\ stream[a] = "new" /\ stream'[a] = "first"
        /\ log'[a] = Append(log[a], "progress")
        /\ UNCHANGED <<control, late>>
    BY <1>0, <1>6, GotoType, YieldType DEF Start, At, controlVars, Stages, Signals
  <2> QED BY <2>1 DEF GoesOn, Streaming, Stages, Barred, Halted
<1>7. CASE RunGraph(a)
  <2>1. /\ stream[a] = "first" /\ stream'[a] = "graph"
        /\ UNCHANGED <<control, late, log>>
    BY <1>0, <1>7, GotoType DEF RunGraph, At, controlVars, Stages
  <2> QED BY <2>1 DEF GoesOn, Streaming, Stages, Barred, Halted
<1>8. CASE StreamStops(a)
  <2>1. /\ stream[a] \in {"new", "graph", "verify"}
        /\ stream'[a] \in {"done", "proposed"}
        /\ UNCHANGED <<late, log>>
    BY <1>0, <1>8, StopWithType DEF StreamStops
  <2>2. Barred(a) => Barred(a)'
    BY <1>0, <1>8, <2>1, CheckedKeeps, KeptBars DEF StreamStops
  <2> QED BY <2>1, <2>2 DEF GoesOn, Ends, Streaming, Stages
<1>9. CASE GraphRaises(a)
  <2>1. /\ stream[a] = "graph" /\ stream'[a] \in {"done", "proposed"}
        /\ UNCHANGED <<control, late, log>>
    BY <1>0, <1>9, StopWithType DEF GraphRaises, At, controlVars
  <2> QED BY <2>1 DEF GoesOn, Ends, Streaming, Stages, Barred, Halted
<1>10. CASE GraphEnds(a)
  <2>1. /\ stream[a] = "graph" /\ stream'[a] \in {"pause", "verify"}
        /\ UNCHANGED <<control, late, log>>
    BY <1>0, <1>10, GotoType DEF GraphEnds, At, controlVars, Stages
  <2> QED BY <2>1 DEF GoesOn, Streaming, Stages, Barred, Halted
<1>11. CASE Interrupt(a)
  BY <1>0, <1>11, GotoType, YieldType DEF Interrupt, At, Stages, Signals, Pauses
<1>12. CASE VerifyEnds(a)
  <2>1. /\ stream[a] = "verify" /\ stream'[a] \in {"done", "proposed"}
        /\ UNCHANGED <<control, late, log>>
    BY <1>0, <1>12, StopWithType, ProposeType DEF VerifyEnds, At, controlVars, Proposals
  <2> QED BY <2>1 DEF GoesOn, Ends, Streaming, Stages, Barred, Halted
<1>13. CASE AnnounceUsage(a)
  <2>1. /\ stream[a] = "proposed"
        /\ \/ stream'[a] = "done" /\ log' = log
           \/ stream'[a] = "usage" /\ log'[a] = Append(log[a], "usage")
        /\ late' = late
    BY <1>0, <1>13, GotoType, YieldType, LeaveType DEF AnnounceUsage, At, Stages, Signals
  <2>2. Barred(a) => Barred(a)'
    BY <1>0, <1>13, <2>1, CheckedKeeps, KeptBars DEF AnnounceUsage
  <2> QED BY <2>1, <2>2 DEF GoesOn, Ends, Streaming, Stages
<1>14. CASE CheckCompletion(a)
  <2>1. /\ stream[a] = "usage"
        /\ stream'[a] = "done" \/ (stream'[a] = "complete" /\ Passes(a))
        /\ UNCHANGED <<late, log>>
    BY <1>0, <1>14, GotoType, LeaveType DEF CheckCompletion, At, Stages
  <2> QED BY <2>1 DEF PassesLast, Ends, Streaming, Stages
<1>15. CASE Complete(a)
  BY <1>0, <1>15, GotoType DEF Complete, At, Stages, Answers
<1>16. CASE Exhausted(a)
  <2>1. /\ stream[a] = "last" /\ stream'[a] = "done"
        /\ UNCHANGED <<late, log>>
    BY <1>0, <1>16, LeaveType DEF Exhausted, At, controlVars
  <2> QED BY <2>1 DEF Ends, Streaming, Stages
<1>17. CASE Drop(a)
  <2>1. /\ stream[a] \in {"first", "usage", "last", "verify", "graph"} /\ stream'[a] = "done"
        /\ UNCHANGED <<late, log>>
    BY <1>0, <1>17, LeaveType DEF Drop, At, controlVars
  <2> QED BY <2>1 DEF Ends, Streaming, Stages
<1>18. CASE LoseUnstarted(a)
  <2>1. /\ stream[a] = "new" /\ stream'[a] = "lost"
        /\ UNCHANGED <<late, log>>
    BY <1>0, <1>18, GotoType DEF LoseUnstarted, At, controlVars, Stages
  <2> QED BY <2>1 DEF Ends, Streaming, Stages
<1>19. CASE Graph(a)
  BY <1>1, <1>19 DEF Graph, GraphLoads, NodeCalls, ToolsDone, NodeRaises, Commit, ModelDone,
                     controlVars, sessionVars
<1> QED
  BY <1>2, <1>3, <1>4, <1>5, <1>6, <1>7, <1>8, <1>9, <1>10, <1>11, <1>12, <1>13, <1>14,
     <1>15, <1>16, <1>17, <1>18, <1>19 DEF AttemptStep, Serve, Generator

(* An answer is sent in one place, which a stopped attempt does not reach. *)
LEMMA AppendAnswers ==
  ASSUME NEW old \in Seq(Signals), NEW s \in Signals \ {"completed"}, NEW new,
         new = Append(old, s), \A i \in DOMAIN old : old[i] # "completed"
  PROVE  \A i \in DOMAIN new : new[i] # "completed"
BY DEF Signals

LEMMA AttemptStepAnswers ==
  ASSUME TypeInv, AnswersLast, NEW a \in Attempts, AttemptStep(a)
  PROVE  /\ Answered(a)' => stream'[a] \in {"last", "done"}
         /\ Silenced(a) => Silenced(a)'
<1>0. log[a] \in Seq(Signals) /\ stream[a] \in Stages
  BY DEF TypeInv, TypeOK
<1>1. ASSUME log'[a] = log[a] PROVE Answered(a)' <=> Answered(a)
  BY <1>1 DEF Answered
<1>2. ASSUME NEW s \in Signals \ {"completed"}, log'[a] = Append(log[a], s), ~Answered(a)
      PROVE  ~Answered(a)'
  BY <1>0, <1>2, AppendAnswers DEF Answered
<1>3. CASE Accept(a)
  <2>1. stream[a] = "none" /\ log' = log
    BY <1>3 DEF Accept, TypeInv, Controlled
  <2> QED BY <1>1, <2>1 DEF AnswersLast, Silenced
<1>4. CASE Waits(a)
  BY <1>1, <1>4 DEF Waits, AnswersLast, Silenced
<1>5. CASE Ends(a)
  <2>1. ~Answered(a) => ~Answered(a)'
    BY <1>1, <1>5 DEF Ends
  <2>2. stream'[a] \in {"done", "lost"} /\ (Answered(a)' => stream'[a] = "done")
    BY <1>1, <1>5 DEF Ends, AnswersLast
  <2> QED BY <2>1, <2>2 DEF Silenced, Streaming
<1>6. CASE GoesOn(a)
  <2>1. ~Answered(a)
    BY <1>6 DEF GoesOn, AnswersLast, Streaming
  <2>2. ~Answered(a)'
    BY <1>1, <1>2, <1>6, <2>1 DEF GoesOn, Signals
  <2> QED BY <1>6, <2>2 DEF GoesOn, Silenced, Streaming
<1>7. CASE PassesLast(a)
  <2>1. ~Barred(a) /\ ~Answered(a)
    BY <1>7, BarredStops DEF PassesLast, AnswersLast, TypeInv
  <2>2. ~Answered(a)'
    BY <1>1, <1>7, <2>1 DEF PassesLast
  <2>3. ~Silenced(a)
    BY <1>7, <2>1 DEF PassesLast, Silenced, Streaming, Stages
  <2> QED BY <2>2, <2>3
<1>8. CASE Pauses(a)
  <2>1. ~Answered(a)
    BY <1>8 DEF Pauses, AnswersLast
  <2>2. ~Answered(a)'
    BY <1>2, <1>8, <2>1 DEF Pauses, Signals
  <2> QED BY <1>8, <2>2 DEF Pauses, Silenced
<1>9. CASE Answers(a)
  BY <1>9 DEF Answers, Silenced
<1> QED
  BY <1>3, <1>4, <1>5, <1>6, <1>7, <1>8, <1>9, AttemptStepFate

(* A step that neither sends nor moves the generator lifts no bar.         *)
LEMMA BystanderAnswers ==
  ASSUME AnswersLast, NEW a \in Attempts, UNCHANGED <<stream[a], log[a]>>,
         Barred(a) => Barred(a)'
  PROVE  /\ Answered(a)' => stream'[a] \in {"last", "done"}
         /\ Silenced(a) => Silenced(a)'
BY DEF AnswersLast, Silenced, Answered

LEMMA AnswersStep ==
  ASSUME TypeInv, AnswersLast, [Next]_vars, NEW a \in Attempts
  PROVE  /\ Answered(a)' => stream'[a] \in {"last", "done"}
         /\ Silenced(a) => Silenced(a)'
<1>1. ASSUME AttemptStep(a)
      PROVE  /\ Answered(a)' => stream'[a] \in {"last", "done"}
             /\ Silenced(a) => Silenced(a)'
  BY <1>1, AttemptStepAnswers
<1>2. ASSUME NEW b \in Attempts \ {a}, Elsewhere(b), late' = late
      PROVE  /\ Answered(a)' => stream'[a] \in {"last", "done"}
             /\ Silenced(a) => Silenced(a)'
  <2>1. UNCHANGED <<stream[a], log[a]>>
    BY <1>2 DEF Elsewhere
  <2>2. Barred(a) => Barred(a)'
    BY <1>2 DEF Elsewhere, Barred, Halted
  <2> QED BY <2>1, <2>2, BystanderAnswers
<1>3. CASE \E b \in Attempts : AttemptStep(b)
  <2>1. PICK b \in Attempts : AttemptStep(b)
    BY <1>3
  <2>2. late' = late
    BY <2>1, AttemptStepFate
  <2> QED BY <1>1, <1>2, <2>1, <2>2, AttemptStepElsewhere
<1>4. CASE \E b \in Attempts, t \in Threads : Caller(b, t)
  <2>1. PICK b \in Attempts, t \in Threads : Caller(b, t)
    BY <1>4
  <2>2. CallFrame(b) /\ UNCHANGED <<stream, log>>
    BY <2>1, CallStepFrame DEF Caller, sessionVars
  <2>3. CASE b = a
    <3>1. Barred(a) => Barred(a)'
      BY <2>2, <2>3, KeptBars DEF CallFrame
    <3> QED BY <2>2, <3>1, BystanderAnswers
  <2>4. CASE b # a
    BY <1>2, <2>1, <2>2, <2>4, CallerElsewhere DEF CallFrame
  <2> QED BY <2>3, <2>4
<1>5. CASE \E b \in Attempts, t \in Threads : NestedCall(b, t)
  <2>1. UNCHANGED <<control, late, stream, log>>
    BY <1>5 DEF NestedCall, BeginCall, sessionVars
  <2> QED BY <2>1, BystanderAnswers DEF Barred, Halted
<1>6. CASE Ambient
  <2>1. UNCHANGED <<control, stream, log>>
    BY <1>6, AmbientFrame
  <2>2. late \subseteq late'
    BY <1>6 DEF Ambient, DeadlinePasses, Disconnect, controlVars, vars
  <2> QED BY <2>1, <2>2, BystanderAnswers DEF Barred, Halted
<1>7. CASE Shutdown
  BY <1>7, ShutdownRows DEF AnswersLast, Silenced, Answered, Streaming
<1> QED BY <1>3, <1>4, <1>5, <1>6, <1>7, NextIsStep

LEMMA AnswersAreLast == Spec => []AnswersLast
<1>1. Init => AnswersLast
  BY DEF Init, AnswersLast, Answered
<1>2. TypeInv /\ AnswersLast /\ [Next]_vars => AnswersLast'
  BY AnswersStep DEF AnswersLast
<1> QED BY <1>1, <1>2, TypesHold, PTL DEF Spec

(* An attempt that was cancelled, is late or out of budget before its last *)
(* check sends no answer any more (NoAnswerAfterStop), whatever its        *)
(* threads still do: a bar is never lifted, and every way to complete()    *)
(* leads through a check() that a barred attempt does not pass.            *)
THEOREM StoppedAttemptsStaySilent == Spec => NoAnswerAfterStop
<1> SUFFICES ASSUME NEW a \in Attempts
             PROVE  Spec => [](StoppedBeforeAnswer(a) => []~Answered(a))
  BY DEF NoAnswerAfterStop
<1>1. AnswersLast /\ StoppedBeforeAnswer(a) => Silenced(a)
  BY DEF AnswersLast, StoppedBeforeAnswer, Silenced, Streaming, Barred, Halted
<1>2. TypeInv /\ AnswersLast /\ Silenced(a) /\ [Next]_vars => Silenced(a)'
  BY AnswersStep
<1>3. Silenced(a) => ~Answered(a)
  BY DEF Silenced
<1> QED BY <1>1, <1>2, <1>3, TypesHold, AnswersAreLast, PTL DEF Spec
=============================================================================
