----------------------------- MODULE AgentRuntime -----------------------------
(***************************************************************************)
(* One run in the agent runtime: the sessions of its attempts (app/        *)
(* internal_runtime.py), the generator that streams an attempt's events    *)
(* and the graph thread behind it (infra/agents/langchain_copilot.py).     *)
(* Runs share nothing but the lock of the table of sessions, so one run is *)
(* the whole story.                                                        *)
(*                                                                         *)
(* LangGraph is external: a node's result becomes a durable checkpoint     *)
(* some time after the node, a resumed graph continues from the newest     *)
(* checkpoint.  So is the web server: it drops the generator of a client   *)
(* that went away, at a yield or before its first step.                    *)
(***************************************************************************)
EXTENDS RunControl, Sequences

CONSTANTS
  MaxMessages,      (* bound on the messages of a graph                    *)
  InterruptAfter,   (* nodes after which the graph pauses (tests only)     *)
  MaxShutdowns      (* bound on restarts of the runtime                    *)

ASSUME AgentRuntimeAssumption ==
  /\ MaxMessages \in Nat
  /\ InterruptAfter \subseteq {"model", "tools"}
  /\ MaxShutdowns \in Nat

VARIABLES
  current,          (* attempt of the run's entry in _sessions, or 0       *)
  running,          (* attempts whose session is marked running            *)
  post,             (* the execute request of every attempt                *)
  stream,           (* where the generator of every attempt is             *)
  proposal,         (* what the agent proposed to it                       *)
  log,              (* events it has yielded                               *)
  connected,        (* attempts whose client still reads                   *)
  graph,            (* the graph thread of every attempt                   *)
  checkpoint,       (* the newest checkpoint of the run's thread: durable  *)
  shutdowns

sessionVars == <<current, running, post, stream, proposal, log, connected>>
graphVars == <<graph, checkpoint>>
vars == <<controlVars, sessionVars, graphVars, shutdowns>>

(* A session's generator:                                                  *)
(*   new        made, not started                                          *)
(*   first      the first event was yielded                                *)
(*   graph      waits for the graph                                        *)
(*   pause      the graph paused, before interrupt() sets the status       *)
(*   verify     waits for the finalisation                                 *)
(*   proposed   the agent yielded a proposal, before the check for it      *)
(*   usage      the usage event was yielded                                *)
(*   complete   in complete(), between its check and its assignment        *)
(*   last       the last event was yielded                                 *)
(*   done       returned, raised or closed                                 *)
(*   lost       dropped before its first step: finally never runs          *)
Stages == {"none", "new", "first", "graph", "pause", "verify", "proposed",
           "usage", "complete", "last", "done", "lost"}
Signals == {"progress", "usage", "interrupted", "completed", "failed"}
Proposals == {"none", "completed", "failed"}

Nodes == {"model", "tools"}
GraphStages == {"off", "start", "commit", "ended", "verify"} \cup Nodes \cup Raised
Messages == [models : 0..MaxMessages, tools : 0..MaxMessages, next : Nodes \cup {"none", "end"}]
NoMessages == [models |-> 0, tools |-> 0, next |-> "none"]

TypeOK ==
  /\ ControlTypeOK
  /\ current \in 0..MaxAttempts
  /\ running \in SUBSET Attempts
  /\ post \in [Attempts -> [pc : {"unsent", "restored", "accepted", "refused"},
                            restored : Messages]]
  /\ stream \in [Attempts -> Stages]
  /\ proposal \in [Attempts -> Proposals]
  /\ log \in [Attempts -> Seq(Signals)]
  /\ connected \in SUBSET Attempts
  /\ graph \in [Attempts -> [pc : GraphStages, messages : Messages]]
  /\ checkpoint \in Messages
  /\ shutdowns \in 0..MaxShutdowns

NoGraph == [pc |-> "off", messages |-> NoMessages]

Init ==
  /\ ControlInit
  /\ current = 0
  /\ running = {}
  /\ post = [a \in Attempts |-> [pc |-> "unsent", restored |-> NoMessages]]
  /\ stream = [a \in Attempts |-> "none"]
  /\ proposal = [a \in Attempts |-> "none"]
  /\ log = [a \in Attempts |-> <<>>]
  /\ connected = Attempts
  /\ graph = [a \in Attempts |-> NoGraph]
  /\ checkpoint = NoMessages
  /\ shutdowns = 0

-----------------------------------------------------------------------------
(* Requests                                                                *)

Answer(a, pc) == post' = [post EXCEPT ![a].pc = pc]

(* POST runs/execute, before the lock: attempt 1 starts afresh, a later    *)
(* attempt resumes and reads the newest checkpoint, which must be there    *)
(* and must have somewhere to go on to.                                    *)
Receive(a) ==
  /\ post[a].pc = "unsent"
  /\ post' = [post EXCEPT ![a] =
       IF a = 1 THEN [pc |-> "restored", restored |-> NoMessages]
       ELSE IF checkpoint.next \in Nodes
            THEN [pc |-> "restored", restored |-> checkpoint]
            ELSE [pc |-> "refused", restored |-> NoMessages]]
  /\ UNCHANGED <<controlVars, graphVars, current, running, stream, proposal, log,
                 connected, shutdowns>>

(* Faulty: a running session does not stand in the way.                    *)
NewerThanSession(a) == current < a

(* The session found under the lock lets a new attempt in.                 *)
Admits(a) == current < a /\ (current = 0 \/ current \notin running)

(* A session that is admitted tells the one before to stop, even if its    *)
(* RunControl then refuses counts beyond the budget.                       *)
Superseded(a) ==
  IF current = 0 \/ ~Admits(a) THEN control
  ELSE [control EXCEPT ![current] = SignalCancel(current)]

Acceptable(a) ==
  Admits(a) /\ Fits(post[a].restored.models, post[a].restored.tools)

Refuse(a) ==
  /\ post[a].pc = "restored"
  /\ ~Acceptable(a)
  /\ control' = Superseded(a)
  /\ Answer(a, "refused")
  /\ UNCHANGED <<late, call, graphVars, current, running, stream, proposal, log,
                 connected, shutdowns>>

Accept(a) ==
  LET counts == post[a].restored IN
  /\ post[a].pc = "restored"
  /\ Acceptable(a)
  /\ control' = [Superseded(a) EXCEPT ![a] = NewControl(counts.models, counts.tools)]
  /\ current' = a
  /\ running' = running \cup {a}
  /\ stream' = [stream EXCEPT ![a] = "new"]
  /\ Answer(a, "accepted")
  /\ UNCHANGED <<late, call, graphVars, proposal, log, connected, shutdowns>>

(* POST runs/:id/cancel.  The session was looked up before it is           *)
(* signalled and may have been superseded since.                           *)
Cancel(a) ==
  /\ control[a].status # "none"
  /\ Set(a, SignalCancel(a))
  /\ UNCHANGED <<late, call, sessionVars, graphVars, shutdowns>>

-----------------------------------------------------------------------------
(* The generator                                                           *)

At(a, pc) == stream[a] = pc
Goto(a, pc) == stream' = [stream EXCEPT ![a] = pc]
Yield(a, signal) == log' = [log EXCEPT ![a] = Append(@, signal)]
GraphGoto(a, pc) == graph' = [graph EXCEPT ![a].pc = pc]

(* The finally of _stream clears the mark of the session.                  *)
Leave(a) == Goto(a, "done") /\ running' = running \ {a}

Propose(a, what) ==
  /\ Goto(a, "proposed")
  /\ proposal' = [proposal EXCEPT ![a] = what]
  /\ UNCHANGED running

(* RuntimeStopped in the agent: silence if cancelled, else a failure.      *)
StopWith(a, status) ==
  IF status = "cancelled" THEN Leave(a) /\ UNCHANGED proposal ELSE Propose(a, "failed")

Start(a) ==
  /\ At(a, "new")
  /\ Passes(a)
  /\ Goto(a, "first")
  /\ Yield(a, "progress")
  /\ UNCHANGED <<controlVars, graphVars, current, running, post, proposal, connected,
                 shutdowns>>

RunGraph(a) ==
  /\ At(a, "first")
  /\ Goto(a, "graph")
  /\ GraphGoto(a, "start")
  /\ UNCHANGED <<controlVars, checkpoint, current, running, post, proposal, log, connected,
                 shutdowns>>

(* check() stops the generator while it waits; the thread it waits for is  *)
(* not told.                                                               *)
StreamStops(a) ==
  /\ stream[a] \in {"new", "graph", "verify"}
  /\ ~Passes(a)
  /\ Set(a, Checked(a))
  /\ StopWith(a, Checked(a).status)
  /\ UNCHANGED <<late, call, graphVars, current, post, log, connected, shutdowns>>

(* Faulty: an error of a model does not reach the generator.               *)
StopsOfGraph(a) ==
  /\ At(a, "graph")
  /\ graph[a].pc \in Raised \ {"error"}
  /\ StopWith(a, graph[a].pc)
  /\ GraphGoto(a, "off")
  /\ UNCHANGED <<controlVars, checkpoint, current, post, log, connected, shutdowns>>

(* The graph raised: RuntimeStopped, or an error of a model.               *)
GraphRaises(a) ==
  /\ At(a, "graph")
  /\ graph[a].pc \in Raised
  /\ StopWith(a, graph[a].pc)
  /\ GraphGoto(a, "off")
  /\ UNCHANGED <<controlVars, checkpoint, current, post, log, connected, shutdowns>>

GraphEnds(a) ==
  /\ At(a, "graph")
  /\ graph[a].pc = "ended"
  /\ Passes(a)
  /\ LET paused == checkpoint.next \in Nodes IN     \* get_state
       /\ Goto(a, IF paused THEN "pause" ELSE "verify")
       /\ GraphGoto(a, IF paused THEN "off" ELSE "verify")
  /\ UNCHANGED <<controlVars, checkpoint, current, running, post, proposal, log, connected,
                 shutdowns>>

Interrupt(a) ==
  /\ At(a, "pause")
  /\ Set(a, [control[a] EXCEPT !.status = "interrupted"])
  /\ Goto(a, "last")
  /\ Yield(a, "interrupted")
  /\ UNCHANGED <<late, call, graphVars, current, running, post, proposal, connected,
                 shutdowns>>

(* _stream_finalization returns a proposal, which an error of a model need *)
(* not prevent; or the error is proposed; or RuntimeStopped comes through. *)
Stopped(a) == {call[a][t].pc : t \in Threads} \cap (Raised \ {"error"})
Erred(a) == \E t \in Threads : CallAt(a, t, "error")

VerifyEnds(a) ==
  /\ At(a, "verify")
  /\ Quiet(a)
  /\ \/ Stopped(a) = {} /\ Passes(a) /\ Propose(a, "completed")
     \/ Erred(a) /\ Propose(a, "failed")
     \/ \E status \in Stopped(a) : StopWith(a, status)
  /\ GraphGoto(a, "off")
  /\ UNCHANGED <<controlVars, checkpoint, current, post, log, connected, shutdowns>>

(* Faulty: the usage of a failed attempt is not reported.                  *)
AnnounceUsageOfAnswer(a) ==
  /\ At(a, "proposed")
  /\ Set(a, Checked(a))
  /\ IF Passes(a)
     THEN /\ Goto(a, IF proposal[a] = "completed" THEN "usage" ELSE "complete")
          /\ IF proposal[a] = "completed" THEN Yield(a, "usage") ELSE UNCHANGED log
          /\ UNCHANGED running
     ELSE Leave(a) /\ UNCHANGED log
  /\ UNCHANGED <<late, call, graphVars, current, post, proposal, connected, shutdowns>>

(* A proposal is announced by the attempt's usage if the attempt may go    *)
(* on, ...                                                                 *)
AnnounceUsage(a) ==
  /\ At(a, "proposed")
  /\ Set(a, Checked(a))
  /\ IF Passes(a) THEN Goto(a, "usage") /\ Yield(a, "usage") /\ UNCHANGED running
     ELSE Leave(a) /\ UNCHANGED log
  /\ UNCHANGED <<late, call, graphVars, current, post, proposal, connected, shutdowns>>

(* ... and once more after the client has read that ...                    *)
CheckCompletion(a) ==
  /\ At(a, "usage")
  /\ Set(a, Checked(a))
  /\ IF Passes(a) THEN Goto(a, "complete") /\ UNCHANGED running ELSE Leave(a)
  /\ UNCHANGED <<late, call, graphVars, current, post, proposal, log, connected,
                 shutdowns>>

(* ... it is final: complete() or finish("failed").                        *)
Complete(a) ==
  /\ At(a, "complete")
  /\ Set(a, IF proposal[a] = "completed" THEN [control[a] EXCEPT !.status = "completed"]
            ELSE Finished(a, "failed"))
  /\ Goto(a, "last")
  /\ Yield(a, proposal[a])
  /\ UNCHANGED <<late, call, graphVars, current, running, post, proposal, connected,
                 shutdowns>>

Exhausted(a) ==
  /\ At(a, "last")
  /\ Leave(a)
  /\ UNCHANGED <<controlVars, graphVars, current, post, proposal, log, connected, shutdowns>>

(* The generator is closed at a yield: closing the graph's iterator waits  *)
(* for its calls, closing the finalisation does not.                       *)
Drop(a) ==
  /\ a \notin connected
  /\ \/ stream[a] \in {"first", "usage", "last"} /\ UNCHANGED graph
     \/ At(a, "verify") /\ UNCHANGED graph
     \/ /\ At(a, "graph")
        /\ Quiet(a)
        /\ graph[a].pc \in Nodes \cup {"commit"}
        /\ GraphGoto(a, "off")
  /\ Leave(a)
  /\ UNCHANGED <<controlVars, checkpoint, current, post, proposal, log, connected, shutdowns>>

LoseUnstarted(a) ==
  /\ At(a, "new")
  /\ a \notin connected
  /\ Goto(a, "lost")
  /\ UNCHANGED <<controlVars, graphVars, current, running, post, proposal, log, connected,
                 shutdowns>>

-----------------------------------------------------------------------------
(* The graph thread and the thread of the finalisation                     *)

(* A fresh graph stores its input first.                                   *)
GraphLoads(a) ==
  LET loaded == IF a = 1 THEN [models |-> 0, tools |-> 0, next |-> "model"] ELSE checkpoint IN
  /\ graph[a].pc = "start"
  /\ checkpoint' = loaded
  /\ graph' = [graph EXCEPT ![a] =
       [pc |-> IF loaded.next \in Nodes THEN loaded.next ELSE "ended", messages |-> loaded]]
  /\ UNCHANGED <<controlVars, sessionVars, shutdowns>>

(* The calls of a node: one model call, or the tools the model asked for   *)
(* in parallel, or a call of the finalisation.                             *)
CallsOf(a) ==
  IF graph[a].pc = "tools" THEN {[who |-> T, kind |-> "tool"] : T \in (SUBSET Threads) \ {{}}}
  ELSE {[who |-> {t}, kind |-> "model"] : t \in Threads}

NodeCalls(a) ==
  /\ graph[a].pc \in Nodes \cup {"verify"}
  /\ Quiet(a)
  /\ graph[a].pc \in Nodes => \A t \in Threads : CallAt(a, t, "idle")
  /\ Stopped(a) = {}
  /\ \E c \in CallsOf(a) :
       call' = [call EXCEPT ![a] = [t \in Threads |->
         IF t \in c.who THEN [pc |-> "check", kind |-> c.kind] ELSE NoCall]]
  /\ UNCHANGED <<control, late, sessionVars, graphVars, shutdowns>>

NestedCall(a, t) ==
  /\ graph[a].pc = "tools"
  /\ Cardinality(Nested(a)) < Cardinality(ToolsWaiting(a))
  /\ BeginCall(a, t, "model")
  /\ UNCHANGED <<sessionVars, graphVars, shutdowns>>

Idle(a) == call' = [call EXCEPT ![a] = [t \in Threads |-> NoCall]]

(* The node's calls have returned: its messages are added.                 *)
Done(a, kind) == {t \in Threads : call[a][t] = [pc |-> "done", kind |-> kind]}

ModelDone(a, next) ==
  /\ graph[a].pc = "model"
  /\ Quiet(a)
  /\ Done(a, "model") # {}
  /\ graph[a].messages.models < MaxMessages
  /\ LET added == [graph[a].messages EXCEPT !.models = @ + 1, !.next = next] IN
       graph' = [graph EXCEPT ![a] = [pc |-> "commit", messages |-> added]]
  /\ Idle(a)
  /\ UNCHANGED <<control, late, checkpoint, sessionVars, shutdowns>>

ToolsDone(a) ==
  LET results == Cardinality(Done(a, "tool"))
      added == [graph[a].messages EXCEPT !.tools = @ + results, !.next = "model"]
  IN
  /\ graph[a].pc = "tools"
  /\ Quiet(a)
  /\ results > 0
  /\ Stopped(a) = {}
  /\ graph[a].messages.tools + results <= MaxMessages
  /\ graph' = [graph EXCEPT ![a] = [pc |-> "commit", messages |-> added]]
  /\ Idle(a)
  /\ UNCHANGED <<control, late, checkpoint, sessionVars, shutdowns>>

NodeRaises(a) ==
  /\ graph[a].pc \in Nodes
  /\ Quiet(a)
  /\ \E status \in Stopped(a) \cup
        (IF graph[a].pc = "model" /\ Erred(a) THEN {"error"} ELSE {}) :
       GraphGoto(a, status)
  /\ Idle(a)
  /\ UNCHANGED <<control, late, checkpoint, sessionVars, shutdowns>>

(* The node's result becomes the newest checkpoint, and the graph goes on  *)
(* whoever is still waiting for it.                                        *)
Commit(a) ==
  LET next == graph[a].messages.next
      node == IF next = "model" THEN "tools" ELSE "model"
  IN  /\ graph[a].pc = "commit"
      /\ checkpoint' = graph[a].messages
      /\ GraphGoto(a, IF next = "end" \/ node \in InterruptAfter THEN "ended" ELSE next)
      /\ UNCHANGED <<controlVars, sessionVars, shutdowns>>

-----------------------------------------------------------------------------
Disconnect(a) ==
  /\ a \in connected
  /\ connected' = connected \ {a}
  /\ UNCHANGED <<controlVars, graphVars, current, running, post, stream, proposal, log,
                 shutdowns>>

(* The process is restarted: only checkpoints survive.                     *)
Shutdown ==
  /\ shutdowns < MaxShutdowns
  /\ current # 0
  /\ shutdowns' = shutdowns + 1
  /\ control' = [a \in Attempts |-> NoControl]
  /\ late' = {}
  /\ call' = [a \in Attempts |-> [t \in Threads |-> NoCall]]
  /\ current' = 0
  /\ running' = {}
  /\ post' = [a \in Attempts |->
       IF post[a].pc = "restored" THEN [post[a] EXCEPT !.pc = "refused"] ELSE post[a]]
  /\ stream' = [a \in Attempts |-> IF stream[a] = "none" THEN "none" ELSE "done"]
  /\ graph' = [a \in Attempts |-> NoGraph]
  /\ UNCHANGED <<proposal, log, connected, checkpoint>>

Generator(a) ==
  \/ Start(a) \/ RunGraph(a) \/ StreamStops(a) \/ GraphRaises(a) \/ GraphEnds(a)
  \/ Interrupt(a) \/ VerifyEnds(a) \/ AnnounceUsage(a) \/ CheckCompletion(a)
  \/ Complete(a) \/ Exhausted(a) \/ Drop(a) \/ LoseUnstarted(a)

Graph(a) ==
  \/ GraphLoads(a) \/ NodeCalls(a) \/ ToolsDone(a) \/ NodeRaises(a) \/ Commit(a)
  \/ \E next \in {"tools", "end"} : ModelDone(a, next)

Caller(a, t) == CallStep(a, t) /\ UNCHANGED <<sessionVars, graphVars, shutdowns>>

Serve(a) == Receive(a) \/ Refuse(a) \/ Accept(a)

Next ==
  \/ \E a \in Attempts :
       \/ Serve(a) \/ Cancel(a) \/ Generator(a) \/ Graph(a) \/ Disconnect(a)
       \/ \E t \in Threads : Caller(a, t) \/ NestedCall(a, t)
       \/ DeadlinePasses(a) /\ UNCHANGED <<sessionVars, graphVars, shutdowns>>
  \/ Shutdown

Spec == Init /\ [][Next]_vars

(* Threads keep running, the client reads or goes away, and a call returns *)
(* or times out.  Nobody is obliged to cancel or to post.                  *)
FairSpec ==
  /\ Spec
  /\ \A a \in Attempts :
       /\ WF_vars(Generator(a))
       /\ WF_vars(Graph(a))
       /\ \A t \in Threads : WF_vars(Caller(a, t))
=============================================================================
