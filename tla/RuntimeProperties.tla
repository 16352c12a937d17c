-------------------------- MODULE RuntimeProperties --------------------------
(* What makes the runtime's execution of a run correct.                    *)
EXTENDS AgentRuntime

Streaming == Stages \ {"none", "done", "lost"}

(* However many threads reserve calls at once, an attempt never reserves   *)
(* more than its budget, counting what its checkpoint had used.            *)
WithinBudget ==
  \A a \in Attempts :
    control[a].models <= MaxModelCalls /\ control[a].tools <= MaxToolCalls

(* Only the newest attempt of a run streams: an attempt is accepted only   *)
(* when the generator of the one before has ended, so that no event of an  *)
(* old attempt is mixed with those of the new one.                         *)
SupersededIsSilent == \A a \in Attempts : stream[a] \in Streaming => a = current

(* Where the attempt's log ends with a result or an interruption, its      *)
(* RunControl says the same, whatever is signalled afterwards.             *)
StatusMatchesLog ==
  \A a \in Attempts :
    control[a].status # "none" /\ log[a] # <<>> =>
      LET final == log[a][Len(log[a])] IN
      final \in {"interrupted", "completed", "failed"} => control[a].status = final

(* An attempt that was cancelled, ran into its deadline or used up its     *)
(* budget before its last check never proposes an answer, whatever the     *)
(* threads it still has go on to return.                                   *)
StoppedBeforeAnswer(a) ==
  /\ stream[a] \in Streaming \ {"complete", "last"}
  /\ control[a].cancel \/ a \in late \/ control[a].status = "budget_exhausted"
Answered(a) == \E i \in DOMAIN log[a] : log[a][i] = "completed"
NoAnswerAfterStop ==
  \A a \in Attempts : [](StoppedBeforeAnswer(a) => []~Answered(a))

(* Every stream that was started ends: a client never waits for ever for   *)
(* an attempt, whether its calls return, fail, hang or are cancelled.      *)
StreamsEnd == \A a \in Attempts : stream[a] \in Streaming ~> stream[a] \notin Streaming

-----------------------------------------------------------------------------
(* Refinement                                                              *)

OpenStream == IF current # 0 /\ stream[current] \in Streaming THEN current ELSE 0

Wire == INSTANCE EventStream WITH
  Streams <- Attempts, NoStream <- 0, open <- OpenStream, sent <- log

(* With all their threads, the sessions of a run implement plain streams   *)
(* of events, one at a time.                                               *)
ImplementsEventStream == Wire!StreamSpec
=============================================================================
