------------------------------ MODULE RunControl ------------------------------
(***************************************************************************)
(* The execution control of a run's attempts in the agent runtime          *)
(* (app/runtime_control.py).  One RunControl object per attempt is shared  *)
(* by the thread that streams events, the threads that make model and tool *)
(* calls, and the requests that cancel the attempt.  Its lock is held for  *)
(* one reading or writing at a time, so that a thread that has passed      *)
(* check() may act on what is no longer true.                              *)
(*                                                                         *)
(* A call is made in four steps of its thread: check() and the reservation *)
(* in _reserve, check() and the submission in _run_interruptibly, and the  *)
(* waiting in _wait_future, which polls check().                           *)
(***************************************************************************)
EXTENDS Naturals, FiniteSets

CONSTANTS
  MaxAttempts,      (* bound on attempt_id                                 *)
  Threads,          (* threads of an attempt that make calls               *)
  MaxModelCalls,    (* budget of an attempt                                *)
  MaxToolCalls

ASSUME RunControlAssumption ==
  /\ MaxAttempts \in Nat \ {0}
  /\ IsFiniteSet(Threads)
  /\ MaxModelCalls \in Nat
  /\ MaxToolCalls \in Nat

VARIABLES
  control,          (* the RunControl of every attempt                     *)
  late,             (* attempts whose deadline has passed                  *)
  call              (* what every thread of an attempt is doing            *)

controlVars == <<control, late, call>>

Attempts == 1..MaxAttempts
CallKinds == {"model", "tool"}

ControlStatus ==
  {"none", "running", "interrupted", "completed", "cancelled", "timed_out",
   "budget_exhausted", "failed"}
Ended == {"completed", "cancelled", "timed_out", "budget_exhausted", "failed"}

ControlRow ==
  [status    : ControlStatus,
   cancel    : BOOLEAN,                 \* _cancel_event
   signalled : BOOLEAN,                 \* _cancel_reason was given
   models    : Nat,
   tools     : Nat]

(* A thread whose call was stopped keeps the status RuntimeStopped had.    *)
Busy == {"check", "reserve", "submit", "wait"}
Raised == (ControlStatus \ {"none", "running"}) \cup {"error"}
CallState == [pc : {"idle", "done"} \cup Busy \cup Raised, kind : CallKinds]
NoCall == [pc |-> "idle", kind |-> "model"]

ControlTypeOK ==
  /\ control \in [Attempts -> ControlRow]
  /\ late \in SUBSET Attempts
  /\ call \in [Attempts -> [Threads -> CallState]]

NoControl ==
  [status |-> "none", cancel |-> FALSE, signalled |-> FALSE, models |-> 0, tools |-> 0]

ControlInit ==
  /\ control = [a \in Attempts |-> NoControl]
  /\ late = {}
  /\ call = [a \in Attempts |-> [t \in Threads |-> NoCall]]

(* RunControl.__init__, with the counts of the checkpoint.                 *)
NewControl(models, tools) ==
  [NoControl EXCEPT !.status = "running", !.models = models, !.tools = tools]

Fits(models, tools) == models <= MaxModelCalls /\ tools <= MaxToolCalls

-----------------------------------------------------------------------------
(* Faulty: the deadline is not looked at.                                  *)
CheckedForCancel(a) ==
  IF control[a].cancel THEN [control[a] EXCEPT !.status = "cancelled"] ELSE control[a]

(* What check() leaves; it raises RuntimeStopped unless that is "running". *)
Checked(a) ==
  IF control[a].cancel
  THEN [control[a] EXCEPT !.status = "cancelled"]
  ELSE IF control[a].status = "running" /\ a \in late
       THEN [control[a] EXCEPT !.status = "timed_out", !.cancel = TRUE]
       ELSE control[a]

Passes(a) == Checked(a).status = "running"

(* Faulty: the status is set by whoever cancels ...                        *)
SignalCancelled(a) ==
  [control[a] EXCEPT !.status = "cancelled", !.cancel = TRUE, !.signalled = TRUE]

(* ... to the status the control plane has for it.                         *)
SignalRequested(a) ==
  [control[a] EXCEPT !.status = "cancel_requested", !.cancel = TRUE, !.signalled = TRUE]

SignalCancel(a) ==
  IF control[a].status \in Ended THEN control[a]
  ELSE [control[a] EXCEPT !.cancel = TRUE, !.signalled = TRUE]

Finished(a, status) ==
  IF control[a].status = "completed" THEN control[a]
  ELSE [control[a] EXCEPT !.status = status, !.cancel = TRUE]

Set(a, row) == control' = [control EXCEPT ![a] = row]
CallAt(a, t, pc) == call[a][t].pc = pc
CallGoto(a, t, pc) == call' = [call EXCEPT ![a][t].pc = pc]

(* Faulty: one call more than the budget.                                  *)
MayReserveOneMore(a, kind) ==
  IF kind = "model" THEN control[a].models <= MaxModelCalls
  ELSE control[a].tools <= MaxToolCalls

MayReserve(a, kind) ==
  IF kind = "model" THEN control[a].models < MaxModelCalls
  ELSE control[a].tools < MaxToolCalls

Reserved(a, kind) ==
  IF kind = "model" THEN [control[a] EXCEPT !.models = @ + 1]
  ELSE [control[a] EXCEPT !.tools = @ + 1]

-----------------------------------------------------------------------------
BeginCall(a, t, kind) ==
  /\ CallAt(a, t, "idle")
  /\ call' = [call EXCEPT ![a][t] = [pc |-> "check", kind |-> kind]]
  /\ UNCHANGED <<control, late>>

(* A check() of a call: go on to the next step, or stop.                   *)
CheckThen(a, t, next) ==
  /\ Set(a, Checked(a))
  /\ CallGoto(a, t, IF Passes(a) THEN next ELSE Checked(a).status)
  /\ UNCHANGED late

CheckBudget(a, t) == CallAt(a, t, "check") /\ CheckThen(a, t, "reserve")

(* The status is not looked at again before the reservation.               *)
Reserve(a, t) ==
  /\ CallAt(a, t, "reserve")
  /\ LET kind == call[a][t].kind IN
       IF MayReserve(a, kind)
       THEN /\ Set(a, Reserved(a, kind))
            /\ CallGoto(a, t, "submit")
       ELSE /\ Set(a, [control[a] EXCEPT !.status = "budget_exhausted", !.cancel = TRUE])
            /\ CallGoto(a, t, "budget_exhausted")
  /\ UNCHANGED late

Submit(a, t) == CallAt(a, t, "submit") /\ CheckThen(a, t, "wait")

(* The models a tool calls on the way (rewriting, embedding, reranking)    *)
(* return before the tool does.                                            *)
Nested(a) == {t \in Threads : call[a][t].kind = "model" /\ call[a][t].pc \in Busy}
ToolsWaiting(a) == {t \in Threads : call[a][t].kind = "tool" /\ CallAt(a, t, "wait")}

Return(a, t) ==
  /\ CallAt(a, t, "wait")
  /\ call[a][t].kind = "tool" =>
       Cardinality(Nested(a)) < Cardinality(ToolsWaiting(a))
  /\ CheckThen(a, t, "done")

StopWaiting(a, t) ==
  /\ CallAt(a, t, "wait")
  /\ ~Passes(a)
  /\ CheckThen(a, t, "done")

(* The last poll passed, then the time ran out: finish() does not look at   *)
(* what happened in between.                                               *)
CallTimesOut(a, t) ==
  /\ CallAt(a, t, "wait")
  /\ Set(a, Finished(a, "timed_out"))
  /\ CallGoto(a, t, "timed_out")
  /\ UNCHANGED late

(* The called function raises.  A tool answers with the error instead.     *)
CallFails(a, t) ==
  /\ CallAt(a, t, "wait")
  /\ CallGoto(a, t, IF call[a][t].kind = "model" THEN "error" ELSE "done")
  /\ UNCHANGED <<control, late>>

CallStep(a, t) ==
  \/ CheckBudget(a, t) \/ Reserve(a, t) \/ Submit(a, t)
  \/ Return(a, t) \/ StopWaiting(a, t) \/ CallTimesOut(a, t) \/ CallFails(a, t)

DeadlinePasses(a) ==
  /\ control[a].status # "none"
  /\ late' = late \cup {a}
  /\ UNCHANGED <<control, call>>

Quiet(a) == \A t \in Threads : call[a][t].pc \notin Busy
=============================================================================
