---------------------------- MODULE Conversation ----------------------------
(***************************************************************************)
(* What the conversations of an owner promise their reader: in each of     *)
(* them questions are asked one at a time, the question that is open is    *)
(* answered at most once and directly below itself, or it is given up, and *)
(* a deleted conversation stays empty.  Attempts, streams and requests do  *)
(* not appear here.                                                        *)
(***************************************************************************)
EXTENDS Sequences

CONSTANTS Topics, Turns, NoTurn

VARIABLES
  status,        (* of each topic: "unissued", "stored" or "deleted"       *)
  transcript,    (* questions and answers in the order they are shown      *)
  open           (* the turn that awaits its answer, or NoTurn             *)

conversationVars == <<status, transcript, open>>

ConversationInit ==
  /\ status = [t \in Topics |-> "unissued"]
  /\ transcript = [t \in Topics |-> <<>>]
  /\ open = [t \in Topics |-> NoTurn]

(* A turn is asked once: its question is not in the transcript yet.        *)
Ask(t, r) ==
  /\ status[t] # "deleted"
  /\ open[t] = NoTurn
  /\ \A i \in DOMAIN transcript[t] : transcript[t][i].run # r
  /\ status' = [status EXCEPT ![t] = "stored"]
  /\ transcript' = [transcript EXCEPT ![t] = Append(@, [run |-> r, role |-> "user"])]
  /\ open' = [open EXCEPT ![t] = r]

Reply(t) ==
  /\ open[t] # NoTurn
  /\ transcript' = [transcript EXCEPT
       ![t] = Append(@, [run |-> open[t], role |-> "assistant"])]
  /\ open' = [open EXCEPT ![t] = NoTurn]
  /\ UNCHANGED status

GiveUp(t) ==
  /\ open[t] # NoTurn
  /\ open' = [open EXCEPT ![t] = NoTurn]
  /\ UNCHANGED <<status, transcript>>

Remove(t) ==
  /\ status[t] = "stored"
  /\ status' = [status EXCEPT ![t] = "deleted"]
  /\ transcript' = [transcript EXCEPT ![t] = <<>>]
  /\ open' = [open EXCEPT ![t] = NoTurn]

ConversationNext ==
  \E t \in Topics : (\E r \in Turns : Ask(t, r)) \/ Reply(t) \/ GiveUp(t) \/ Remove(t)

ConversationSpec == ConversationInit /\ [][ConversationNext]_conversationVars
=============================================================================
