---------------------------- MODULE ChatProperties ----------------------------
(* What the chat page keeps, whatever is clicked in whatever order.        *)
EXTENDS ChatPage

(* The page reads at most one stream, the one of the current generation,   *)
(* and can abort it: _abortCurrent names it.  An error response that is    *)
(* still being read when its request is aborted calls back late, and must  *)
(* not make the page forget the stream that came after it.                 *)
OneStream ==
  \A s \in Streams : Reading(s) => abort = s /\ IsCurrentStream(s)

(* A body shows an answer only if the run has one, and when the stream of  *)
(* a run that got one has been read to its end, the answer is there and no *)
(* draft is left: the status arrives before the answer, and decides on it. *)
AnswerIsShown ==
  /\ \A b \in Bodies : body[b].answer # NoId => run[body[b].answer] \in Ended
  /\ \A s \in Streams : client[s] = "done" /\ HandlerAt(s, "finished") =>
       body[into[s].body].answer = RunOf(s) /\ ~body[into[s].body].draft

(* Who leaves a conversation, by a click on another one, on a new one or   *)
(* on logout, leaves the files behind that were picked in it: no later     *)
(* question takes them along, even if their upload ends, or the files of   *)
(* the conversation before are loaded, only after that click.  It says     *)
(* nothing of the two changes that no click makes, when the page has       *)
(* started (app.js:171) and when a logout is answered (app.js:102): what   *)
(* was picked meanwhile goes into the conversation that comes then.        *)
FilesAreLeftBehind ==
  [][\A s \in Streams : HandlerAt(s, "none") /\ server'[s].at = "asked" =>
       \A u \in server'[s].request.files : upload[u].view = view]_vars
=============================================================================
