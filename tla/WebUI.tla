------------------------------- MODULE WebUI -------------------------------
(***************************************************************************)
(* The WebUI: the incremental feed and the pages of the ban list, which    *)
(* share the list and the feed's epoch, and the structured log.  A         *)
(* behaviour has readers of one kind, so that what the others do need not  *)
(* be explored beside them; all read-only handlers are independent of one  *)
(* another but for the snapshot that browsers share.                       *)
(***************************************************************************)
EXTENDS BanPages, LogPages

VARIABLE readers \* the kind of readers of this behaviour

vars == <<readers, banFeedVars, pageVars, logVars>>

TypeOK ==
  /\ readers \in {"pollers", "browsers", "logs"}
  /\ FeedTypeOK /\ PagesTypeOK /\ LogsTypeOK

Init ==
  /\ readers \in {"pollers", "browsers", "logs"}
  /\ FeedInit /\ PagesInit /\ LogsInit
  /\ readers = "logs" => enabled

List == readers # "logs" /\ UNCHANGED <<readers, logVars>>

Changes ==
  /\ List /\ UNCHANGED pageVars
  /\ IF readers = "browsers" THEN UnrecordedChanges ELSE ListChanges
Records == List /\ Record /\ UNCHANGED pageVars
Reloads == List /\ ReplaceConfig /\ UNCHANGED pageVars
Resets == List /\ InitConfig /\ UNCHANGED pageVars
Restarts == List /\ Restart /\ PagesRestart

Polls(p, step) == readers = "pollers" /\ List /\ step /\ UNCHANGED pageVars

Browses ==
  /\ readers = "browsers" /\ List
  /\ SnapshotAges \/ OthersAsk \/ \E b \in Browser : BrowserStep(b)
  /\ UNCHANGED banFeedVars

Logs == readers = "logs" /\ LogStep /\ UNCHANGED <<readers, banFeedVars, pageVars>>

Next ==
  \/ Changes \/ Records \/ Reloads \/ Resets \/ Restarts
  \/ \E p \in Poller : Polls(p, PollerStep(p))
  \/ Browses \/ Logs

\* The main loop and the handlers run; a poller keeps asking, and not every
\* answer is lost.
Fairness ==
  /\ WF_vars(Records) /\ WF_vars(Resets)
  /\ \A p \in Poller : /\ WF_vars(Polls(p, Request(p)))
                       /\ SF_vars(Polls(p, Answer(p)))
                       /\ SF_vars(Polls(p, Receive(p)))

Spec == Init /\ [][Next]_vars /\ Fairness

(***************************************************************************)
(* A poller that keeps asking ends up with the ban list, when the list     *)
(* stops changing and the WebUI stays enabled, however many events, resets *)
(* and answers it missed.                                                  *)
(***************************************************************************)
CopyCatchesUp ==
  readers = "pollers" => <>[](enabled => \A p \in Poller : poller[p].copy = peers)
=============================================================================
