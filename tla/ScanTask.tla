----------------------------- MODULE ScanTask ------------------------------
(***************************************************************************)
(* The main loop of internal/app/console.go and what it does each time the *)
(* interval has passed: LoadInitConfig connects to the configured          *)
(* BitTorrent client, Task reads its torrents, clears expired bans, checks *)
(* every peer and submits the ban list, retrying failed submissions with a *)
(* growing delay.                                                          *)
(*                                                                         *)
(* One goroutine runs all of it.  The environment decides how much time    *)
(* passes, which configuration the user puts in place, which client can be *)
(* reached, what its peers look like, how far a failing submission got,    *)
(* and when the program is asked to stop.                                  *)
(***************************************************************************)
EXTENDS BanList

CONSTANTS
  URL,        \* the addresses of the BitTorrent clients
  NoURL,      \* the empty clientURL
  NoClient,   \* currentClient = nil
  KindOf,     \* [URL -> the kind of client that answers there]
  ClientConfigs, \* the client settings the user may put in place
  Sample,     \* what a scan may observe of a peer
  MaxDelay    \* the longest delay before a retry, in seconds

Kind == {KindOf[u] : u \in URL}

\* What a configuration says about the client: its URL, and whether
\* clientType names the client's kind instead of leaving it to detection.
ClientConfig == [url : URL \cup {NoURL}, typed : BOOLEAN]

\* The first rule, in the order of CheckPeer, that an observed peer matches:
\* a match of the client name, the port or a BTN endpoint bans the peer, a
\* match of the IP list, the sync server or a BTN address bans its IP.
Rules == {"none", "client", "port", "ip", "sync", "btnEndpoint", "btnAddress"}

SampleType ==
  [private : BOOLEAN,  \* a private or empty address
   rule : Rules,       \* the first rule matched
   idle : BOOLEAN,     \* neither uploading nor downloading
   cheating : BOOLEAN, \* its progress does not match what was uploaded to it
   ignored : BOOLEAN,  \* exempt by ignoreEmptyPeer or ignoreByDownloaded
   tracked : BOOLEAN]  \* the statistics already know the connection

ASSUME ClientAssumption ==
  /\ NoURL \notin URL
  /\ NoClient \notin Kind
  /\ ClientConfigs \subseteq ClientConfig
ASSUME SampleAssumption == Sample \subseteq SampleType
ASSUME MaxDelayAssumption == MaxDelay \in Nat \ {0}

VARIABLES
  phase,      \* where the loop is
  client,     \* the client settings in force
  lastURL,    \* the client last connected to
  driver,     \* the kind of client the current driver speaks to
  changed,    \* this scan removed or added a ban
  submission, \* blockPeerSubmission: pending, delay, and Next - currentTimestamp
  stopping,   \* the request context is cancelled
  clientBans, \* external: the list each client enforces
  confirmed   \* history: a submission succeeded since the last connection

clientVars == <<client, lastURL, driver, clientBans, confirmed>>
vars == <<config, blockPeer, blockCIDR, cleanAge, phase, client, lastURL, driver, changed,
          submission, stopping, clientBans, confirmed>>

Phase == {"start", "idle", "config", "fetch", "clear", "scan", "statistics", "retry", "stopped"}

TypeOK ==
  /\ BanTypeOK
  /\ client \in ClientConfig
  /\ phase \in Phase
  /\ lastURL \in URL \cup {NoURL}
  /\ driver \in Kind \cup {NoClient}
  /\ changed \in BOOLEAN
  /\ submission \in [pending : BOOLEAN, delay : 0 .. MaxDelay, wait : 0 .. MaxDelay]
  /\ stopping \in BOOLEAN
  /\ clientBans \in [URL -> SUBSET IP]
  /\ confirmed \in BOOLEAN

Idle == [pending |-> FALSE, delay |-> 0, wait |-> 0]

\* The process starts with an empty ban list and has no client yet; a client
\* may still enforce what an earlier run submitted.
Init ==
  /\ BanInit
  /\ client \in ClientConfigs
  /\ phase = "start"
  /\ lastURL = NoURL
  /\ driver = NoClient
  /\ changed = FALSE
  /\ submission = Idle
  /\ stopping = FALSE
  /\ clientBans \in [URL -> SUBSET IP]
  /\ confirmed = FALSE

Goto(from, to) == phase = from /\ phase' = to

-----------------------------------------------------------------------------
(* The loop, and LoadInitConfig.                                           *)

\* The ticker finds that the interval has passed: currentTimestamp moves on.
Tick(d) ==
  /\ Goto("idle", "config")
  /\ BanTimePasses(d)
  /\ submission' = [submission EXCEPT !.wait = IF @ > d THEN @ - d ELSE 0]
  /\ UNCHANGED <<config, clientVars, changed, stopping>>

\* LoadInitConfig reads the configuration files, which may have changed.  An
\* empty clientURL stands for the URL in use.
Reload(c) ==
  /\ config' \in Configs
  /\ client' = IF c.url = NoURL THEN [c EXCEPT !.url = lastURL] ELSE c

\* Where the program goes when LoadInitConfig succeeds, and when it fails:
\* before the loop is started a failure exits, unless ignoreFailureExit is set
\* and the program is not stopping; in the loop it skips Task.
Proceed(next) == \/ Goto("start", "idle")
                 \/ Goto("config", next)
GiveUp == \/ phase = "start" /\ phase' \in IF stopping THEN {"stopped"} ELSE {"start", "stopped"}
          \/ Goto("config", "idle")

\* The URL is the one last connected to.  Task then gives up at once when
\* there is no URL or no driver.
KeepClient(c) ==
  /\ Proceed(IF lastURL = NoURL \/ driver = NoClient THEN "idle" ELSE "fetch")
  /\ Reload(c)
  /\ client'.url = lastURL
  /\ UNCHANGED <<banVars, lastURL, driver, clientBans, confirmed, changed,
                 submission, stopping>>

\* The URL is new and DetectClient finds no client there: the driver is
\* dropped, or created nevertheless when clientType names it, in which case
\* Login fails.
DetectFails(c) ==
  /\ GiveUp
  /\ Reload(c)
  /\ client'.url # lastURL
  /\ driver' = IF c.typed THEN KindOf[client'.url] ELSE NoClient
  /\ UNCHANGED <<banVars, lastURL, clientBans, confirmed, changed, submission, stopping>>

\* The URL is new, a client is detected and Login fails.
LoginFails(c) ==
  /\ ~stopping
  /\ GiveUp
  /\ Reload(c)
  /\ client'.url # lastURL
  /\ driver' = KindOf[client'.url]
  /\ UNCHANGED <<banVars, lastURL, clientBans, confirmed, changed, submission, stopping>>

\* The URL is new and Login succeeds: the bans in force are to be submitted
\* to this client as well, without waiting.
Connect(c) ==
  /\ ~stopping
  /\ Proceed("fetch")
  /\ Reload(c)
  /\ client'.url # lastURL
  /\ driver' = KindOf[client'.url]
  /\ lastURL' = client'.url
  /\ submission' = IF Banned # {} THEN [pending |-> TRUE, delay |-> 0, wait |-> 0]
                                  ELSE submission
  /\ confirmed' = FALSE
  /\ UNCHANGED <<banVars, clientBans, changed, stopping>>

LoadInitConfig(c) == KeepClient(c) \/ DetectFails(c) \/ LoginFails(c) \/ Connect(c)

-----------------------------------------------------------------------------
(* Task: fetching, clearing, checking.                                     *)

\* A driver reaches the client only when it is of the client's kind.
DriverFits == ~stopping /\ driver = KindOf[lastURL]

FetchSucceeds ==
  /\ Goto("fetch", "clear")
  /\ DriverFits
  /\ UNCHANGED <<config, banVars, clientVars, changed, submission, stopping>>

\* The client does not answer.  It may have restarted and lost its list, so
\* a list that is not empty is to be submitted again.
FetchFails ==
  /\ Goto("fetch", "retry")
  /\ submission' = [submission EXCEPT !.pending = @ \/ Banned # {}]
  /\ \/ clientBans' = [clientBans EXCEPT ![lastURL] = {}]
     \/ UNCHANGED clientBans
  /\ UNCHANGED <<config, banVars, client, lastURL, driver, confirmed, changed, stopping>>

\* ClearBlockPeer, which does nothing until its interval has passed.
Clear ==
  /\ Goto("clear", "scan")
  /\ ClearBlockPeer \/ (~ClearDue /\ UNCHANGED banVars)
  /\ changed' = (Banned' # Banned)
  /\ UNCHANGED <<config, clientVars, submission, stopping>>

\* CheckPeer's verdict on a peer that is not banned yet: a rule, then a banned
\* subnet, then idleness, then progress, then exemption.
CheckPeer(ip, o) ==
  IF o.private THEN "bad"
  ELSE IF o.rule # "none" \/ IsMatchCIDR(ip) THEN "ban"
  ELSE IF o.idle THEN IF o.tracked /\ ~o.ignored THEN "record" ELSE "ignore"
  ELSE IF o.ignored THEN "ignore"
  ELSE IF o.cheating THEN "ban" ELSE "record"

\* ProcessPeer on a peer that is banned already: the ban is refreshed.
ProcessBannedPeer(ip, o) ==
  /\ phase = "scan"
  /\ ~o.private
  /\ RefreshBlockedPeer(ip)
  /\ UNCHANGED <<config, clientVars, phase, changed, submission, stopping>>

\* ProcessPeer on a peer that CheckPeer bans; the others only go to the
\* statistics or nowhere.
ProcessBadPeer(ip, o) ==
  /\ phase = "scan"
  /\ ip \notin Banned
  /\ CheckPeer(ip, o) = "ban"
  /\ AddBlockPeer(ip)
  /\ changed' = TRUE
  /\ UNCHANGED <<config, clientVars, phase, submission, stopping>>

\* The last torrent has been processed.
EndScan ==
  /\ Goto("scan", "statistics")
  /\ UNCHANGED <<config, banVars, clientVars, changed, submission, stopping>>

\* The program is stopping: the loop over the torrents returns early and what
\* the scan changed is not recorded as pending.
AbortScan ==
  /\ stopping
  /\ Goto("scan", "retry")
  /\ changed' = FALSE
  /\ UNCHANGED <<config, banVars, clientVars, submission, stopping>>

\* CheckAllIP and CheckAllTorrent ban an IP that is not banned yet, with the
\* subnet its statistics were recorded under.
StatisticsBan(ip) ==
  /\ phase = "statistics"
  /\ ip \notin Banned
  /\ \E c \in Configs : BlockFromStatistics(ip, c.mask[ip])
  /\ changed' = TRUE
  /\ UNCHANGED <<config, clientVars, phase, submission, stopping>>

\* Mutant: a scan that changed nothing forgets that an earlier submission failed.
EndTask_Overwrites ==
  /\ Goto("statistics", "retry")
  /\ submission' = [submission EXCEPT !.pending = changed]
  /\ changed' = FALSE
  /\ UNCHANGED <<config, banVars, clientVars, stopping>>

\* Every check is done: a list that changed is to be submitted.
EndTask ==
  /\ Goto("statistics", "retry")
  /\ submission' = [submission EXCEPT !.pending = @ \/ changed]
  /\ changed' = FALSE
  /\ UNCHANGED <<config, banVars, clientVars, stopping>>

-----------------------------------------------------------------------------
(* RetryBlockPeerSubmission, which every Task that has a client ends with. *)

\* Mutant: a submission that failed once is not tried again.
SubmissionDue_OnlyOnce == submission.pending /\ submission.delay = 0

SubmissionDue == submission.pending /\ submission.wait = 0

NoSubmission ==
  /\ ~SubmissionDue
  /\ Goto("retry", "idle")
  /\ UNCHANGED <<config, banVars, clientVars, changed, submission, stopping>>

\* Mutant: success leaves the delay of earlier failures in place.
SubmitSucceeds_KeepsDelay ==
  /\ Goto("retry", "idle")
  /\ SubmissionDue
  /\ DriverFits
  /\ clientBans' = [clientBans EXCEPT ![lastURL] = Banned]
  /\ submission' = [submission EXCEPT !.pending = FALSE]
  /\ confirmed' = TRUE
  /\ UNCHANGED <<config, banVars, client, lastURL, driver, changed, stopping>>

\* The driver reports success: the client enforces exactly the ban list.
SubmitSucceeds ==
  /\ Goto("retry", "idle")
  /\ SubmissionDue
  /\ DriverFits
  /\ clientBans' = [clientBans EXCEPT ![lastURL] = Banned]
  /\ submission' = Idle
  /\ confirmed' = TRUE
  /\ UNCHANGED <<config, banVars, client, lastURL, driver, changed, stopping>>

\* Mutant: the delay doubles without bound.
NextDelay_Unbounded == IF submission.delay = 0 THEN 1 ELSE 2 * submission.delay

NextDelay == IF submission.delay = 0 THEN 1
             ELSE IF 2 * submission.delay < MaxDelay THEN 2 * submission.delay
             ELSE MaxDelay

\* The driver reports failure, after any part of the changes took effect.
SubmitFails ==
  /\ Goto("retry", "idle")
  /\ SubmissionDue
  /\ submission' = [submission EXCEPT !.delay = NextDelay, !.wait = NextDelay]
  /\ \E applied \in SUBSET (Banned \cup clientBans[lastURL]) :
       /\ Banned \cap clientBans[lastURL] \subseteq applied
       /\ clientBans' = [clientBans EXCEPT ![lastURL] = applied]
  /\ UNCHANGED <<config, banVars, client, lastURL, driver, confirmed, changed, stopping>>

-----------------------------------------------------------------------------
(* Stopping.                                                               *)

\* ReqStop, from a signal, the tray or a panic: the request context is
\* cancelled, so no request succeeds from here on.
ReqStop ==
  /\ ~stopping
  /\ phase # "stopped"
  /\ stopping' = TRUE
  /\ UNCHANGED <<config, banVars, clientVars, phase, changed, submission>>

\* RunConsole waits for the loop to end and calls Stop, whose
\* SubmitBlockPeer(nil) leaves the client's list alone.
Stop ==
  /\ stopping
  /\ Goto("idle", "stopped")
  /\ UNCHANGED <<config, banVars, clientVars, changed, submission, stopping>>

Stopped == phase = "stopped" /\ UNCHANGED vars

-----------------------------------------------------------------------------
Scan ==
  \/ \E ip \in IP, o \in Sample : ProcessBannedPeer(ip, o) \/ ProcessBadPeer(ip, o)
  \/ EndScan
  \/ AbortScan
  \/ \E ip \in IP : StatisticsBan(ip)
  \/ EndTask

Next ==
  \/ \E d \in Pauses : Tick(d)
  \/ \E c \in ClientConfigs \cup {client} : LoadInitConfig(c)
  \/ FetchSucceeds \/ FetchFails
  \/ Clear
  \/ Scan
  \/ NoSubmission \/ SubmitSucceeds \/ SubmitFails
  \/ ReqStop \/ Stop \/ Stopped

\* The loop never blocks for ever: every request has a timeout, and the
\* ticker keeps ticking.
LoopFairness ==
  /\ WF_vars(\E d \in Pauses : Tick(d))
  /\ WF_vars(\E c \in ClientConfigs \cup {client} : LoadInitConfig(c))
  /\ WF_vars(FetchSucceeds \/ FetchFails)
  /\ WF_vars(Clear)
  /\ WF_vars(EndScan)
  /\ WF_vars(EndTask)
  /\ WF_vars(NoSubmission \/ SubmitSucceeds \/ SubmitFails)
  /\ WF_vars(Stop)

\* A client that is asked again and again answers at last.  Nothing makes the
\* user edit the configuration.
ClientFairness ==
  /\ SF_vars(Connect(client))
  /\ SF_vars(FetchSucceeds)
  /\ SF_vars(SubmitSucceeds)

Spec == Init /\ [][Next]_vars
FairSpec == Spec /\ LoopFairness /\ ClientFairness
-----------------------------------------------------------------------------
(* Properties.                                                             *)

(***************************************************************************)
(* Between two scans, when no submission is pending and one has succeeded  *)
(* since the client was connected, the client enforces exactly the bans in *)
(* force: whatever changed the list, failed, was lost by a restart of the  *)
(* client or left by another client is pending still.  When none has       *)
(* succeeded there is nothing to submit.                                   *)
(***************************************************************************)
ClientUpToDate ==
  phase = "idle" /\ ~stopping /\ ~submission.pending /\ lastURL # NoURL =>
    IF confirmed THEN clientBans[lastURL] = Banned ELSE Banned = {}

(***************************************************************************)
(* The delay of RetryBlockPeerSubmission belongs to a pending submission   *)
(* and bounds the wait that is left: a submission that succeeded leaves no *)
(* delay behind for the next one, and no wait outlasts its delay.          *)
(***************************************************************************)
BackoffBelongsToPending ==
  /\ submission.wait <= submission.delay
  /\ submission.delay > 0 => submission.pending

(***************************************************************************)
(* A change of the ban list reaches the client: a pending submission       *)
(* succeeds in the end, provided the client answers in the end.  The delay *)
(* between retries stops growing at MaxDelay, so the loop never gives up.  *)
(***************************************************************************)
SubmissionDelivered == submission.pending ~> (~submission.pending \/ stopping)

(***************************************************************************)
(* Expired bans do not stay: again and again there is a moment at which    *)
(* every ban's lease is still running.                                     *)
(***************************************************************************)
ExpiredBansLifted ==
  []<>(stopping \/ \A ip \in Banned : ~Expired(Lease(ip)))

(***************************************************************************)
(* The configuration can be edited while the program runs (README.md: "支  *)
(* 持记录日志及热重载配置").  Once the configured client stays reachable,  *)
(* the program scans it again and again.                                   *)
(***************************************************************************)
ScanningResumes == []<>(stopping \/ phase \in {"clear", "stopped"})
=============================================================================
