---------------------------- MODULE ClientBans ----------------------------
(***************************************************************************)
(* How the drivers of internal/client make a BitTorrent client enforce the *)
(* ban list.  qBittorrent's list is overwritten, unless it equals the one  *)
(* the driver remembers; BitComet bans per task, and the driver lifts only *)
(* what it banned itself; Transmission downloads the list from the         *)
(* program.  A submission is one call of SubmitBlockPeer with all its      *)
(* requests: only the main loop calls it, and nothing else in the program  *)
(* touches what it remembers.                                              *)
(*                                                                         *)
(* Not modelled: the banPeers API, which no code of the program enables.   *)
(***************************************************************************)
EXTENDS FiniteSetsExt

CONSTANTS
  IP,
  Task,   \* the torrents, which BitComet calls tasks
  NotSubmitted, \* the nil map
  Kinds   \* the kinds of client to consider

Supported == {"qBittorrent", "Transmission", "BitComet"}
ASSUME KindsAssumption ==
  /\ Kinds \subseteq Supported
  /\ \A l \in SUBSET IP : l # NotSubmitted

\* A peer banned in a task.
Ban == IP \X Task

VARIABLES
  kind,          \* the kind of the current client
  shadow,        \* UseShadowBan
  list,          \* the addresses of blockPeerMap
  tasksOf,       \* the tasks ToClientBans names with an address
  banCache,      \* qBittorrent: the list last submitted
  bannedTaskIPs, \* BitComet: the bans the driver made
  ipfilter,      \* Transmission: the list the program serves
  enforced,      \* external: the bans the client enforces
  outcome,       \* what the last submission reported, until something changes
  unsure         \* history: bans whose last request may have taken effect unseen

banVars == <<kind, shadow, list, tasksOf, banCache, bannedTaskIPs, ipfilter, enforced,
             outcome, unsure>>
records == <<banCache, bannedTaskIPs, ipfilter>>

BansTypeOK ==
  /\ kind \in Supported
  /\ shadow \in BOOLEAN
  /\ list \subseteq IP
  /\ tasksOf \in [IP -> SUBSET Task]
  /\ banCache \in (SUBSET IP) \cup {NotSubmitted}
  /\ bannedTaskIPs \subseteq Ban
  /\ ipfilter \subseteq IP
  /\ enforced \subseteq Ban
  /\ outcome \in {"none", "succeeded", "failed"}
  /\ unsure \subseteq Ban

\* A client may still enforce what an earlier run submitted.
BansInit ==
  /\ kind \in Kinds
  /\ shadow = FALSE
  /\ list = {}
  /\ tasksOf = [ip \in IP |-> {}]
  /\ banCache = NotSubmitted
  /\ bannedTaskIPs = {}
  /\ ipfilter = {}
  /\ \E earlier \in SUBSET IP : enforced = earlier \X Task
  /\ outcome = "none"
  /\ unsure = IF kind = "BitComet" THEN enforced ELSE {}

\* What the client must enforce, and what it may: BitComet keeps the ban of an
\* address in a task that is no longer named with it.
Must == {b \in Ban : b[1] \in list /\ (kind = "BitComet" => b[2] \in tasksOf[b[1]])}
May == list \X Task

-----------------------------------------------------------------------------
(* The ban list changes, and the statistics name other tasks.              *)
ListChanges(l) ==
  /\ l # list
  /\ list' = l
  /\ outcome' = "none"
  /\ UNCHANGED <<kind, shadow, tasksOf, records, enforced, unsure>>

TasksChange(ip, tasks) ==
  /\ kind = "BitComet"
  /\ tasks # tasksOf[ip]
  /\ tasksOf' = [tasksOf EXCEPT ![ip] = tasks]
  /\ outcome' = "none"
  /\ UNCHANGED <<kind, shadow, list, records, enforced, unsure>>

\* A reload turns shadow bans on, if qBittorrent has them, or off.
ToggleShadowBan ==
  /\ kind = "qBittorrent"
  /\ shadow' = ~shadow
  /\ outcome' = "none"
  /\ UNCHANGED <<kind, list, tasksOf, records, enforced, unsure>>

-----------------------------------------------------------------------------
(* qBittorrent.                                                            *)

\* Mutant: Login and a failed FetchTorrents leave the remembered list.
ForgetSubmitted_Keeps == unsure' = {} /\ UNCHANGED banCache

\* The driver forgets what it submitted and will overwrite everything.
ForgetSubmitted == unsure' = {} /\ banCache' = NotSubmitted

\* The list equals the one remembered: there is nothing to submit.
SubmitUnchanged ==
  /\ kind = "qBittorrent" /\ ~shadow
  /\ banCache = list
  /\ outcome' = "succeeded"
  /\ UNCHANGED <<kind, shadow, list, tasksOf, records, enforced, unsure>>

\* setPreferences overwrites the client's list, and the answer arrives.
SubmitPreferences ==
  /\ kind = "qBittorrent" /\ ~shadow
  /\ banCache # list
  /\ enforced' = list \X Task
  /\ banCache' = list
  /\ unsure' = {}
  /\ outcome' = "succeeded"
  /\ UNCHANGED <<kind, shadow, list, tasksOf, bannedTaskIPs, ipfilter>>

\* No answer arrives; the client may have done as told.
SubmitPreferencesFails(applied) ==
  /\ kind = "qBittorrent" /\ ~shadow
  /\ banCache # list
  /\ enforced' = IF applied THEN list \X Task ELSE enforced
  /\ unsure' = unsure \cup SymDiff(enforced, enforced')
  /\ outcome' = "failed"
  /\ UNCHANGED <<kind, shadow, list, tasksOf, records>>

\* SubmitShadowBanPeer adds the list to what the client shadow-bans, which
\* nothing ever takes back; an empty list needs no request.
SubmitShadowBan(answered) ==
  /\ kind = "qBittorrent" /\ shadow
  /\ outcome' = IF answered \/ list = {} THEN "succeeded" ELSE "failed"
  /\ UNCHANGED <<kind, shadow, list, tasksOf, records, enforced, unsure>>

-----------------------------------------------------------------------------
(* BitComet.                                                               *)

TasksIn(bans) == {b[2] : b \in bans}

\* What the driver banned and is not on the list, in the tasks whose requests
\* were answered.
Lifted(done) == {b \in bannedTaskIPs : b[1] \notin list /\ b[2] \in done}

\* What is on the list and not on record.
Missing == Must \ bannedTaskIPs

\* submitBlockPeerV2: one request per task to unban, then one per task to ban.
\* Of the requests of either kind that were not answered, some were applied.
SubmitTasks(unbanned, banned, unbanApplied, banApplied) ==
  LET toLift == Lifted(Task)
      lifted == Lifted(unbanned)
      made == {b \in Missing : b[2] \in banned}
      unseenLifted == {b \in toLift \ lifted : b[2] \in unbanApplied}
      unseenMade == {b \in Missing \ made : b[2] \in banApplied}
  IN /\ kind = "BitComet"
     /\ unbanned \subseteq TasksIn(toLift) /\ unbanApplied \subseteq TasksIn(toLift) \ unbanned
     /\ banned \subseteq TasksIn(Missing) /\ banApplied \subseteq TasksIn(Missing) \ banned
     /\ bannedTaskIPs' = (bannedTaskIPs \ lifted) \cup made
     /\ enforced' = (enforced \ (lifted \cup unseenLifted)) \cup made \cup unseenMade
     /\ unsure' = (unsure \ (lifted \cup made)) \cup unseenLifted \cup unseenMade
     /\ outcome' = IF lifted = toLift /\ made = Missing THEN "succeeded" ELSE "failed"
     /\ UNCHANGED <<kind, shadow, list, tasksOf, banCache, ipfilter>>

-----------------------------------------------------------------------------
(* Transmission.                                                           *)

\* submitBlockPeer publishes the list and asks the client to download it.  The
\* result of the request is not looked at: what the client enforces is unsure.
SubmitBlocklist(downloaded) ==
  /\ kind = "Transmission"
  /\ ipfilter' = list
  /\ enforced' = IF downloaded THEN list \X Task ELSE enforced
  /\ unsure' = IF downloaded THEN {} ELSE Ban
  /\ outcome' = "succeeded"
  /\ UNCHANGED <<kind, shadow, list, tasksOf, banCache, bannedTaskIPs>>

\* Transmission downloads the list by itself.
Download ==
  /\ kind = "Transmission"
  /\ enforced' = ipfilter \X Task
  /\ outcome' = "none"
  /\ UNCHANGED <<kind, shadow, list, tasksOf, records, unsure>>

-----------------------------------------------------------------------------
\* DetectClient makes a new driver, which remembers nothing.
NewDriver ==
  /\ banCache' = NotSubmitted
  /\ bannedTaskIPs' = {}
  /\ ipfilter' = {}
  /\ outcome' = "none"
  /\ unsure' = IF kind = "BitComet" THEN enforced ELSE {}
  /\ UNCHANGED <<kind, shadow, list, tasksOf, enforced>>

\* The client restarts and may have lost its list.
ClientRestarts(lost) ==
  /\ enforced' = IF lost THEN {} ELSE enforced
  /\ unsure' = unsure \cup (enforced \ enforced')
  /\ outcome' = "none"
  /\ UNCHANGED <<kind, shadow, list, tasksOf, records>>

-----------------------------------------------------------------------------
(* Properties.                                                             *)

(***************************************************************************)
(* When a submission reports success, the client enforces the ban list,    *)
(* except where a request took effect although its answer was lost, the    *)
(* client lost its list unnoticed, another instance of the program made    *)
(* BitComet's ban, or Transmission did not download the list: whichever    *)
(* requests failed or were skipped because nothing seemed to have changed. *)
(***************************************************************************)
ExactWhereAnswered ==
  outcome = "succeeded" /\ ~shadow =>
    Must \ enforced \subseteq unsure /\ enforced \ May \subseteq unsure

(***************************************************************************)
(* internal/app/console.go:31 says of the submission "提交失败时保留期望   *)
(* 名单, 成功后才清除待同步状态": a failed submission stays to be made     *)
(* until one succeeds.  A submission that reports success therefore leaves *)
(* the client enforcing the list.                                          *)
(***************************************************************************)
SuccessMeansEnforced ==
  outcome = "succeeded" /\ ~shadow => Must \subseteq enforced /\ enforced \subseteq May
=============================================================================
