# A TLA+ model of qBittorrent-ClientBlocker

qBittorrent-ClientBlocker watches the peers of a BitTorrent client, decides which
of them are leeching or otherwise unwanted, and makes the client ban them. It is a
single Go process: one main loop that scans the client every few seconds, a handful
of goroutines that download rules, and an HTTP server for its WebUI.

This directory models that program in TLA+, checks the models with TLC on small
instances and proves the most important invariants with TLAPS for every instance.
Every definition is translated from the code under `src/`; the `map` in
`PROJECT.json` names the lines of each one. The BitTorrent clients, the servers that
rules come from, the pollers of the WebUI and the disk are external: they are
modelled from how the code uses them.

Contents: 1 the system; 2 the modules; 3 the runs; 4 fairness; 5 the proofs;
6 disagreements found; 7 limits of the models; 8 observations; 9 roadmap;
10 running everything.

## 1. The system

### 1.1 Components

| Component | State it keeps | Operations | Model |
|---|---|---|---|
| Ban list, `app/peer.go` | `blockPeerMap` (banned IP -> entry), `blockCIDRMap` (subnet -> members), `lastCleanTimestamp` | `AddBlockPeer`, `AddBlockCIDR`, `IsBlockedPeer` (refreshes), `ClearBlockPeer`, `IsMatchCIDR` | `BanList`, `BanLease` |
| Main loop, `app/console.go`, `app/config.go` | configuration, `lastURL`, `currentClient`, `blockPeerSubmission` | `LoadInitConfig`, `Task`, `RetryBlockPeerSubmission`, `ReqStop`, `Stop` | `ScanTask` |
| WebUI ban feed, `webui/webui.go` | epoch, cursor, ring of events | `WebUI_RecordBlockPeerAdded/Removed`, `GetWebUIBlockPeerSync`, `ResetWebUIPeerSync` | `BanFeed`, `WebUI` |
| WebUI bans and logs, `webui/webui_bans.go`, `webui_logs.go` | the snapshot that pages are cut from, the ring of log entries | `WebUI_GetBans`, `AppendWebUILog`, `WebUI_GetStructuredLogs` | `BanPages`, `LogPages`, `WebUI` |
| Traffic statistics, `stats/*.go` | per connection, torrent and IP: counters, baselines, last seen; the last check's snapshot; the counters kept in a ban | `AddIPInfo`, `CheckAllIP`, `CleanHistory`, `UpdateBlockedPeerTraffic`, `AddTorrentInfo`, `CheckAllTorrent` | `TrafficCounter`, `PeerTraffic`, `IPTraffic`, `TorrentTraffic`, `Statistics` |
| Rule store, `app/rules/*.go`, `app/rules_wiring.go` | `Store.sources`, the compiled lists, `remoteRuleEntries`, `fileLastMod`, `ruleGeneration`, a cache directory | `SetBlockListFromContent/File/URL`, `Reset`, `RestoreRuleCaches` | `RuleStore` |
| BTN, `app/BTN.go` | `btnConfig`, `btnRules`, `btnExceptions`, timestamps | `BTN_GetConfig`, `BTN_Task` and the abilities | `Btn` |
| Client drivers, `client/*/client.go`, `app/client.go`, `app/request.go` | qBittorrent: `peerRID`, `peerCache`, `banCache`; BitComet: `bannedTaskIPs`; Transmission: the published blocklist | `Login`, `FetchTorrents`, `FetchTorrentPeers`, `SubmitBlockPeer`; `Detect`, `SetURL`, `TestShadowBanAPI` | `QbPeerSync`, `ClientBans`, `ClientDriver`; `Connection` |
| Configuration files, `app/config.go` | `config`, `configLastMod` | `LoadConfig`, `LoadInitConfig` | `ConfigFiles`, `Connection` |
| Sync server, `app/SyncServer.go` | `syncServer_CompiledRules`, `syncServer_lastSync`, its interval, `syncServer_isSubmiting` | `SyncWithServer`, `SyncWithServer_Submit` | `SyncServer` |
| HTTP server, `app/server.go` | `Server_Status`, `Server_Listeners` | `StartServer`, `StopServer` | `HttpServer` |
| Start and stop, `main.go`, `app/run.go`, `app/console.go` | the request context, `reqStopChan`, the loop's goroutine | `PrepareEnv`, `RunConsole`, `ReqStop`, `Stop` | `Program` |
| WebUI health, logging, languages, platform, proxy, release check | none that the others depend on | | not modelled (section 7) |

### 1.2 How they interact

```
  configuration files ---> LoadInitConfig ---> InitConfig: rebuilds rules, resets the feed,
                               |                           drops BTN state, new generation
  ticker ---> main loop: Task -+-> driver.FetchTorrents / FetchTorrentPeers <--> client
                               |-> ClearBlockPeer
                               |-> ProcessPeer -> CheckPeer (rules, BTN, sync, CIDR, progress)
                               |        +-> AddBlockPeer / IsBlockedPeer    +-> statistics
                               |-> CheckAllIP, CheckAllTorrent --(Block callback)--> AddBlockPeer
                               |-> record events --> WebUI feed <--- HTTP handlers (pollers)
                               +-> RetryBlockPeerSubmission -> driver.SubmitBlockPeer --> client
  goroutines started by the scans: downloads of rule URLs, BTN_GetConfig, BTN_Task, sync
```

The ban list is shared between the main loop (writer) and HTTP handlers (readers). The
rule store and the BTN state are shared between the main loop and the download
goroutines; a reload increments `ruleGeneration`, and whoever started before it has to
notice. The statistics and the drivers' caches belong to the main loop alone.

### 1.3 What is hard, and what makes each part correct

* **Ban list.** A subnet's entry lends its lease to all its members, masks are reloaded
  while entries of the old mask live, and a clean-up walks two Go maps, whose order is
  random. Correct: an entry of a subnet names only banned peers; a clean-up leaves no
  expired ban, in whatever order it went; nothing renews a ban but seeing the peer or banning
  another in its subnet.
* **Main loop.** Requests fail at any point, submissions partly; the client restarts; the
  user edits the URL; a stop may come in the middle of a scan. Correct: between scans,
  "nothing pending" means that the client enforces exactly the list; a pending list
  arrives; expired bans are lifted; scanning resumes.
* **Feed.** The list changes under one lock and its event is recorded later under another;
  the ring forgets; epochs begin anew. Correct: a poller's copy is right wherever the feed
  has nothing more to say, and in the end everywhere.
* **Statistics.** Counters restart with every connection, may be missing from a report,
  belong to another peer at the same endpoint, are trimmed and handed over between a
  history and a ban. Correct: what is compared with a limit was sent within the window, no
  byte is counted twice, none is lost.
* **Rules.** Lists share rules, downloads overlap reloads, "304 Not Modified" must confirm
  rules that are there, files are skipped by modification time, the program may die between
  writing its cache and publishing. Correct: the rules in force are the union of what the
  sources hold, of the sources configured, as their servers have them.
* **BTN.** Two callers of `BTN_GetConfig`, a task that outlives a configuration, version
  numbers as validators, servers that are replaced. Correct: configuration and lists are of
  the server named, and arrive.
* **Starting and stopping.** The main goroutine loads the configuration until that works, the
  loop loads it again at every tick; both may start the HTTP server, and a stop or a panic may
  come at any point. Correct: a Task talks only to a client that was logged in to; every
  listener that is recorded is served; a stop ends the program.
* **Files.** Three files with their own modification times, broken or unreadable at times, set
  options on top of what is in force. Correct: a version that can be read is read in the end.
* **Sync server.** A goroutine takes the server's address after it was started and installs
  what it gets whatever the configuration says by then. Correct: in the end the rules are those
  of the server named, or none.
* **WebUI pages.** Pages of one list are asked for one after the other while the list changes,
  the shared snapshot is replaced and the log ring turns. Correct: the pages together show the
  list of one moment; a reader of the log misses nothing without being told.
* **Drivers.** Differences that build on an earlier answer, sessions that expire in the
  middle of a call, answers that are lost although the request took effect, submissions
  skipped because "nothing changed". Correct: the peers reported are those of the torrent;
  a submission that reports success left the client enforcing the list.

`PROJECT.json` lists the single hazards, each at its line, with the properties that would
catch it.

## 2. The modules

| Module | Models | State -> code |
|---|---|---|
| `BanLease` | abstract: what a ban list promises | for every peer banned, how long its ban lasts without being seen again |
| `BanList` | `peer.go`'s ban list | `blockPeer`, `blockCIDR`, `cleanAge`: the two maps and `lastCleanTimestamp`, every time kept as an age |
| `ScanTask` | EXTENDS `BanList` with the loop around it | `phase` is the point the loop is at, `submission` is `blockPeerSubmission`; `clientBans` (external) what each client enforces, taking a driver's success at its word |
| `QbPeerSync` | qBittorrent's `sync/torrentPeers` protocol and the driver's merge | `peerRID`, `peerCache`; `session` (external): the last answer and the last one the driver confirmed |
| `ClientBans` | the ways the three clients are made to ban | `banCache`, `bannedTaskIPs`, `ipfilter`; `enforced` (external); `unsure`: bans whose last request may have taken effect unseen |
| `ClientDriver` | composes the two: logins in the middle of a call, restarts | `Connect`, `LoginAgain`, `FetchTorrents`, `FetchTorrentPeers`, `Forbidden`, `SubmitBlockPeer` are the calls of `app/client.go` |
| `BanFeed` | the incremental feed and its pollers | `events`, `start`, `cursor`, `epoch` are the `webUIPeerSync*` variables; `todo`: changes made and not yet recorded |
| `BanPages` | EXTENDS `BanFeed` with the pages of `/api/v1/bans` and browsers that follow them | `snapshot` is `webUIBanSnapshot`; `browser`: query, cursor and the pages so far of `webui.html` or of another reader of the API |
| `LogPages` | `/api/v1/logs` and a reader | `ring` is `webUILogEntries`, `log` every entry ever written (a history whose length is `webUILogSequence`); `reader` (external) |
| `WebUI` | composes the three | `readers`: which kind of readers a behaviour has |
| `TrafficCounter` | `traffic_counter.go`: the growth of a counter over a baseline | pure operators |
| `PeerTraffic` | what both statistics share: the client's counters, the counters kept in a ban, trimming | `raw`, `peer`, `sent` (external), `banned` the counters of `blockPeerMap` |
| `IPTraffic` | EXTENDS `PeerTraffic` with `stats/ip.go` and its half of `stats/history.go` | `counters`, `torrents`, `ipAge`, `lastObserved` are `IPMap`'s levels and `LastIPMap`; `window`, `unrecorded` are histories |
| `TorrentTraffic` | EXTENDS `PeerTraffic` with `stats/torrent.go`, the other half of `stats/history.go`, and the two reports to BTN | `conns`, `peerUploaded` are `TorrentMap`'s levels, `lastConns` is `LastTorrentMap`; `seenPeer`, `checkedPeer` are histories: whom a record is about |
| `Statistics` | the store: one of the two statistics at a time, with the bans they share | `sampling` |
| `RuleStore` | `rules/*.go`, `rules_wiring.go` | `sources`, `compiled`, `entries`, `fileLastMod`, `generation`, `disk`, `fetch` (the download goroutine) |
| `ConfigFiles` | `LoadConfig` and the order of the files in `LoadInitConfig` | `disk` (external), `configLastMod`, `config`; `taken`: the version read to its end |
| `Connection` | EXTENDS `ConfigFiles` with `SetURLFromClient`, `DetectClient`, `Login`, the shadow-ban test of `LoadInitConfig`, and `Detect`, `Login`, `SetURL` of the drivers | `client` is `currentClient`, `lastURL`, `cancelled` the request context; `service`, `ini` (external) |
| `SyncServer` | EXTENDS `Connection` with the sync server | `syncRules`, `syncInterval`, `sinceSync`, `isSubmitting`; `submission`: the goroutine and the address it took |
| `HttpServer` | `StartServer`, called from two goroutines, and `StopServer` | `starter`: where each call is and which list it read; `listeners`, `serverStatus`; `bound`, `served` what the operating system and `httpServer` have |
| `Program` | composes the four with the main goroutine, the loop and `Stop` | `main` and `loop`: where the two goroutines are; `stopRequest` is `reqStopChan` closed; `exit` |
| `Btn` | `BTN.go` | `btnConfig`, `lists`, `getter[Loop]`, `getter[Task]` (two `BTN_GetConfig`), `task` |

`MCBanList`, `MCScanTask`, `MCClientDriver`, `MCWebUI`, `MCStatistics`, `MCRuleStore`, `MCBtn`
and `MCProgram` give the constants their small values. `BanListProofs`, `ScanTaskProofs`,
`ClientDriverProofs`, `WebUIProofs`, `StatisticsProofs`, `RuleStoreProofs`, `BtnProofs` and
`ProgramProofs` hold the theorems.

An action stands for a stretch of code that nothing else can observe from inside: a
critical section, or a stretch of the main loop that touches only state of its own.
Requests are split where another actor can come in between: a download is asked for,
answered and accepted in three actions; a change of the ban list and the recording of its
event are two; a goroutine that waits for a lock is at the action before.

Definitions named `X_Something` with a comment "Mutant:" are not used by any
specification. Each is `X` with a plausible mistake in it, kept to show that a property
notices the mistake.

Compositions: `ScanTask` contains `BanList` and is proved to refine `BanSpec`; `BanList`
implements `BanLease` through `INSTANCE`, which is checked and proved; `ClientDriver` contains
`QbPeerSync` and `ClientBans`; `IPTraffic` and `TorrentTraffic` are built from `PeerTraffic` and
`TrafficCounter`, and `Statistics` shows either over the same bans; `WebUI` runs the feed and the
pages over one list and one epoch; `Program` runs files, detection, sync server and HTTP server
under the two goroutines that use them.

`ScanTask` and `Program` both contain the loop, at different depths. In `ScanTask` a scan is
taken apart and loading a configuration is one step with a result; in `Program` it is the other
way round. What the two agree on is `LoadInitConfig`'s early returns and when a Task may run.

## 3. The runs

Every variable that could grow is bounded by a constant that a guard names.

| Run | States | Question and properties | Instance, and why it is enough |
|---|---|---|---|
| `BanList_leases` | 29 000 | The operations in any order. `SubnetsBanned`: a subnet's members are banned. `ClearComplete`: after a clean-up no ban is expired. `LeasesKept`: it implements `BanLease`. | Three peers, a narrow subnet inside a wide one, two masks, ban times 1 and 2, `MaxAge` 3 (above every limit). Two members of a subnet, one of another and a mask change are what chains of renewals need. |
| `ScanTask` | 212 000 | `ClientUpToDate`, `BackoffBelongsToPending`; liveness `SubmissionDelivered`, `ExpiredBansLifted`. | Two peers, one client that the user may also remove from the configuration, two ban configurations, delays 1 and 2: a delay that grows and one that is capped. |
| `ScanTask_reload` | violation | `ScanningResumes` with two clients, one of each kind. | Section 6. |
| `WebUI` | 375 000 | `CopyRightWhereSilent`, `BansPages`, `LogsPages`, liveness `CopyCatchesUp`. | Two peers that show one of two things, a ring of two events and four events (two after a reset), so that the ring wraps twice; two epochs; one poller (pollers do not interact). One browser with two queries, pages of one entry and three snapshots, any of which others may renew. A log ring of three and six entries of two levels, pages of two, a restart. |
| `Statistics` | 627 000 | `WindowCountsSentOnly`, `CountedOnce`, `SnapshotFollows`, `OnePeerCompared`. | By IP: two endpoints in two torrents, or one at which two identified peers alternate and whose counter may be missing. By torrent: such an endpoint, two endpoints in one torrent, or two in two torrents. History for one entry, so that trimming chooses; a retention of one second and pauses of one, two of which exceed it; up to two bytes a connection. |
| `Program` | 67 000 | `RegisteredServed`, `ReadyForTask`; liveness `FilesRead`, `SyncFollows`, `StopCompletes`. | Four scenes, each of which varies one concern: the three files with every state a file can be in and three versions each; two sync servers or none; a Transmission client and the WebUI, switched off, on an address of its own or on Transmission's; a first start from `qBittorrent.ini` with delays, failing loads, panics and stops. |
| `IPTraffic_banned` | violation | `BannedTrafficObserved`. | Section 6. |
| `RuleStore` | 665 000 | `RulesOwned`, `SubscribedOnly`, `RemembersRightly`; steps `AcceptsWhatIsServed`, `GoodRulesKept`; liveness `ListsArrive`. | Two URLs (one sends validators) and a file that share rules, a rule that does not compile, a version of the file that cannot be opened, two configurations, with and without a cache directory; one reload, restart, edit and failure each. |
| `Btn` | 459 000 | `ListsFollowConfig`; steps `AcceptedIsServed`; liveness `ListsArrive`. | Two servers or none, one of which names every ability and may stop speaking the protocol, or change its list and name that alone; the other names no list; one kind of list and `reconfigure`; one reload, one trouble. |
| `Btn_servers` | violation | `SyncedWithTheServer`. | Section 6. |
| `ClientDriver` | 259 000 | `PeersAreCurrent`, `CursorHasCache`, `ExactWhereAnswered`. | Each kind of client, two addresses, two torrents that share a peer, up to three answers in a session: one full, one that builds on it, one that builds on a difference; answers lost or asked for twice, sessions that end, restarts that lose the list. |
| `ClientDriver_answers` | violation | `SuccessMeansEnforced`. | Section 6. |

Each run also checks its module's type invariant. Symmetry is used only where no liveness
property is checked: the two peers of `BanList_leases` that both masks treat alike, and
addresses and tasks of `ClientDriver`. (`LeasesKept` and `ClearComplete` are properties of
steps and do not tell the two peers apart.)

Deadlock is checked everywhere except in `WebUI`, where the WebUI may be disabled when
the bound on epochs is reached.

What the properties say, in the order in which one would rely on them:

* `LeasesKept` says that the two maps together behave as one lease per peer: it begins anew
  when the peer is seen, or when another peer is banned in a subnet both were banned under;
  nothing else shortens or prolongs it; and a clean-up lifts exactly the bans whose lease has
  run out.
* `ClientUpToDate` ties the loop's flag to the client: no pending submission means that the
  client enforces the list, whatever failed, was lost in a restart or was left there by an
  earlier client.
* `ExactWhereAnswered` opens the box that `ClientUpToDate` keeps closed: when the driver
  says "done", the client enforces the list except for bans that some lost answer, unnoticed
  restart or earlier instance has made unsure. The set `unsure` is a history variable that
  the driver cannot see; for qBittorrent it is emptied by every answered submission, so the
  exception lasts as long as the doubt does.
* `CopyRightWhereSilent` relates three things: the poller's copy, the events it has not
  seen, and the changes the main loop has not recorded yet. It fails when an event leaves
  the ring unnoticed, when a cursor of a former epoch is taken for a present one, and when a
  change and its event get out of order.
* `WindowCountsSentOnly` bounds what a ban for "too high upload" rests on by what was sent
  between the reports of the window; `CountedOnce` says that baselines and totals move in step,
  in both statistics, in the bans they make and in what BTN is told.
* `SnapshotFollows` and `OnePeerCompared` are about the comparison of two reports that a ban for
  "relative progress" rests on: the earlier one is of a connection still recorded, of the same
  session, and of the same peer.
* `BansPages` and `LogsPages` compare all that a reader was given, answer by answer, with the
  list at the moment its first page was cut and with the log since it last started over.
* `ReadyForTask` ties the address in the configuration, which files, detection and the lack of an
  address change at different points, to the one last logged in to, whenever a Task runs.
* `FilesRead` says that no version of a file is taken for read that was not, in whatever order
  files break and recover; `SyncFollows` that late answers of a former sync server do not stay;
  `StopCompletes` that a stop gets through from every state of the two goroutines.
* `AcceptsWhatIsServed` says of every accepted download, 304 included, that the rules in
  force become those the server had when it answered; `GoodRulesKept` that failure and reload
  never drop rules that were there.
* `RemembersRightly` says that whatever is remembered to save work, a validator or a
  modification time, stands for rules that are in force.
* `ListsFollowConfig` says that the BTN configuration is of the server named, and that a list
  enters into force only under a configuration of its own server.

## 4. Fairness

Liveness is checked only under fairness that the code's own scheduling gives.

* `ScanTask`: weak fairness of every step of the loop, since each request has a timeout and
  the ticker keeps ticking; strong fairness of connecting, fetching and submitting, that is,
  a client that is asked again and again answers at last. Nothing is assumed of the user.
  Without the latter no list can be promised to arrive.
* `WebUI`: weak fairness of recording, `InitConfig` and the poller's asking; strong
  fairness of answering and receiving: not every answer is lost.
* `Program`: weak fairness of each goroutine. Strong fairness of two steps: `select` picks at
  random among what is ready, so the loop between a tick and `stopChan` takes either in the end;
  and the sync server answers every so often. `FilesRead` assumes that the loop goes on loading,
  `SyncFollows` that Tasks go on reaching their end, that is, that the client answers: both are
  stated in the property as `[]<><<...>>_vars`.
* `RuleStore`: weak fairness of the loop, of the download goroutine and of time. Failures
  are bounded, so a server answers in the end.
* `Btn`: the same, and strong fairness of starting the task and of asking for a list. A turn
  that overlaps the download of a configuration is lost for a whole interval
  (`BTN.go:714`), and nothing in the code prevents every turn from being lost so; `ListsArrive`
  therefore assumes `<>[][~TurnLost]_vars`.

Liveness properties that speak of `stopping` hold trivially once the program is asked to
stop; they are about the program that runs.

## 5. The proofs

The theorems hold for every value of the constants that satisfies the named assumptions of
the modules: every set of peers, subnets, masks, ban times, URLs, rules, clients and pauses.
The assumptions say what a type in Go or a check of the configuration says (a ban time is a
number below the age at which ages stop growing, `NoNet` is not a subnet, a file version has
its own modification time), and TLC evaluates them in every run. Three were added for proofs and
say no more than that: `EndpointsAssumption` (a client has finitely many connections, and either
reports the IDs of the peers at an endpoint or does not), `PagesAssumption` (finitely many
addresses, at least one query) and `SceneAssumption` (the values that files give to options have
the options' types).

Every invariant and every property of steps that a run checks is the statement of a theorem;
what TLC alone checks is liveness (below). Each invariant that carries a proof was checked by TLC
on the run's instance first.

**Ban list** (`BanListProofs`). `MapsAgree`: `BanTypeOK /\ SubnetsBanned` is inductive as it
stands; the work is `ClearBlockPeer`, where members of a swept subnet must leave with it.
`ClearIsComplete` is a property of steps and follows from it: whatever is still banned after
a clean-up has a lease from its own entry or its subnet's that has not run out.
`BansAreLeases` is the refinement `BanSpec => LeasesKept`. A lease is the least of a set of ages
(`MinExists`, from the well-foundedness of the naturals), and each operation is followed through
that set: time maps it (`TimePasses`); a ban puts 0 into the sets of the subnet's members and into
no other (`AddBlockCIDREnters`, `BanAddsLease`, for two subnets, which covers the callback of the
statistics); a clean-up drops the bans whose set has no age below the ban time, and a renewal
replaces an expired age by one the set already had (`ClearLifts`), which is why the order in which
Go walks the map cannot matter.

**Main loop** (`ScanTaskProofs`). `LoopImplementsBanList`: every step of the loop is an
operation of the ban list or leaves it alone, so `Spec => BanSpec` and the theorems above hold
of the program, `LoopKeepsLeases` among them. `TypesKept`; `BackoffIsPending`, whose invariant is inductive;
`ClientIsUpToDate`, which is not: in the middle of a scan the list has changed and nothing is
pending yet. `SyncInv` is the strengthening: the client is up to date or a submission is
pending, or the scan is between its first change and its end and `changed` is set. A stop in
the middle of a scan, which drops `changed`, is why the property is only claimed while the
program is not stopping. The theorem holds for any number of clients.

**Drivers** (`ClientDriverProofs`). `PeersGivenAreCurrent` needs `CopyInv`: if the copy is in
use and the session has answered, the number the driver sends is the session's last and the
copy is what the session answered then. From it an answer, also one to a repeated request,
builds on the driver's copy or is full (`AnsweredParts`), and merging such an answer gives
the torrent's peers (`MergeRestores`, from `OverlayRestores` and `UnchangedPeers`: laying the
changed fields over what was gives what is). `NeverMergesIntoNothing` follows.
`SuccessIsExactWhereAnswered` needs `RecordInv`: what the driver remembers and what the client
enforces differ only where it is unsure. It has one step per action; the longest is
`SubmitTasks`, BitComet's requests per task, any of which may be lost. No bound on the answers
of a session enters, nor on the numbers of addresses and torrents.

**Feed and pages** (`WebUIProofs`), from three invariants.

* `FeedInv` is for `CopiesFollow`. `RingInv`: the ring holds the events of consecutive cursors up
  to the feed's, laid out from `start` (`RingOK`), and the newest event about an address shows what
  the list has for it, unless a change of it waits to be recorded (`NewestOK`). `PollersInv`: a copy
  whose cursor the ring still reaches is right except about addresses named by later events or
  pending changes (`Right`), and so will it be once an answer under way is applied (`PollerOK`), which
  is what makes lost and late answers harmless. A copy of an earlier epoch, or one that the ring has
  left behind, is promised nothing: the next answer to it is full. While the WebUI is disabled the loop
  records nothing, so `NewestOK` is claimed only while events are recorded (`Live`); enabling it
  begins an epoch, and then no copy is of that epoch.
* `PagesInv` is for `BansPaged`: what a browser has is a prefix of the list that its first page was
  cut from, and as long as the shared snapshot is the one its cursor names, that list is what the
  snapshot gives for the cursor's query (`BrowserOK`). `ListedInOrder` says what a list is: that
  exactly one sequence of a finite set follows a strict total order, and that it exists
  (`Listed` picks it, where the code sorts).
* `LogInv` is for `LogsFollowed`: every entry younger than the ring is at its place in it
  (`InPlace`), and a reader's cursor is within the log of its epoch (`ReaderInv`).

`Types` follows from the three.

**Statistics** (`StatisticsProofs`), from one invariant, `StatisticsInv`. Its heart is a ledger: for
every address, what is *paid* (the totals recorded for it) and what is *owed* (what the next reports
of its connections would add, each over the baseline that they will find) are together at most what
was sent to it. A send increases what is owed and what was sent alike; a report moves an
amount from owed to paid; pruning, trimming and a change of the peer only lower what is owed;
a new ban takes over the totals paid and the baselines they rest on, so what it owes is what the
statistics owed (`BanOK`). Beside the ledger stand `Covers` (the baselines and totals of a torrent's connections are
within the torrent's total; `ReportKeepsCovered` is the step of it), `Tracked` (a baseline carries on
from what the history says was sent since), the bound of what has grown since the last check by
what was sent in the window (`GrownBy`), and, for the comparison of two reports, whom a record is
about (`ConnOK`) and that the later one goes on where the earlier one ended (`Continues`). The one
case the ledger does not close is that of section 6, and it shows in `BanOK` as the term `Portless`;
`BansOfConns` says that the statistics by torrent never get into it.

Sums are folds over sets of connections and torrents, and an induction over those is out of the
provers' reach as such. `TotalIs` gets around it once: a fold of numbers is the cardinality of a
set of blocks, as many on each key as its number, since a least set of keys for which it is not
cannot exist (`LeastExists`, `SumUnique`). The other laws (`TotalWithin`, `TotalGrows`,
`TotalOfSums`, `TotalSplits`, `TotalByGroup`) follow from those of cardinality in the library.
The theorems are `StatisticsTypes`, `WindowIsSent`, `NothingCountedTwice`, `SnapshotIsEarlier`
and `ComparesOnePeer`.

**Rule store** (`RuleStoreProofs`). `RuleInv` joins the types, `RulesOwned`, `SubscribedOnly`,
`RemembersRightly`'s first half and three things that are not visible from outside: `FetchInv` (a download
of the present generation asks only for URLs subscribed to, and the answer it would confirm is
the entry it started from, since nobody else accepts answers in between), `EntriesCompile` (what
is remembered compiles, so that restoring it never fails) and `StampInv` (a remembered
modification time stands for that version's rules, whether or not the file is still that
version). The theorems follow: `StoreIsUnionOfSources`, `RemovedStaysRemoved`, `MemoryIsRight`,
and for steps `AcceptedIsServed` and `RulesSurviveReloads`.

**BTN** (`BtnProofs`). `BtnInv` joins the types and `ConfigOfTheServer` with `AskInv` (between
request and answer the version sent along is that of the list in force, as long as the
configuration asked with is: only the task installs lists, and a configuration that is dropped
and downloaded again has a new address, `NewAddressIsNew`), `AnswerInv` (what an answer may be),
`CallInv` (the task waits for the download it calls for, so nothing else of it moves) and `UrlInv`.
`ListsOfTheServer` and `AcceptedList` follow for the steps, the latter since only `AcceptList`
ends the wait for an answer (`AnswerEnds`). No assumption is made about the number of reloads or
the servers.

**Program** (`ProgramProofs`). `RecordedListenersServed`: a call of `StartServer` that is not over
stands for every listener not yet served, and the one that ends last serves the whole list.
`TasksAreReady`: the loop runs only while the main goroutine waits (`OneLoader`), so nobody else
loads the configuration during a Task; whichever files were read, `LoadInitConfig` succeeds only
with the address of the driver, and with shadow bans only after the client has shown them
(`LoadedForTask`). `Types` has an invariant of its own, `TypeInv`: the options keep the types that
files give them through overlays, detection and corrections of the address (`LoadTypes`), and a
call of `StartServer` knows of no listener that is not bound (`CallBound`), which is what keeps
`listeners` within `bound` although a call writes back a list it read earlier; only `Stop`
unbinds, and no call goes on after it.

**Only model-checked.** Liveness (`SubmissionDelivered`, `ExpiredBansLifted`, `CopyCatchesUp`,
both `ListsArrive`, `FilesRead`, `SyncFollows`, `StopCompletes`): the prover does not reason about
ENABLED, so not about fairness. The four runs of section 6 end in counterexamples, so there is
nothing to prove of their properties.

## 6. Disagreements between the code and what is said of it

Each is the counterexample of one run, and each run's other circumstances are kept as small as
possible.

1. **`ScanTask_reload`**, `config.go:443`. The user edits the client's URL from A to B; B is
   found and its login fails; the user edits the URL back to A. `lastURL` still equals A, so
   nothing is detected again and the driver of B stays: every fetch fails for good, although
   A is reachable. README.md:9 promises hot reload of the configuration.
2. **`IPTraffic_banned`**, `peer.go:458`. A ban by a rule on the IP is filed under port -1.
   The next scan sees the peer on its real port, finds no baseline there and adds the whole
   counter once more. `peer.go:208` says that only observed traffic is added.
3. **`Btn_servers`**, `config.go:374`. A server that changed its protocol leaves `btnConfig` nil
   and its lists in place; when the user then names another server, the lists are not dropped
   because the test begins with `btnConfig != nil`, and come into force with the new server's
   configuration. README.en.md:186 says that the lists are synced from the server.
4. **`ClientDriver_answers`**, `qbittorrent/client.go:168`. A submission is applied by qBittorrent
   and its answer is lost; the list returns to the one remembered; the next submission finds
   "nothing changed" and reports success without a request. `console.go:31` says that the pending
   state is cleared only after success. With `Kinds = {"Transmission"}` the same property fails at
   the first submission, whose result is not looked at (`transmission/client.go:244`).

## 7. Limits of the models

* `ScanTask` takes a driver's success to mean that the client enforces the list;
  `ClientDriver` says when that is so. Its `Sample` abstracts what is seen of a peer to what
  `CheckPeer` decides by, in its order.
* Ages instead of timestamps: the code only compares a timestamp with the present, so entries
  of an age at or above `MaxAge` behave alike. Clocks that go backwards are not modelled.
* `banPort` and the ports of bans are left out of `BanList` (`IsBanPort` is never true, nothing
  sets `qB_useNewBanPeersMethod`), and stay in `IPTraffic`, where they matter.
* `Statistics`: uploads only (downloads go the same way); the statistics of addresses and those of
  torrents each run over the bans, but not side by side in one behaviour. Two assumptions about
  clients are stated in `PeerTraffic`: a connection not recorded for longer than the retention is
  over, and a client that reports peer IDs reports them with every report of a connection that has
  carried data. The 60 seconds between two clean-ups of the history are any time; the retention
  is a constant of a run and positive; which of equally old records is trimmed is arbitrary.
* `RuleStore` describes one of the two lists (`IPList` chooses the test of modification times);
  a validator identifies a body; what a rule matches is not modelled; each version of a file
  has its own modification time, although a clock's granularity may be coarser than that.
  `UpdatedAt` is left out. The run has one file, so that a file which cannot be opened ends a pass
  before another one is only in the proofs, where the order and number of files are arbitrary. A crash between the write of the cache and the publication is part of
  `Restart`.
* `Btn` leaves out the abilities that only report. Of the two servers of the run one names no list,
  so that lists of the other are what may outlive it; in the proofs any server names anything. A list's version identifies its content;
  intervals and initial delays are flags that time sets.
* `QbPeerSync`: the 300 seconds after which a full answer is asked for are a choice (`overdue`).
  A request that Go's transport repeats after a lost connection is `repeated`.
* `ClientBans`: a submission is atomic with respect to the rest of the program, since only the
  main loop calls it, and not with respect to its outcome: any subset of BitComet's requests
  may be lost. `banPeers`, which nothing enables, is left out, and so is version 1 of BitComet's
  pages, which cannot ban.
* `ConfigFiles` keeps the options that another module needs; a version of a file written in the
  second of the version before it is left out. `Connection` asks each driver once per load; an
  `InitClient` that overlaps the goroutine of an earlier one is not modelled (`InitClient` waits). A
  `clientType` that names no driver, under which `DetectClient` keeps the driver of before
  (`client.go:112`), is left out.
* `HttpServer` stops at accepting connections: requests are in the modules of their handlers.
  Two spellings of one address count as two, as in the code's own comparison. `SyncServer` leaves
  out what is reported to the server, and a panic in the goroutine that submits (section 8). What `Stop` submits and deletes at the end
  is in `ScanTask`, not in `Program`.
* `BanPages` and `LogPages`: a page is a sequence of entries and a cursor a number; parsing of
  queries, encoding of cursors and sorting by other keys than the code's are not modelled. Going back
  to an earlier page, or refreshing one, asks again for a page that was already answered and is left
  out; a browser keeps the answer of each page.
* `RuleStore`'s run uses expressions (`IPList = FALSE`); the address lists' test of modification
  times (`NewerAddressFile`) is there for `IPList = TRUE`, which the theorems cover as well.
* Not modelled at all: what a rule matches (`CheckPeer`'s patterns, `BTN_CheckPeer`), the health
  page (display only), cookies, tokens and proxies of single requests, the conversion of the
  clients' torrents, logging, languages, platform code, the tray icon, the release check.

## 8. Observations

Behaviour met while modelling that contradicts no statement of the repository, and that a
maintainer may want to know:

* After a connection with an empty ban list nothing is submitted, so a client that is switched
  back to keeps the bans of an earlier run (`confirmed` in `ClientUpToDate`).
* `Stop` submits nil, which is a no-op that reports success: bans stay in the client.
* An unreachable client ends every scan before `ClearBlockPeer`: no ban expires meanwhile.
* A refreshed timestamp records no event: timestamps in a poller's copy grow stale.
* A poller that omits the epoch may take a cursor of a former epoch for a present one; the
  modelled pollers follow the protocol.
* A reload resets the health page, which then shows nothing pending until the next scan ends.
* An address file replaced by one with an older modification time is never read again
  (`<=` at `rules_wiring.go:275`); an expression file is (`!=`).
* A failed download is tried again only after `UpdateInterval`; rule files and URLs are looked
  at only in scans that get past the connection to the client.
* qBittorrent's driver takes 204 for failure when submitting, although login accepts it; shadow
  bans are never taken back; the address of a banned peer that shows up in a further BitComet
  task is not banned there until the list changes; BitComet's bans of an earlier run of the
  program are never lifted.
* `btn_lastTaskExecution` is not reset when another BTN server is named; a caller that started
  before a reload may use up the minute between two downloads of the configuration, so the new
  server's is fetched a minute later.
* Configuration files: editing only the main file undoes the overrides of the additional file until
  that one is touched; an option removed from a file keeps its value; a second edit within one
  second, and a file replaced by one with an older modification time, are not read; a mistyped
  additional file is applied up to the mistake when the main file is read at the same time.
* Detection: the address of a client given without "/api" is detected anew whenever its
  file is touched. Transmission with a password is found only if `clientType` names it. One failed
  test of the shadow-ban API switches shadow bans off until a file asks for them again.
* A stop request before `RunConsole` publishes its context is not noticed while the first load keeps
  failing with `ignoreFailureExit`; `execCommand_Run` blocks the main goroutine before the loop.
* Two calls of `StartServer` that overlap may lose a listener from `Server_Listeners`: it is bound,
  and neither served nor closed. A WebUI that is already served keeps Transmission's `listen` from
  being opened after a switch to Transmission.
* The sync server's goroutine may send the former server's token to a new address; an answer in
  flight installs rules that the next Task clears or replaces; the former server's rules stay while
  a new one fails; a panic in the goroutine leaves `syncServer_isSubmiting` set for good.
* A handler of the pages of bans that began before a reset may renew the snapshot once more, which
  costs readers another start from the first page.
* `BTN_SubmitBans` reports an address's whole traffic once for every port of its ban.

## 9. Roadmap

Order of the work, the most important behaviour first. Done: the ban list and the main loop,
which every other part feeds or reads; the drivers, on whose success the loop relies; the rule
store and BTN, where goroutines and reloads race; the feed and the pages; both statistics; the
configuration files, detection, the sync server and the HTTP server, under the program's two
goroutines.

Next modules:

1. `CheckPeer` and `BTN_CheckPeer` as pure operators against a table of their rules.
2. Transmission's CSRF token, renewed in the middle of a call, beside the login of qBittorrent in
   `ClientDriver`.
3. A second instance of `RuleStore` with `IPList = TRUE`, for restored backups of address files.
4. An `InitClient` that overlaps the goroutine of an earlier one (`HttpServer` with any number of
   calls).

Next proofs:

1. The safety half of the liveness properties: that a submission once pending stays pending until
   the client has the list, that an unread version of a file stays unread until it is read.
2. `ScanTask`'s reload and `Program`'s `LoadInitConfig` as one: that `Program` refines the phases of
   `ScanTask`'s loop.
3. The modules of the list above, each with the invariant of its run.

## 10. Running everything

In this directory, with the community modules on the library path:

    tlc -config ScanTask.cfg MCScanTask        # and likewise the other configurations
    tlapm BanListProofs.tla                    # and the other *Proofs modules

`PROJECT.json` lists the runs with their modules and configurations. No run needs more than three
minutes with two workers. The runs marked "violation" end with the counterexample of section 6;
all the others must end without an error.
