--------------------------- MODULE ProgramProofs ---------------------------
(***************************************************************************)
(* Proofs about the program as a whole, for every scene: every sequence of *)
(* edits, clients, sync servers, busy addresses and stop requests.         *)
(***************************************************************************)
EXTENDS Program, TLAPS, SequenceTheorems

\* The loop's goroutine runs only while the main one waits for it, so only one of
\* them loads the configuration.
OneLoader == loop \in {"idle", "load", "task"} => main \in {"wait", "join"}

\* Every option has a value, and there are two calls of StartServer.
CallsOK == /\ DOMAIN starter = Starter
           /\ \A s \in Starter : DOMAIN starter[s] = {"at", "addrs", "read"}
Shape == DOMAIN config = DOMAIN Defaults /\ CallsOK

ProgramInv == OneLoader /\ Shape /\ RegisteredServed /\ ReadyForTask
-----------------------------------------------------------------------------
(* Loading.                                                                *)

\* Starting a call of StartServer does no harm.
LEMMA StartKeeps ==
  ASSUME CallsOK, RegisteredServed, NEW s \in Starter, NEW transmission, NEW webUI,
         starter' = [starter EXCEPT ![s] = Starts(s, transmission, webUI)],
         UNCHANGED <<listeners, served, shut>>
  PROVE  CallsOK' /\ RegisteredServed'
<1> DEFINE call == Starts(s, transmission, webUI)
<1>1. DOMAIN call = {"at", "addrs", "read"} /\ (call.at = "idle" => starter[s].at = "idle")
  BY DEF Starts, CallsOK
<1> HIDE DEF call
<1>2. starter' = [starter EXCEPT ![s] = call]
  BY DEF call
<1>3. CallsOK'
  BY <1>1, <1>2 DEF CallsOK
<1>4. \A t \in Starter : starter'[t].at = "idle" => starter[t].at = "idle"
  BY <1>1, <1>2 DEF CallsOK
<1> QED
  BY <1>3, <1>4 DEF RegisteredServed

LEMMA LoadedShape == ASSUME Shape PROVE DOMAIN LoadedConfig = DOMAIN Defaults
BY DEF Shape, LoadedConfig, Overlay

LEMMA FirstShape ==
  ASSUME NEW c, DOMAIN c = DOMAIN Defaults
  PROVE  DOMAIN SetURLFromClient(c) = DOMAIN Defaults
BY DEF SetURLFromClient

\* Shadow bans are on afterwards only if this client has answered that it has them.
LEMMA CheckedShadowBan ==
  ASSUME NEW c, DOMAIN c = DOMAIN Defaults, NEW kind, NEW d \in ShadowBanChecked(c, kind)
  PROVE  /\ DOMAIN d = DOMAIN Defaults
         /\ d.clientURL = c.clientURL
         /\ d.useShadowBan => TestShadowBanAPI(kind, c.clientURL)
<1>1. PICK answered \in BOOLEAN :
        d = IF answered /\ TestShadowBanAPI(kind, c.clientURL) THEN c
            ELSE [c EXCEPT !.useShadowBan = FALSE]
  BY DEF ShadowBanChecked
<1>2. {"clientURL", "clientType", "useShadowBan"} \subseteq DOMAIN c
  BY ConnectionAssumption
<1> QED
  BY <1>1, <1>2

\* A client that has shadow bans is a qBittorrent at that address.
LEMMA TestedShadowBan ==
  ASSUME NEW kind, NEW u, TestShadowBanAPI(kind, u)
  PROVE  kind = "qBittorrent" /\ service[u.host].shadowBans
BY DEF TestShadowBanAPI, QbTestShadowBanAPI

\* What LoadInitConfig leaves when it lets a Task run.
LEMMA LoadedForTask ==
  ASSUME NEW c, DOMAIN c = DOMAIN Defaults, Stays(c) \/ Connects(c), UNCHANGED service
  PROVE  /\ DOMAIN config' = DOMAIN Defaults
         /\ config'.clientURL = lastURL'
         /\ config'.useShadowBan =>
              client' = "qBittorrent" /\ service'[lastURL'.host].shadowBans
<1>1. {"clientURL", "clientType", "useShadowBan"} \subseteq DOMAIN c
  BY ConnectionAssumption
<1>2. CASE Stays(c)
  <2>1. DOMAIN KeepURL(c) = DOMAIN Defaults /\ KeepURL(c).clientURL = lastURL
    BY <1>1, <1>2 DEF Stays, KeepURL
  <2>2. config' \in ShadowBanChecked(KeepURL(c), client) /\ UNCHANGED <<client, lastURL>>
    BY <1>2 DEF Stays
  <2>3. /\ DOMAIN config' = DOMAIN Defaults /\ config'.clientURL = lastURL
        /\ config'.useShadowBan => TestShadowBanAPI(client, lastURL)
    BY <2>1, <2>2, CheckedShadowBan
  <2> QED
    BY <2>2, <2>3, TestedShadowBan
<1>3. CASE Connects(c)
  <2>1. PICK corrected, kind :
          /\ corrected = Corrected(c, Candidates(c))
          /\ client' = kind /\ lastURL' = corrected.clientURL
          /\ config' \in ShadowBanChecked(corrected, kind)
    BY <1>3 DEF Connects, AdoptedURL
  <2>2. DOMAIN corrected = DOMAIN Defaults
    BY <2>1 DEF Corrected
  <2>3. /\ DOMAIN config' = DOMAIN Defaults /\ config'.clientURL = corrected.clientURL
        /\ config'.useShadowBan => TestShadowBanAPI(kind, corrected.clientURL)
    BY <2>1, <2>2, CheckedShadowBan
  <2> QED
    BY <2>1, <2>3, TestedShadowBan
<1> QED
  BY <1>2, <1>3

\* Whatever comes of it, every option keeps a value and the calls of StartServer that
\* are on their way go on.
LEMMA LoadKeeps ==
  ASSUME ProgramInv, NEW first \in BOOLEAN, NEW succeeds \in BOOLEAN,
         LoadInitConfig(first, succeeds)
  PROVE  /\ Shape' /\ RegisteredServed'
         /\ succeeds => /\ config'.clientURL = lastURL'
                        /\ config'.useShadowBan =>
                             client' = "qBittorrent" /\ service'[lastURL'.host].shadowBans
<1> DEFINE c == IF first THEN SetURLFromClient(LoadedConfig) ELSE LoadedConfig
<1>1. DOMAIN c = DOMAIN Defaults
  BY LoadedShape, FirstShape DEF ProgramInv
<1> HIDE DEF c
<1>2. /\ \/ succeeds /\ Stays(c) /\ UNCHANGED serverVars
         \/ succeeds /\ Connects(c) /\ InitClient
         \/ ~succeeds /\ ConnectFails(c) /\ UNCHANGED serverVars
      /\ UNCHANGED service
  BY DEF LoadInitConfig, c
<1>3. DOMAIN config' = DOMAIN Defaults
  <2>1. ASSUME ConnectFails(c) PROVE DOMAIN config' = DOMAIN Defaults
    BY <1>1, <2>1 DEF ConnectFails, Corrected
  <2> QED
    BY <1>1, <1>2, <2>1, LoadedForTask
<1>4. UNCHANGED serverVars \/ InitClient
  BY <1>2
<1>5. CallsOK' /\ RegisteredServed'
  <2>1. CASE UNCHANGED serverVars
    BY <2>1 DEF serverVars, ProgramInv, Shape, CallsOK, RegisteredServed
  <2>2. CASE InitClient
    <3>1. CASE UNCHANGED serverVars
      BY <2>1, <3>1
    <3>2. CASE /\ starter' = [starter EXCEPT !["client"] = Starts("client", TRUE, config'.webUI)]
               /\ UNCHANGED <<listeners, served, shut>>
      BY <3>2, StartKeeps DEF ProgramInv, Shape, Starter
    <3> QED
      BY <2>2, <3>1, <3>2 DEF InitClient
  <2> QED
    BY <1>4, <2>1, <2>2
<1>6. succeeds => Stays(c) \/ Connects(c)
  BY <1>2
<1> QED
  BY <1>1, <1>2, <1>3, <1>5, <1>6, LoadedForTask DEF Shape
-----------------------------------------------------------------------------
(* The HTTP server.                                                        *)

\* A call leaves nothing recorded and not served: the last to end serves all.
LEMMA StartServerKeeps ==
  ASSUME CallsOK, RegisteredServed, StartServerStep
  PROVE  CallsOK' /\ RegisteredServed'
<1>1. PICK s \in Starter : BindFails(s) \/ Bind(s) \/ AddListener(s) \/ Serve(s)
  BY DEF StartServerStep
<1>2. CASE BindFails(s) \/ Bind(s) \/ AddListener(s)
  <2>1. PICK call : /\ starter' = [starter EXCEPT ![s] = call] /\ call.at # "idle"
                    /\ DOMAIN call = {"at", "addrs", "read"}
    <3>1. CASE Bind(s)
      <4> DEFINE call == [starter[s] EXCEPT !.at = "append", !.read = listeners]
      <4>1. starter' = [starter EXCEPT ![s] = call]
        BY <3>1 DEF Bind
      <4>2. DOMAIN call = {"at", "addrs", "read"} /\ call.at = "append"
        BY <1>1 DEF CallsOK
      <4> HIDE DEF call
      <4> QED
        BY <4>1, <4>2
    <3>2. CASE BindFails(s) \/ AddListener(s)
      <4> DEFINE call == [at |-> NextAt(starter[s].addrs), addrs |-> Tail(starter[s].addrs),
                          read |-> {}]
      <4>1. starter' = [starter EXCEPT ![s] = call]
        BY <3>2 DEF BindFails, AddListener
      <4>2. DOMAIN call = {"at", "addrs", "read"} /\ call.at # "idle"
        BY DEF NextAt
      <4> HIDE DEF call
      <4> QED
        BY <4>1, <4>2
    <3> QED
      BY <1>2, <3>1, <3>2
  <2>2. CallsOK' /\ starter'[s].at # "idle"
    BY <1>1, <2>1 DEF CallsOK
  <2> QED
    BY <1>1, <2>2 DEF RegisteredServed
<1>3. CASE Serve(s)
  <2>1. CallsOK' /\ listeners' = listeners /\ shut' = shut
    BY <1>3 DEF Serve, CallsOK, AtRest
  <2>2. ~shut => listeners \subseteq served'
    BY <1>3 DEF Serve, ServedBy
  <2> QED
    BY <2>1, <2>2 DEF RegisteredServed
<1> QED
  BY <1>1, <1>2, <1>3

LEMMA StopServerKeeps ==
  ASSUME CallsOK, RegisteredServed, Stop
  PROVE  CallsOK' /\ RegisteredServed'
BY DEF Stop, StopServer, CallsOK, RegisteredServed
-----------------------------------------------------------------------------
(* Every step.                                                             *)

LEMMA InitProgramInv == Init => ProgramInv
<1> SUFFICES ASSUME Init PROVE ProgramInv
  OBVIOUS
<1>1. loop = "none" /\ config = Defaults /\ listeners = {}
      /\ starter = [s \in Starter |-> AtRest]
  BY DEF Init, FilesInit, ServerInit
<1> QED
  BY <1>1 DEF ProgramInv, OneLoader, Shape, CallsOK, AtRest, RegisteredServed, ReadyForTask

\* Steps that touch neither what a Task relies on nor the HTTP server.
LEMMA OthersKeep ==
  ASSUME ProgramInv, UNCHANGED <<config, service, client, lastURL, serverVars>>,
         loop' = "task" => loop = "task", OneLoader'
  PROVE  ProgramInv'
BY DEF ProgramInv, Shape, CallsOK, RegisteredServed, ReadyForTask, serverVars

LEMMA MainKeeps == ASSUME ProgramInv, MainStep \/ MainPanics PROVE ProgramInv'
<1>1. CASE PrepareEnv \/ RunConsole \/ Delay \/ MainPanics \/ StartLoop \/ StopLoop \/ JoinLoop
  <2>1. UNCHANGED <<config, service, client, lastURL, serverVars>>
    BY <1>1 DEF PrepareEnv, RunConsole, Delay, MainPanics, StartLoop, StopLoop, JoinLoop,
                connectionVars
  <2>2. (loop' = "task" => loop = "task") /\ OneLoader'
    BY <1>1 DEF PrepareEnv, RunConsole, Delay, MainPanics, StartLoop, StopLoop, JoinLoop, Main,
                Exit, ProgramInv, OneLoader
  <2> QED
    BY <2>1, <2>2, OthersKeep
<1>2. CASE FirstLoad
  <2>1. PICK succeeds \in BOOLEAN : main = "load" /\ LoadInitConfig(TRUE, succeeds)
    BY <1>2 DEF FirstLoad, Main
  <2>2. loop \notin {"idle", "load", "task"} /\ loop' = loop
    BY <1>2, <2>1 DEF FirstLoad, ProgramInv, OneLoader
  <2>3. Shape' /\ RegisteredServed'
    BY <2>1, LoadKeeps
  <2> QED
    BY <2>2, <2>3 DEF ProgramInv, OneLoader, ReadyForTask
<1>3. CASE MainStartsServer
  <2>1. CallsOK' /\ RegisteredServed'
    BY <1>3, StartKeeps DEF MainStartsServer, ProgramInv, Shape, Starter
  <2>2. loop \notin {"idle", "load", "task"} /\ loop' = loop /\ config' = config
    BY <1>3 DEF MainStartsServer, Main, ProgramInv, OneLoader
  <2> QED
    BY <2>1, <2>2 DEF ProgramInv, Shape, OneLoader, ReadyForTask
<1>4. CASE Stop
  <2>1. CallsOK' /\ RegisteredServed'
    BY <1>4, StopServerKeeps DEF ProgramInv, Shape
  <2>2. loop \notin {"idle", "load", "task"} /\ loop' = loop /\ config' = config
    BY <1>4 DEF Stop, ProgramInv, OneLoader
  <2> QED
    BY <2>1, <2>2 DEF ProgramInv, Shape, OneLoader, ReadyForTask
<1> QED
  BY <1>1, <1>2, <1>3, <1>4 DEF MainStep

LEMMA LoopKeeps == ASSUME ProgramInv, LoopStep \/ LoopStops \/ LoopPanics PROVE ProgramInv'
<1>1. CASE Tick \/ TaskSyncs \/ TaskReturns \/ LoopStops \/ LoopPanics
  <2>1. UNCHANGED <<config, service, client, lastURL, serverVars>>
    BY <1>1 DEF Tick, TaskSyncs, TaskReturns, LoopStops, LoopPanics, connectionVars
  <2>2. (loop' = "task" => loop = "task") /\ OneLoader'
    BY <1>1 DEF Tick, TaskSyncs, TaskReturns, LoopStops, LoopPanics, Loop, ProgramInv, OneLoader
  <2> QED
    BY <2>1, <2>2, OthersKeep
<1>2. CASE LoopLoads
  <2>1. PICK succeeds \in BOOLEAN :
          /\ loop = "load" /\ loop' = IF succeeds THEN "task" ELSE "idle"
          /\ LoadInitConfig(FALSE, succeeds)
    BY <1>2 DEF LoopLoads, Loop
  <2>2. OneLoader'
    BY <1>2, <2>1 DEF LoopLoads, ProgramInv, OneLoader
  <2>3. Shape' /\ RegisteredServed'
    BY <2>1, LoadKeeps
  <2>4. ReadyForTask'
    BY <2>1, LoadKeeps DEF ReadyForTask
  <2> QED
    BY <2>2, <2>3, <2>4 DEF ProgramInv
<1> QED
  BY <1>1, <1>2 DEF LoopStep

LEMMA EnvironmentKeeps ==
  ASSUME ProgramInv, ReqStop \/ Edit \/ Serving \/ Submission(SyncStep) \/ UNCHANGED vars
  PROVE  ProgramInv'
<1>1. CASE Serving
  <2>1. CallsOK' /\ RegisteredServed'
    BY <1>1, StartServerKeeps DEF Serving, ProgramInv, Shape
  <2>2. UNCHANGED <<main, loop, config, service, client, lastURL>>
    BY <1>1 DEF Serving, processVars, connectionVars
  <2> QED
    BY <2>1, <2>2 DEF ProgramInv, Shape, OneLoader, ReadyForTask
<1>2. CASE ReqStop \/ Edit \/ Submission(SyncStep) \/ UNCHANGED vars
  <2>1. UNCHANGED <<main, loop, config, service, client, lastURL, serverVars>>
    BY <1>2 DEF ReqStop, Edit, Submission, vars, processVars, connectionVars
  <2>2. OneLoader'
    BY <2>1 DEF ProgramInv, OneLoader
  <2> QED
    BY <2>1, <2>2, OthersKeep
<1> QED
  BY <1>1, <1>2

THEOREM Invariance == Spec => []ProgramInv
<1>1. ProgramInv /\ [Next]_vars => ProgramInv'
  BY MainKeeps, LoopKeeps, EnvironmentKeeps DEF Next, Ended
<1> QED
  BY <1>1, InitProgramInv, PTL DEF Spec

(***************************************************************************)
(* However the two calls of StartServer overlap, when both are done every  *)
(* listener that the program has recorded accepts connections (server.go). *)
(***************************************************************************)
THEOREM RecordedListenersServed == Spec => []RegisteredServed
<1>1. ProgramInv => RegisteredServed
  BY DEF ProgramInv
<1> QED
  BY <1>1, Invariance, PTL

(***************************************************************************)
(* Whatever the files say in whatever order, a Task runs with the address  *)
(* its driver is logged in to, and asks for shadow bans only of a client   *)
(* that has them (config.go, client.go).                                   *)
(***************************************************************************)
THEOREM TasksAreReady == Spec => []ReadyForTask
<1>1. ProgramInv => ReadyForTask
  BY DEF ProgramInv
<1> QED
  BY <1>1, Invariance, PTL
-----------------------------------------------------------------------------
(* The types: what the configuration holds is what the files give.         *)

ConfigOK(c) == DOMAIN c = DOMAIN Defaults /\ ContentOK(c)

DiskOK ==
  /\ DOMAIN disk = ConfigFile
  /\ \A f \in ConfigFile : /\ DOMAIN disk[f] = {"state", "content", "mtime"}
                           /\ disk[f].state \in FileState /\ disk[f].mtime \in 0 .. MaxMtime
                           /\ ContentOK(disk[f].content)

FilesOK ==
  /\ DiskOK /\ namedByFlag \in BOOLEAN
  /\ configLastMod \in [ConfigFile -> 0 .. MaxMtime]
  /\ taken \in [ConfigFile -> 0 .. MaxMtime]

ConnectionOK ==
  /\ service \in [Host -> Service] /\ ini \in Ini
  /\ client \in Kinds \cup {NoClient} /\ lastURL \in URL \cup {NoURL}
  /\ cancelled \in BOOLEAN

SubmissionOK ==
  /\ syncRules \subseteq Compiles
  /\ syncInterval \in 0 .. SyncInterval /\ sinceSync \in 0 .. SyncInterval
  /\ isSubmitting \in BOOLEAN
  /\ submission \in SyncURL \cup {NoSync, NoSubmission, Started}
  /\ isSubmitting <=> submission # NoSubmission

\* The addresses a call of StartServer has left.
AddressList == {<<>>, <<"listen">>, <<"webUIListen">>, <<"listen", "webUIListen">>}

\* A call that works on an address has one, and knows of no listener that is not
\* there: the list it has read only grows until the program stops.
CallTyped(call) ==
  /\ DOMAIN call = {"at", "addrs", "read"}
  /\ call.at \in {"idle", "bind", "append", "serve"}
  /\ call.addrs \in AddressList /\ call.read \subseteq Address
  /\ call.at \in {"bind", "append"} => call.addrs # <<>>
CallBound(call, ports) ==
  call.at = "append" => Head(call.addrs) \in ports /\ call.read \subseteq ports

ServerOK ==
  /\ DOMAIN starter = Starter
  /\ \A s \in Starter : CallTyped(starter[s]) /\ (Running => CallBound(starter[s], bound))
  /\ bound \subseteq Address \ Busy /\ listeners \subseteq bound /\ served \subseteq bound
  /\ serverStatus \in BOOLEAN /\ shut \in BOOLEAN

ProcessOK ==
  /\ scene \in Scenes
  /\ main \in MainPhase /\ loop \in LoopPhase /\ stopRequest \in BOOLEAN
  /\ panicked \in {"", "main", "loop"} /\ exit \in -1 .. 2
  /\ exit >= 0 <=> main = "ended"
  /\ OneLoader

TypeInv == ConfigOK(config) /\ FilesOK /\ ConnectionOK /\ SubmissionOK /\ ServerOK /\ ProcessOK

LEMMA TypeInvIsEnough == TypeInv => TypeOK
<1> SUFFICES ASSUME TypeInv PROVE TypeOK
  OBVIOUS
<1>1. FilesTypeOK
  BY DEF TypeInv, ConfigOK, FilesOK, DiskOK, FilesTypeOK
<1>2. ConnectionTypeOK
  BY ConnectionAssumption
  DEF TypeInv, ConfigOK, ContentOK, ValueOK, ConnectionOK, ConnectionTypeOK
<1>3. SyncTypeOK
  BY SyncAssumption DEF TypeInv, ConfigOK, ContentOK, ValueOK, SubmissionOK, SyncTypeOK
<1>4. ServerTypeOK
  BY DEF TypeInv, ServerOK, CallTyped, AddressList, ServerTypeOK
<1> QED
  BY <1>1, <1>2, <1>3, <1>4 DEF TypeInv, SubmissionOK, ProcessOK, OneLoader, TypeOK

LEMMA InitTypes == Init => TypeInv
<1> SUFFICES ASSUME Init PROVE TypeInv
  OBVIOUS
<1>1. SceneOK(scene) /\ ContentOK(Defaults)
  BY SceneAssumption DEF Init
<1>2. 1 \in 0 .. MaxMtime /\ 0 \in 0 .. MaxMtime
  BY FilesAssumption
<1>3. FilesOK /\ ConfigOK(config)
  <2>1. DiskOK
    BY <1>1, <1>2 DEF Init, FilesInit, SceneOK, DiskOK
  <2>2. namedByFlag \in BOOLEAN
    BY <1>1 DEF Init, SceneOK
  <2> QED
    BY <1>1, <1>2, <2>1, <2>2 DEF Init, FilesInit, FilesOK, ConfigOK
<1>4. ConnectionOK
  BY <1>1 DEF Init, SceneOK, ConnectionInit, ConnectionOK
<1>5. SubmissionOK
  <2>1. syncInterval \in 0 .. SyncInterval /\ sinceSync \in 0 .. SyncInterval
    <3>1. SyncInterval \in Nat
      BY SyncAssumption
    <3>2. syncInterval = SyncInterval /\ sinceSync = SyncInterval
      BY DEF Init, SyncInit
    <3> QED
      BY <3>1, <3>2
  <2>2. isSubmitting = FALSE /\ submission = NoSubmission /\ syncRules = {}
    BY DEF Init, SyncInit
  <2> QED
    BY <2>1, <2>2 DEF SubmissionOK
<1>6. ServerOK
  BY DEF Init, ServerInit, ServerOK, AtRest, CallTyped, CallBound, AddressList
<1>7. ProcessOK
  <2>1. exit = -1 /\ main = "env"
    BY DEF Init
  <2>2. (exit >= 0 <=> main = "ended") /\ exit \in -1 .. 2
    BY <2>1
  <2> QED
    BY <2>1, <2>2 DEF Init, ProcessOK, OneLoader, MainPhase, LoopPhase
<1> QED
  BY <1>3, <1>4, <1>5, <1>6, <1>7 DEF TypeInv

\* What LoadConfig puts into a configuration is what the file may hold.
LEMMA OverlayTypes ==
  ASSUME DiskOK, NEW f \in ConfigFile, NEW c, ConfigOK(c)
  PROVE  ConfigOK(Overlay(f, c))
<1>1. ContentOK(disk[f].content)
  BY DEF DiskOK
<1> QED
  BY <1>1 DEF Overlay, ConfigOK, ContentOK

LEMMA LoadedTypes == ASSUME DiskOK, ConfigOK(config) PROVE ConfigOK(LoadedConfig)
<1>1. AdditionalFile \in ConfigFile /\ "main" \in ConfigFile
  BY DEF AdditionalFile, ConfigFile
<1>2. ConfigOK(Overlay("main", config))
  BY <1>1, OverlayTypes
<1>3. ConfigOK(Overlay(AdditionalFile, Overlay("main", config)))
  BY <1>1, <1>2, OverlayTypes
<1> QED
  BY <1>3 DEF LoadedConfig

LEMMA WithURL ==
  ASSUME NEW c, ConfigOK(c), NEW u \in URL \cup {NoURL}
  PROVE  ConfigOK([c EXCEPT !.clientURL = u])
BY DEF ConfigOK, ContentOK, ValueOK

\* The address qBittorrent.ini gives is one.
LEMMA FirstTypes ==
  ASSUME ini \in Ini, NEW c, ConfigOK(c)
  PROVE  ConfigOK(SetURLFromClient(c))
<1>1. QbSetURL \in URL \cup {NoURL}
  BY ConnectionAssumption DEF QbSetURL, Ini, URL
<1> QED
  BY <1>1, WithURL DEF SetURLFromClient

LEMMA URLTyped ==
  ASSUME NEW c, ConfigOK(c)
  PROVE  c.clientURL \in URL \cup {NoURL} /\ c.clientType \in Kinds \cup {""}
BY ConnectionAssumption DEF ConfigOK, ContentOK, ValueOK

\* Detection gives a driver that there is, or none, and an address.
LEMMA DetectedTypes ==
  ASSUME NEW c, ConfigOK(c), c.clientURL # NoURL, NEW found \in SUBSET Kinds
  PROVE  /\ DetectClient(c, found) \in Kinds \cup {NoClient}
         /\ ConfigOK(Corrected(c, found))
         /\ Corrected(c, found).clientURL \in URL
<1>1. c.clientURL \in URL /\ c.clientType \in Kinds \cup {""}
  BY URLTyped
<1>2. DetectClient(c, found) \in Kinds \cup {NoClient}
  BY <1>1 DEF DetectClient
<1>3. Endpoint(DetectClient(c, found), c.clientURL) \in URL
  BY <1>1 DEF Endpoint, URL
<1>4. "clientURL" \in DOMAIN c
  BY ConnectionAssumption DEF ConfigOK
<1>5. ConfigOK([c EXCEPT !.clientURL = Endpoint(DetectClient(c, found), c.clientURL)])
  BY <1>3, WithURL
<1> QED
  BY <1>1, <1>2, <1>3, <1>4, <1>5 DEF Corrected

LEMMA CheckedTypes ==
  ASSUME NEW c, ConfigOK(c), NEW kind, NEW d \in ShadowBanChecked(c, kind)
  PROVE  ConfigOK(d)
<1>1. d = c \/ d = [c EXCEPT !.useShadowBan = FALSE]
  BY DEF ShadowBanChecked
<1> QED
  BY <1>1 DEF ConfigOK, ContentOK, ValueOK

LEMMA LoadTypes ==
  ASSUME TypeInv, NEW first \in BOOLEAN, NEW succeeds \in BOOLEAN, LoadInitConfig(first, succeeds)
  PROVE  ConfigOK(config') /\ FilesOK' /\ ConnectionOK'
<1> DEFINE c == IF first THEN SetURLFromClient(LoadedConfig) ELSE LoadedConfig
<1>1. ConfigOK(c)
  BY LoadedTypes, FirstTypes DEF TypeInv, FilesOK, ConnectionOK
<1>2. LoadFiles /\ UNCHANGED <<service, ini, cancelled>>
  BY DEF LoadInitConfig
<1>3. Stays(c) \/ Connects(c) \/ ConnectFails(c)
  BY DEF LoadInitConfig
<1> HIDE DEF c
<1>4. FilesOK'
  BY <1>2 DEF LoadFiles, FilesOK, DiskOK, TypeInv
<1>5. Candidates(c) \in SUBSET Kinds /\ {} \in SUBSET Kinds
  BY DEF Candidates
<1>6. ConfigOK(config') /\ client' \in Kinds \cup {NoClient} /\ lastURL' \in URL \cup {NoURL}
  <2>1. CASE Stays(c)
    <3>1. ConfigOK(KeepURL(c))
      BY <1>1, WithURL DEF KeepURL, TypeInv, ConnectionOK
    <3> QED
      BY <2>1, <3>1, CheckedTypes DEF Stays, TypeInv, ConnectionOK
  <2>2. CASE Connects(c)
    <3>1. PICK corrected, kind :
            /\ corrected = Corrected(c, Candidates(c)) /\ kind = DetectClient(c, Candidates(c))
            /\ c.clientURL # NoURL
            /\ client' = kind /\ lastURL' = corrected.clientURL
            /\ config' \in ShadowBanChecked(corrected, kind)
      BY <2>2 DEF Connects, AdoptedURL
    <3>2. /\ kind \in Kinds \cup {NoClient} /\ ConfigOK(corrected)
          /\ corrected.clientURL \in URL
      BY <1>1, <1>5, <3>1, DetectedTypes
    <3> QED
      BY <3>1, <3>2, CheckedTypes
  <2>3. CASE ConnectFails(c)
    <3>1. PICK found \in SUBSET Kinds :
            client' = DetectClient(c, found) /\ config' = Corrected(c, found)
      BY <1>5, <2>3 DEF ConnectFails
    <3>2. c.clientURL # NoURL /\ lastURL' = lastURL
      BY <2>3 DEF ConnectFails
    <3> QED
      BY <1>1, <3>1, <3>2, DetectedTypes DEF TypeInv, ConnectionOK
  <2> QED
    BY <1>3, <2>1, <2>2, <2>3
<1> QED
  BY <1>2, <1>4, <1>6 DEF TypeInv, ConnectionOK
-----------------------------------------------------------------------------
(* The types of the HTTP server and of the submission.                     *)

\* Lists of at most one address each, one after the other.
LEMMA AddressLists ==
  /\ <<"listen">> \o <<>> = <<"listen">> /\ <<>> \o <<"listen">> = <<"listen">>
  /\ <<>> \o <<"webUIListen">> = <<"webUIListen">> /\ <<>> \o <<>> = <<>>
  /\ <<"listen">> \o <<"webUIListen">> = <<"listen", "webUIListen">>
<1>1. /\ <<"listen">> \o <<>> = <<"listen">> /\ <<>> \o <<"listen">> = <<"listen">>
      /\ <<>> \o <<"webUIListen">> = <<"webUIListen">> /\ <<>> \o <<>> = <<>>
  BY ConcatEmptySeq
<1>2. <<"listen">> \o <<"webUIListen">> = <<"listen", "webUIListen">>
  <2> DEFINE one == <<"listen">>  two == <<"webUIListen">>  both == <<"listen", "webUIListen">>
  <2>1. {one, two, both, one \o two} \subseteq Seq(Address)
    BY DEF Address
  <2>2. Len(one \o two) = Len(both) /\ \A i \in 1 .. Len(one \o two) : (one \o two)[i] = both[i]
    OBVIOUS
  <2> HIDE DEF one, two, both
  <2> QED
    BY <2>1, <2>2, SeqEqual DEF one, two, both
<1> QED
  BY <1>1, <1>2

LEMMA StartsTyped ==
  ASSUME NEW s \in Starter, CallTyped(starter[s]), CallBound(starter[s], bound),
         NEW transmission, NEW webUI \in Address \cup {""}
  PROVE  CallTyped(Starts(s, transmission, webUI)) /\ CallBound(Starts(s, transmission, webUI), bound)
<1>1. Addresses(transmission, webUI) \in AddressList
  <2>1. webUI \in {"", "listen", "webUIListen"}
    BY DEF Address
  <2> QED
    BY <2>1, AddressLists DEF Addresses, AddressList
<1> QED
  BY <1>1 DEF Starts, CallTyped, CallBound

\* One call goes on, and what it has read and works on is there.
LEMMA CallChanges ==
  ASSUME ServerOK, NEW s \in Starter, NEW call, CallTyped(call), CallBound(call, bound'),
         starter' = [starter EXCEPT ![s] = call], bound \subseteq bound', Running,
         bound' \subseteq Address \ Busy, listeners' \subseteq bound', served' \subseteq bound',
         serverStatus' \in BOOLEAN, shut' \in BOOLEAN
  PROVE  ServerOK'
<1>1. DOMAIN starter' = Starter
  BY DEF ServerOK
<1>2. ASSUME NEW t \in Starter
      PROVE  CallTyped(starter'[t]) /\ CallBound(starter'[t], bound')
  <2>1. CASE t = s
    <3>1. starter'[t] = call
      BY <2>1 DEF ServerOK
    <3> QED
      BY <3>1
  <2>2. CASE t # s
    <3>1. starter'[t] = starter[t]
      BY <2>2 DEF ServerOK
    <3> QED
      BY <3>1 DEF ServerOK, CallBound
  <2> QED
    BY <2>1, <2>2
<1> QED
  BY <1>1, <1>2 DEF ServerOK

\* The next address of a call, or none.
LEMMA NextAddress ==
  ASSUME NEW addrs \in AddressList, addrs # <<>>
  PROVE  /\ Head(addrs) \in Address /\ Tail(addrs) \in AddressList
         /\ NextAt(addrs) \in {"bind", "serve"}
         /\ NextAt(addrs) = "bind" => Tail(addrs) # <<>>
<1>1. CASE addrs \in {<<"listen">>, <<"webUIListen">>}
  <2>1. \A a \in Address : Len(<<a>>) = 1 /\ Head(<<a>>) = a /\ Tail(<<a>>) = <<>>
    OBVIOUS
  <2>2. PICK a \in Address : addrs = <<a>>
    BY <1>1 DEF Address
  <2> QED
    BY <2>1, <2>2 DEF NextAt, AddressList
<1>2. CASE addrs = <<"listen", "webUIListen">>
  <2>1. Tail(addrs) = <<"webUIListen">> /\ Head(addrs) \in Address
    BY <1>2 DEF Address
  <2> QED
    BY <2>1 DEF NextAt, AddressList
<1> QED
  BY <1>1, <1>2 DEF AddressList

LEMMA StartServerTypes ==
  ASSUME ServerOK, Running, StartServerStep
  PROVE  ServerOK'
<1>1. PICK s \in Starter : BindFails(s) \/ Bind(s) \/ AddListener(s) \/ Serve(s)
  BY DEF StartServerStep
<1>2. CallTyped(starter[s]) /\ CallBound(starter[s], bound) /\ DOMAIN starter = Starter
  BY DEF ServerOK
<1> DEFINE next == [at |-> NextAt(starter[s].addrs), addrs |-> Tail(starter[s].addrs), read |-> {}]
<1>3. ASSUME starter[s].at \in {"bind", "append"} PROVE CallTyped(next) /\ CallBound(next, bound)
  <2>1. starter[s].addrs \in AddressList /\ starter[s].addrs # <<>>
    BY <1>2, <1>3 DEF CallTyped
  <2> QED
    BY <2>1, NextAddress DEF CallTyped, CallBound
<1>4. CASE BindFails(s)
  <2>1. starter' = [starter EXCEPT ![s] = next]
    BY <1>4 DEF BindFails
  <2>2. CallTyped(next) /\ CallBound(next, bound')
    BY <1>3, <1>4 DEF BindFails
  <2> HIDE DEF next
  <2> QED
    BY <1>4, <2>1, <2>2, CallChanges DEF BindFails, ServerOK
<1>5. CASE Bind(s)
  <2> DEFINE call == [starter[s] EXCEPT !.at = "append", !.read = listeners]
             port == Head(starter[s].addrs)
  <2>1. starter' = [starter EXCEPT ![s] = call] /\ bound' = bound \cup {port}
    BY <1>5 DEF Bind
  <2>2. port \in Address \ Busy
    BY <1>2, <1>5, NextAddress DEF Bind, CallTyped
  <2>3. CallTyped(call) /\ CallBound(call, bound')
    <3>1. starter[s].addrs \in AddressList /\ starter[s].addrs # <<>>
      BY <1>2, <1>5 DEF CallTyped, Bind
    <3>2. DOMAIN call = {"at", "addrs", "read"}
      BY <1>2 DEF CallTyped
    <3>3. call.at = "append" /\ call.read = listeners /\ call.addrs = starter[s].addrs
      BY <1>2 DEF CallTyped
    <3>4. listeners \subseteq bound /\ bound \subseteq Address
      BY DEF ServerOK
    <3> HIDE DEF call
    <3> QED
      BY <2>1, <3>1, <3>2, <3>3, <3>4 DEF CallTyped, CallBound
  <2> HIDE DEF call, port
  <2> QED
    BY <1>5, <2>1, <2>2, <2>3, CallChanges DEF Bind, ServerOK
<1>6. CASE AddListener(s)
  <2>1. starter' = [starter EXCEPT ![s] = next] /\ UNCHANGED <<bound, serverStatus, served, shut>>
    BY <1>6 DEF AddListener
  <2>2. CallTyped(next) /\ CallBound(next, bound')
    BY <1>3, <1>6, <2>1 DEF AddListener
  <2>3. listeners' \subseteq bound'
    BY <1>2, <1>6, <2>1 DEF AddListener, CallBound
  <2> HIDE DEF next
  <2> QED
    BY <2>1, <2>2, <2>3, CallChanges DEF ServerOK
<1>7. CASE Serve(s)
  <2>1. starter' = [starter EXCEPT ![s] = AtRest] /\ UNCHANGED <<bound, listeners, shut>>
    BY <1>7 DEF Serve
  <2>2. CallTyped(AtRest) /\ CallBound(AtRest, bound')
    BY DEF CallTyped, CallBound, AtRest, AddressList
  <2>3. served' \subseteq bound' /\ serverStatus' \in BOOLEAN
    BY <1>7, <2>1 DEF Serve, ServedBy, ServerOK
  <2> QED
    BY <2>1, <2>2, <2>3, CallChanges DEF ServerOK
<1> QED
  BY <1>1, <1>4, <1>5, <1>6, <1>7

LEMMA SyncTypes ==
  ASSUME SubmissionOK, ConfigOK(config), SyncStep \/ SyncWithServer
  PROVE  SubmissionOK'
<1>1. config.syncServerURL \in SyncURL \cup {NoSync}
  BY SyncAssumption DEF ConfigOK, ContentOK, ValueOK
<1>2. SyncInterval \in Nat
  BY SyncAssumption
<1>3. NoSubmission \notin SyncURL \cup {NoSync, Started}
  BY SyncAssumption DEF NoSubmission, Started
<1>4. CASE SyncSend
  BY <1>1, <1>3, <1>4 DEF SyncSend, SubmissionOK
<1>5. CASE SyncAccepted
  BY <1>5 DEF SyncAccepted, SubmitEnds, SubmissionOK
<1>6. CASE SyncFails
  BY <1>6 DEF SyncFails, SubmitEnds, SubmissionOK
<1>7. CASE SyncWithServer
  <2>1. CASE config.syncServerURL = NoSync
    <3>1. /\ syncRules' = {} /\ syncInterval' = SyncInterval
          /\ UNCHANGED <<sinceSync, isSubmitting, submission>>
      BY <1>7, <2>1 DEF SyncWithServer
    <3> QED
      BY <1>2, <3>1 DEF SubmissionOK
  <2>2. CASE config.syncServerURL # NoSync /\ (sinceSync < syncInterval \/ isSubmitting)
    BY <1>7, <2>2 DEF SyncWithServer, SubmissionOK, syncVars
  <2>3. CASE config.syncServerURL # NoSync /\ ~(sinceSync < syncInterval \/ isSubmitting)
    <3>1. /\ sinceSync' = 0 /\ isSubmitting' = TRUE /\ submission' = Started
          /\ UNCHANGED <<syncRules, syncInterval>>
      BY <1>7, <2>3 DEF SyncWithServer
    <3>2. 0 \in 0 .. SyncInterval
      BY <1>2
    <3> QED
      BY <1>3, <3>1, <3>2 DEF SubmissionOK
  <2> QED
    BY <2>1, <2>2, <2>3
<1> QED
  BY <1>4, <1>5, <1>6, <1>7 DEF SyncStep
-----------------------------------------------------------------------------
(* Every step keeps the types.                                             *)

LEMMA FilesStay ==
  ASSUME ConfigOK(config), FilesOK, UNCHANGED <<config, fileVars>>
  PROVE  ConfigOK(config') /\ FilesOK'
BY DEF FilesOK, DiskOK, fileVars

LEMMA ServerStays ==
  ASSUME ServerOK, UNCHANGED serverVars, Running' => Running
  PROVE  ServerOK'
BY DEF ServerOK, serverVars

\* A step that changes only where the goroutines are.
LEMMA ProcessStep ==
  ASSUME TypeInv, UNCHANGED <<config, fileVars, connectionVars, syncVars, serverVars>>,
         Running' => Running, ProcessOK'
  PROVE  TypeInv'
<1>1. ConfigOK(config') /\ FilesOK' /\ ServerOK'
  BY FilesStay, ServerStays DEF TypeInv
<1>2. ConnectionOK' /\ SubmissionOK'
  BY DEF TypeInv, ConnectionOK, SubmissionOK, connectionVars, syncVars
<1> QED
  BY <1>1, <1>2 DEF TypeInv

\* The WebUI is off, or has an address to listen on.
LEMMA WebUIAddress == ASSUME NEW c, ConfigOK(c) PROVE c.webUI \in Address \cup {""}
BY SceneAssumption DEF ConfigOK, ContentOK, ValueOK

\* A load, by whichever goroutine.
LEMMA LoadStep ==
  ASSUME TypeInv, Running, NEW first \in BOOLEAN, NEW succeeds \in BOOLEAN,
         LoadInitConfig(first, succeeds), UNCHANGED syncVars, UNCHANGED exit, ProcessOK'
  PROVE  TypeInv'
<1>1. ConfigOK(config') /\ FilesOK' /\ ConnectionOK'
  BY LoadTypes
<1>2. SubmissionOK'
  BY DEF TypeInv, SubmissionOK, syncVars
<1>3. ServerOK'
  <2>1. UNCHANGED serverVars \/ InitClient
    BY DEF LoadInitConfig
  <2>2. CASE UNCHANGED serverVars
    BY <2>2, ServerStays DEF TypeInv
  <2>3. CASE /\ starter' = [starter EXCEPT !["client"] = Starts("client", TRUE, config'.webUI)]
             /\ UNCHANGED <<bound, listeners, serverStatus, served, shut>>
    <3> DEFINE call == Starts("client", TRUE, config'.webUI)
    <3>1. CallTyped(call) /\ CallBound(call, bound')
      BY <1>1, <2>3, StartsTyped, WebUIAddress DEF TypeInv, ServerOK, Starter
    <3>2. "client" \in Starter /\ starter' = [starter EXCEPT !["client"] = call]
      BY <2>3 DEF Starter
    <3> HIDE DEF call
    <3> QED
      BY <2>3, <3>1, <3>2, CallChanges DEF TypeInv, ServerOK
  <2> QED
    BY <2>1, <2>2, <2>3 DEF InitClient
<1> QED
  BY <1>1, <1>2, <1>3 DEF TypeInv

LEMMA MainTypes == ASSUME TypeInv, MainStep \/ MainPanics PROVE TypeInv'
<1>1. /\ scene \in Scenes /\ main \in MainPhase /\ loop \in LoopPhase /\ stopRequest \in BOOLEAN
      /\ panicked \in {"", "main", "loop"} /\ exit \in -1 .. 2
      /\ (exit >= 0 <=> main = "ended") /\ OneLoader
  BY DEF TypeInv, ProcessOK
<1>2. CASE PrepareEnv \/ RunConsole \/ Delay \/ StartLoop \/ StopLoop \/ JoinLoop \/ MainPanics
  <2>1. /\ UNCHANGED <<config, fileVars, connectionVars, syncVars, serverVars>>
        /\ scene' = scene /\ stopRequest' = stopRequest /\ panicked' \in {panicked, "main"}
        /\ Running
    BY <1>2 DEF PrepareEnv, RunConsole, Delay, StartLoop, StopLoop, JoinLoop, MainPanics, Main, Exit
  <2>2. \/ /\ exit' = exit /\ main # "ended" /\ main' # "ended" /\ main' \in MainPhase
        \/ exit' \in {0, 1} /\ main' = "ended"
    BY <1>1, <1>2, <2>1
    DEF PrepareEnv, RunConsole, Delay, StartLoop, StopLoop, JoinLoop, MainPanics, Main, Exit,
        MainPhase, Running
  <2>3. loop' \in LoopPhase /\ OneLoader'
    BY <1>1, <1>2
    DEF PrepareEnv, RunConsole, Delay, StartLoop, StopLoop, JoinLoop, MainPanics, Main, Exit,
        OneLoader, LoopPhase
  <2>4. exit' \in -1 .. 2 /\ (exit' >= 0 <=> main' = "ended") /\ main' \in MainPhase
    <3>1. CASE exit' = exit /\ main # "ended" /\ main' # "ended" /\ main' \in MainPhase
      BY <1>1, <3>1
    <3>2. CASE exit' \in {0, 1} /\ main' = "ended"
      <4>1. exit' >= 0 /\ exit' \in -1 .. 2
        BY <3>2
      <4> QED
        BY <3>2, <4>1 DEF MainPhase
    <3> QED
      BY <2>2, <3>1, <3>2
  <2>5. ProcessOK'
    BY <1>1, <2>1, <2>3, <2>4 DEF ProcessOK
  <2> QED
    BY <2>1, <2>5, ProcessStep
<1>3. CASE FirstLoad
  <2>1. PICK succeeds \in BOOLEAN :
          Main("load", IF succeeds THEN "listen" ELSE "retry") /\ LoadInitConfig(TRUE, succeeds)
    BY <1>3 DEF FirstLoad
  <2>2. UNCHANGED <<scene, loop, stopRequest, panicked, exit, syncVars>>
    BY <1>3 DEF FirstLoad
  <2>3. ProcessOK'
    BY <1>1, <2>1, <2>2 DEF ProcessOK, Main, OneLoader, MainPhase
  <2> QED
    BY <2>1, <2>2, <2>3, LoadStep DEF Main
<1>4. CASE MainStartsServer
  <2> DEFINE call == Starts("main", client = "Transmission", config.webUI)
  <2>1. /\ starter' = [starter EXCEPT !["main"] = call] /\ "main" \in Starter
        /\ UNCHANGED <<bound, listeners, serverStatus, served, shut>>
        /\ Main("listen", "serving")
        /\ UNCHANGED <<scene, loop, stopRequest, panicked, exit>>
        /\ UNCHANGED <<config, fileVars, connectionVars, syncVars>>
    BY <1>4 DEF MainStartsServer, Starter
  <2>2. CallTyped(call) /\ CallBound(call, bound')
    BY <2>1, StartsTyped, WebUIAddress DEF TypeInv, ServerOK, Main
  <2> HIDE DEF call
  <2>3. ServerOK'
    BY <2>1, <2>2, CallChanges DEF TypeInv, ServerOK, Main
  <2>4. ProcessOK'
    BY <1>1, <2>1 DEF ProcessOK, Main, OneLoader, MainPhase
  <2>5. ConfigOK(config') /\ FilesOK' /\ ConnectionOK' /\ SubmissionOK'
    BY <2>1, FilesStay DEF TypeInv, ConnectionOK, SubmissionOK, connectionVars, syncVars
  <2> QED
    BY <2>3, <2>4, <2>5 DEF TypeInv
<1>5. CASE Stop
  <2>1. /\ main = "stop" /\ Running /\ main' = "ended" /\ exit' \in {0, 2}
        /\ StopServer /\ starter' = starter
        /\ UNCHANGED <<scene, loop, stopRequest, panicked>>
        /\ UNCHANGED <<config, fileVars, connectionVars, syncVars>>
    BY <1>5 DEF Stop, Exit
  <2>2. ServerOK'
    <3>1. ~Running'
      BY <2>1 DEF Running
    <3>2. /\ bound' \subseteq bound /\ listeners' \subseteq bound' /\ served' \subseteq bound'
          /\ serverStatus' \in BOOLEAN /\ shut' \in BOOLEAN
      BY <2>1 DEF StopServer, TypeInv, ServerOK
    <3> QED
      BY <2>1, <3>1, <3>2 DEF TypeInv, ServerOK
  <2>3. ProcessOK'
    <3>1. exit' >= 0 /\ exit' \in -1 .. 2
      BY <2>1
    <3> QED
      BY <1>1, <2>1, <3>1 DEF ProcessOK, OneLoader, MainPhase
  <2>4. ConfigOK(config') /\ FilesOK' /\ ConnectionOK' /\ SubmissionOK'
    BY <2>1, FilesStay DEF TypeInv, ConnectionOK, SubmissionOK, connectionVars, syncVars
  <2> QED
    BY <2>2, <2>3, <2>4 DEF TypeInv
<1> QED
  BY <1>2, <1>3, <1>4, <1>5 DEF MainStep

LEMMA LoopTypes == ASSUME TypeInv, LoopStep \/ LoopStops \/ LoopPanics PROVE TypeInv'
<1>1. /\ scene \in Scenes /\ main \in MainPhase /\ loop \in LoopPhase /\ stopRequest \in BOOLEAN
      /\ panicked \in {"", "main", "loop"} /\ exit \in -1 .. 2
      /\ (exit >= 0 <=> main = "ended") /\ OneLoader
  BY DEF TypeInv, ProcessOK
<1>2. /\ Running /\ UNCHANGED <<scene, main, exit>> /\ loop \in {"idle", "load", "task"}
      /\ loop' \in {"idle", "load", "task", "done"}
      /\ stopRequest' \in BOOLEAN /\ panicked' \in {"", "main", "loop"}
  BY <1>1 DEF LoopStep, Tick, LoopLoads, TaskSyncs, TaskReturns, LoopStops, LoopPanics, Loop
<1>3. ProcessOK'
  BY <1>1, <1>2 DEF ProcessOK, OneLoader, LoopPhase
<1>4. Running' => Running
  BY <1>2 DEF Running
<1>5. CASE TaskReturns \/ LoopStops
  BY <1>3, <1>4, <1>5, ProcessStep DEF TaskReturns, LoopStops
<1>6. CASE LoopLoads
  <2>1. PICK succeeds \in BOOLEAN : LoadInitConfig(FALSE, succeeds)
    BY <1>6 DEF LoopLoads
  <2>2. UNCHANGED syncVars /\ UNCHANGED exit
    BY <1>6 DEF LoopLoads
  <2> QED
    BY <1>2, <1>3, <2>1, <2>2, LoadStep
<1>7. CASE Tick \/ TaskSyncs
  <2>1. UNCHANGED <<config, fileVars, connectionVars, serverVars>>
    BY <1>7 DEF Tick, TaskSyncs
  <2>2. SubmissionOK'
    <3>1. CASE TaskSyncs
      BY <3>1, SyncTypes DEF TaskSyncs, TypeInv
    <3>2. CASE Tick
      <4>1. /\ SyncTimePasses(1) /\ UNCHANGED <<syncRules, syncInterval, isSubmitting, submission>>
        BY <3>2 DEF Tick
      <4>2. SyncInterval \in Nat /\ sinceSync \in 0 .. SyncInterval
        BY SyncAssumption DEF TypeInv, SubmissionOK
      <4>3. sinceSync' \in 0 .. SyncInterval
        BY <4>1, <4>2 DEF SyncTimePasses
      <4> QED
        BY <4>1, <4>3 DEF TypeInv, SubmissionOK
    <3> QED
      BY <1>7, <3>1, <3>2
  <2>3. ConfigOK(config') /\ FilesOK' /\ ConnectionOK' /\ ServerOK'
    BY <1>4, <2>1, FilesStay, ServerStays DEF TypeInv, ConnectionOK, connectionVars
  <2> QED
    BY <1>3, <2>2, <2>3 DEF TypeInv
<1>8. CASE LoopPanics
  <2>1. /\ UNCHANGED <<config, fileVars, service, ini, client, lastURL, syncVars, serverVars>>
        /\ cancelled' = TRUE
    BY <1>8 DEF LoopPanics
  <2>2. ConfigOK(config') /\ FilesOK' /\ ServerOK'
    BY <1>4, <2>1, FilesStay, ServerStays DEF TypeInv
  <2>3. ConnectionOK' /\ SubmissionOK'
    BY <2>1 DEF TypeInv, ConnectionOK, SubmissionOK, syncVars
  <2> QED
    BY <1>3, <2>2, <2>3 DEF TypeInv
<1> QED
  BY <1>5, <1>6, <1>7, <1>8 DEF LoopStep

LEMMA EditTypes ==
  ASSUME FilesOK, SceneOK(scene), UserEdits(scene.edits)
  PROVE  FilesOK'
<1>1. PICK e \in scene.edits :
        /\ \/ disk[e.file].mtime < MaxMtime /\ disk' = [disk EXCEPT ![e.file] = Written(e)]
           \/ disk' = [disk EXCEPT ![e.file].state = e.state]
        /\ UNCHANGED <<namedByFlag, configLastMod, taken>>
  BY DEF UserEdits
<1>2. e.file \in ConfigFile /\ e.state \in FileState /\ ContentOK(e.content)
  BY DEF SceneOK
<1> DEFINE v == disk'[e.file]
<1>3. /\ DOMAIN disk' = ConfigFile
      /\ \A f \in ConfigFile : f # e.file => disk'[f] = disk[f]
  BY <1>1 DEF FilesOK, DiskOK
<1>4. /\ DOMAIN v = {"state", "content", "mtime"} /\ v.state \in FileState
      /\ v.mtime \in 0 .. MaxMtime /\ ContentOK(v.content)
  <2>1. /\ DOMAIN disk[e.file] = {"state", "content", "mtime"}
        /\ disk[e.file].mtime \in 0 .. MaxMtime /\ ContentOK(disk[e.file].content)
    BY <1>2 DEF FilesOK, DiskOK
  <2>2. CASE disk[e.file].mtime < MaxMtime /\ disk' = [disk EXCEPT ![e.file] = Written(e)]
    <3>1. v = Written(e)
      BY <1>2, <2>2 DEF FilesOK, DiskOK
    <3>2. MaxMtime \in Nat
      BY FilesAssumption
    <3> HIDE DEF v
    <3> QED
      BY <1>2, <2>1, <2>2, <3>1, <3>2 DEF Written
  <2>3. CASE disk' = [disk EXCEPT ![e.file].state = e.state]
    <3>1. v = [disk[e.file] EXCEPT !.state = e.state]
      BY <1>2, <2>3 DEF FilesOK, DiskOK
    <3> HIDE DEF v
    <3> QED
      BY <1>2, <2>1, <3>1
  <2> QED
    BY <1>1, <2>2, <2>3
<1>5. DiskOK'
  <2>1. ASSUME NEW f \in ConfigFile
        PROVE  /\ DOMAIN disk'[f] = {"state", "content", "mtime"}
               /\ disk'[f].state \in FileState /\ disk'[f].mtime \in 0 .. MaxMtime
               /\ ContentOK(disk'[f].content)
    BY <1>3, <1>4 DEF FilesOK, DiskOK
  <2> QED
    BY <1>3, <2>1 DEF DiskOK
<1> QED
  BY <1>1, <1>5 DEF FilesOK

LEMMA EnvironmentTypes ==
  ASSUME TypeInv, ReqStop \/ Edit \/ Serving \/ Submission(SyncStep) \/ UNCHANGED vars
  PROVE  TypeInv'
<1>1. CASE ReqStop
  <2>1. /\ UNCHANGED <<config, fileVars, service, ini, client, lastURL, syncVars, serverVars>>
        /\ cancelled' \in BOOLEAN /\ stopRequest' = TRUE
        /\ UNCHANGED <<scene, main, loop, panicked, exit>>
    BY <1>1 DEF ReqStop
  <2>2. ConfigOK(config') /\ FilesOK' /\ ServerOK'
    BY <2>1, FilesStay, ServerStays DEF TypeInv, Running
  <2>3. ConnectionOK' /\ SubmissionOK' /\ ProcessOK'
    BY <2>1 DEF TypeInv, ConnectionOK, SubmissionOK, ProcessOK, OneLoader, syncVars
  <2> QED
    BY <2>2, <2>3 DEF TypeInv
<1>2. CASE Edit
  <2>1. UNCHANGED <<scene, processVars, config, connectionVars, syncVars, serverVars>>
    BY <1>2 DEF Edit
  <2>2. FilesOK'
    BY <1>2, EditTypes, SceneAssumption DEF Edit, TypeInv, ProcessOK
  <2>3. ServerOK'
    BY <2>1, ServerStays DEF TypeInv, Running, processVars
  <2>4. ConnectionOK' /\ SubmissionOK' /\ ProcessOK'
    BY <2>1
    DEF TypeInv, ConnectionOK, SubmissionOK, ProcessOK, OneLoader, syncVars, connectionVars,
        processVars
  <2> QED
    BY <2>1, <2>2, <2>3, <2>4 DEF TypeInv
<1>3. CASE Serving
  <2>1. UNCHANGED <<scene, processVars, config, fileVars, connectionVars, syncVars>>
    BY <1>3 DEF Serving
  <2>2. ServerOK'
    BY <1>3, StartServerTypes DEF Serving, TypeInv
  <2>3. ConfigOK(config') /\ FilesOK'
    BY <2>1, FilesStay DEF TypeInv
  <2>4. ConnectionOK' /\ SubmissionOK' /\ ProcessOK'
    BY <2>1
    DEF TypeInv, ConnectionOK, SubmissionOK, ProcessOK, OneLoader, syncVars, connectionVars,
        processVars
  <2> QED
    BY <2>2, <2>3, <2>4 DEF TypeInv
<1>4. CASE Submission(SyncStep)
  <2>1. UNCHANGED <<scene, processVars, config, fileVars, connectionVars, serverVars>>
    BY <1>4 DEF Submission
  <2>2. SubmissionOK'
    BY <1>4, SyncTypes DEF Submission, TypeInv
  <2>3. ConfigOK(config') /\ FilesOK' /\ ServerOK'
    BY <2>1, FilesStay, ServerStays DEF TypeInv, Running, processVars
  <2>4. ConnectionOK' /\ ProcessOK'
    BY <2>1 DEF TypeInv, ConnectionOK, ProcessOK, OneLoader, connectionVars, processVars
  <2> QED
    BY <2>2, <2>3, <2>4 DEF TypeInv
<1>5. CASE UNCHANGED vars
  <2>1. /\ UNCHANGED <<config, fileVars, connectionVars, syncVars, serverVars>>
        /\ UNCHANGED <<scene, processVars>>
    BY <1>5 DEF vars
  <2>2. ProcessOK' /\ (Running' => Running)
    BY <2>1 DEF TypeInv, ProcessOK, OneLoader, Running, processVars
  <2> QED
    BY <2>1, <2>2, ProcessStep
<1> QED
  BY <1>1, <1>2, <1>3, <1>4, <1>5

(***************************************************************************)
(* Whatever the files hold, wherever a panic or a stop request meets the   *)
(* goroutines: the program has ended exactly if it has an exit code, only  *)
(* a program that waits for its loop has one running, a submission is on   *)
(* its way exactly while isSubmitting says so, what the HTTP server serves *)
(* and records are listeners that it has, and every option, driver and     *)
(* address is one that there is (internal/app: run.go, console.go,         *)
(* config.go, server.go, SyncServer.go).                                   *)
(***************************************************************************)
THEOREM Types == Spec => []TypeOK
<1>1. TypeInv /\ [Next]_vars => TypeInv'
  BY MainTypes, LoopTypes, EnvironmentTypes DEF Next, Ended
<1> QED
  BY <1>1, InitTypes, TypeInvIsEnough, PTL DEF Spec
=============================================================================
