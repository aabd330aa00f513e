------------------------------ MODULE Program ------------------------------
(***************************************************************************)
(* The program from start to end: PrepareEnv and Run, RunConsole with the  *)
(* loop it starts, what LoadInitConfig and the end of a Task do, the HTTP  *)
(* server, and Stop (internal/app: run.go, console.go, config.go).         *)
(*                                                                         *)
(* The main goroutine loads the configuration until that succeeds, starts  *)
(* the HTTP server and the loop, and then waits for a request to stop; the *)
(* loop loads the configuration and runs a Task at every tick.  Calls of   *)
(* StartServer and the submission to the sync server are goroutines of     *)
(* their own.  A scene fixes what the user and the machine are like, so    *)
(* that one behaviour varies one concern.                                  *)
(***************************************************************************)
EXTENDS SyncServer, HttpServer, Integers

CONSTANT Scenes \* the scenes a behaviour may begin with

\* What a file may give an option; a clientType that names no driver is left out,
\* and webUI stands for two: the address the WebUI listens on, "" when it is off.
ValueOK(o, v) ==
  /\ o = "clientURL" => v \in URL \cup {NoURL}
  /\ o = "clientType" => v \in Kinds \cup {""}
  /\ o = "webUI" => v \in Address \cup {""}
  /\ o = "syncServerURL" => v \in SyncURL \cup {NoSync}
ContentOK(c) == \A o \in DOMAIN c : ValueOK(o, c[o])

\* A scene: the files as they are first, the versions the user may write, whether
\* the additional file may be named by a flag, the machine, whether there is a
\* delay before the first load, and whether goroutines may panic and be stopped.
SceneOK(s) ==
  /\ DOMAIN s = {"disk", "edits", "service", "ini", "flags", "delay", "faults"}
  /\ DOMAIN s.disk = ConfigFile
  /\ \A f \in ConfigFile : /\ DOMAIN s.disk[f] = {"state", "content", "mtime"}
                           /\ s.disk[f].state \in FileState /\ ContentOK(s.disk[f].content)
  /\ \A e \in s.edits : e.file \in ConfigFile /\ e.state \in FileState /\ ContentOK(e.content)
  /\ s.flags \subseteq BOOLEAN
  /\ s.service \in [Host -> Service] /\ s.ini \in Ini

ASSUME SceneAssumption ==
  "webUI" \in DOMAIN Defaults /\ ContentOK(Defaults) /\ \A s \in Scenes : SceneOK(s)

VARIABLES
  scene,       \* the scene of this behaviour
  main,        \* where the main goroutine is
  loop,        \* where the loop's goroutine is
  stopRequest, \* reqStopChan is closed
  panicked,    \* some goroutine's panic was recovered: "main", "loop" or none
  exit         \* the exit code, -1 while the program runs

processVars == <<main, loop, stopRequest, panicked, exit>>
vars == <<scene, processVars, config, fileVars, connectionVars, syncVars, serverVars>>

MainPhase == {"env", "run", "delay", "load", "retry", "listen", "serving", "wait",
              "join", "stop", "ended"}
LoopPhase == {"none", "idle", "load", "task", "done"}

TypeOK ==
  /\ FilesTypeOK /\ ConnectionTypeOK /\ SyncTypeOK /\ ServerTypeOK
  /\ main \in MainPhase
  /\ loop \in LoopPhase
  /\ stopRequest \in BOOLEAN
  /\ panicked \in {"", "main", "loop"}
  /\ exit \in -1 .. 2
  /\ exit >= 0 <=> main = "ended"
  /\ loop \in {"idle", "load", "task"} => main \in {"wait", "join"}
  /\ isSubmitting <=> submission # NoSubmission

Init ==
  /\ scene \in Scenes
  /\ disk = scene.disk /\ namedByFlag \in scene.flags
  /\ service = scene.service /\ ini = scene.ini
  /\ FilesInit /\ ConnectionInit /\ SyncInit /\ ServerInit
  /\ main = "env"
  /\ loop = "none"
  /\ stopRequest = FALSE
  /\ panicked = ""
  /\ exit = -1

Running == exit = -1

-----------------------------------------------------------------------------
(* The main goroutine.                                                     *)

Main(from, to) == Running /\ main = from /\ main' = to

Exit(code) == Running /\ main' = "ended" /\ exit' = code

\* PrepareEnv reads the flags: asked for its version the program ends there.
PrepareEnv ==
  /\ main = "env"
  /\ \/ Main("env", "run") /\ UNCHANGED exit
     \/ Exit(0)
  /\ UNCHANGED <<scene, loop, stopRequest, panicked, config, fileVars, connectionVars,
                 syncVars, serverVars>>

\* RunConsole publishes the context that ends every request and delay.
RunConsole ==
  /\ Main("run", IF scene.delay THEN "delay" ELSE "load")
  /\ UNCHANGED <<scene, loop, stopRequest, panicked, exit, config, fileVars, connectionVars,
                 syncVars, serverVars>>

\* Mutant: the delay does not look at the context.
Interrupted_Never == FALSE

\* WaitRequestDelay returns early, and FALSE, when the context is cancelled.
Interrupted == cancelled

\* The delays before the first load and between two of them: RunConsole
\* returns when a stop is requested, and gives up after a failed load unless
\* ignoreFailureExit is set.
Delay ==
  /\ \/ Interrupted /\ main \in {"delay", "retry"} /\ Exit(0)
     \/ ~Interrupted /\ Main("delay", "load") /\ UNCHANGED exit
     \/ ~Interrupted /\ config.ignoreFailureExit /\ Main("retry", "load") /\ UNCHANGED exit
     \/ ~Interrupted /\ ~config.ignoreFailureExit /\ main = "retry" /\ Exit(1)
  /\ UNCHANGED <<scene, loop, stopRequest, panicked, config, fileVars, connectionVars,
                 syncVars, serverVars>>

\* InitClient: a Transmission client that was just logged in to needs the
\* HTTP server, whose start is left to a goroutine.  It is not modelled that
\* it may still be busy with an earlier such call.
InitClient ==
  IF client' = "Transmission"
  THEN /\ starter["client"] = AtRest
       /\ starter' = [starter EXCEPT !["client"] = Starts("client", TRUE, config'.webUI)]
       /\ UNCHANGED <<bound, listeners, serverStatus, served, shut>>
  ELSE UNCHANGED serverVars

\* LoadInitConfig, called by main first and then by the loop.
LoadInitConfig(first, succeeds) ==
  LET c == IF first THEN SetURLFromClient(LoadedConfig) ELSE LoadedConfig
  IN  /\ LoadFiles
      /\ \/ succeeds /\ Stays(c) /\ UNCHANGED serverVars
         \/ succeeds /\ Connects(c) /\ InitClient
         \/ ~succeeds /\ ConnectFails(c) /\ UNCHANGED serverVars
      /\ UNCHANGED <<service, ini, cancelled>>

FirstLoad ==
  /\ \E succeeds \in BOOLEAN :
       Main("load", IF succeeds THEN "listen" ELSE "retry") /\ LoadInitConfig(TRUE, succeeds)
  /\ UNCHANGED <<scene, loop, stopRequest, panicked, exit, syncVars>>

\* StartServer runs beside the goroutine that InitClient may have started;
\* then the loop begins.
MainStartsServer ==
  /\ Main("listen", "serving")
  /\ starter' = [starter EXCEPT !["main"] = Starts("main", client = "Transmission", config.webUI)]
  /\ UNCHANGED <<scene, loop, stopRequest, panicked, exit, config, fileVars, connectionVars,
                 syncVars, bound, listeners, serverStatus, served, shut>>

StartLoop ==
  /\ Main("serving", "wait")
  /\ starter["main"] = AtRest
  /\ loop' = "idle"
  /\ UNCHANGED <<scene, stopRequest, panicked, exit, config, fileVars, connectionVars,
                 syncVars, serverVars>>

\* WaitStop returns and stopChan is closed; then the loop is waited for.
StopLoop ==
  /\ Main("wait", "join")
  /\ stopRequest
  /\ UNCHANGED <<scene, loop, stopRequest, panicked, exit, config, fileVars, connectionVars,
                 syncVars, serverVars>>

\* Mutant: the main goroutine does not wait for the loop.
JoinLoop_NoWait ==
  /\ Main("join", "stop")
  /\ UNCHANGED <<scene, loop, stopRequest, panicked, exit, config, fileVars, connectionVars,
                 syncVars, serverVars>>

JoinLoop ==
  /\ Main("join", "stop")
  /\ loop = "done"
  /\ UNCHANGED <<scene, loop, stopRequest, panicked, exit, config, fileVars, connectionVars,
                 syncVars, serverVars>>

Stop ==
  /\ main = "stop"
  /\ Exit(IF panicked = "" THEN 0 ELSE 2)
  /\ StopServer
  /\ UNCHANGED <<scene, loop, stopRequest, panicked, config, fileVars, connectionVars,
                 syncVars, starter>>

\* A panic of the main goroutine ends in RecoverAndStop.
MainPanics ==
  /\ scene.faults
  /\ main \in {"load", "listen"} /\ Main(main, "stop")
  /\ panicked' = "main"
  /\ UNCHANGED <<scene, loop, stopRequest, exit, config, fileVars, connectionVars, syncVars,
                 serverVars>>

-----------------------------------------------------------------------------
(* The loop's goroutine.                                                   *)

Loop(from, to) == Running /\ loop = from /\ loop' = to

\* The interval has passed.
Tick ==
  /\ Loop("idle", "load")
  /\ SyncTimePasses(1)
  /\ UNCHANGED <<scene, main, stopRequest, panicked, exit, config, fileVars, connectionVars,
                 syncRules, syncInterval, isSubmitting, submission, serverVars>>

LoopLoads ==
  /\ \E succeeds \in BOOLEAN :
       Loop("load", IF succeeds THEN "task" ELSE "idle") /\ LoadInitConfig(FALSE, succeeds)
  /\ UNCHANGED <<scene, main, stopRequest, panicked, exit, syncVars>>

\* Task gets to its end, for which the client has to answer.
TaskSyncs ==
  /\ Loop("task", "idle")
  /\ client # NoClient /\ Login(client, config.clientURL)
  /\ SyncWithServer
  /\ UNCHANGED <<scene, main, stopRequest, panicked, exit, config, fileVars, connectionVars,
                 serverVars>>

\* Task returns early: no address, no driver, no answer, or a stop request.
TaskReturns ==
  /\ Loop("task", "idle")
  /\ UNCHANGED <<scene, main, stopRequest, panicked, exit, config, fileVars, connectionVars,
                 syncVars, serverVars>>

\* The loop notices stopChan, between two ticks.
LoopStops ==
  /\ Loop("idle", "done")
  /\ main = "join"
  /\ UNCHANGED <<scene, main, stopRequest, panicked, exit, config, fileVars, connectionVars,
                 syncVars, serverVars>>

\* A panic of the loop asks the main goroutine to stop.
LoopPanics ==
  /\ scene.faults
  /\ loop \in {"load", "task"} /\ Loop(loop, "done")
  /\ panicked' = "loop"
  /\ cancelled' = TRUE
  /\ stopRequest' = TRUE
  /\ UNCHANGED <<scene, main, exit, config, fileVars, service, ini, client, lastURL, syncVars,
                 serverVars>>

-----------------------------------------------------------------------------
(* Whoever else acts.                                                      *)

\* ReqStop, from a signal or the tray.  The tray may come before RunConsole
\* has published the context, which is then not cancelled.
ReqStop ==
  /\ Running /\ scene.faults
  /\ main # "env"
  /\ stopRequest' = TRUE
  /\ cancelled' = (main # "run")
  /\ UNCHANGED <<scene, main, loop, panicked, exit, config, fileVars, service, ini, client,
                 lastURL, syncVars, serverVars>>

Edit ==
  /\ Running
  /\ UserEdits(scene.edits)
  /\ UNCHANGED <<scene, processVars, config, connectionVars, syncVars, serverVars>>

Serving ==
  /\ Running
  /\ StartServerStep
  /\ UNCHANGED <<scene, processVars, config, fileVars, connectionVars, syncVars>>

Submission(step) ==
  /\ Running
  /\ step
  /\ UNCHANGED <<scene, processVars, config, fileVars, connectionVars, serverVars>>

MainStep == \/ PrepareEnv \/ RunConsole \/ Delay \/ FirstLoad \/ MainStartsServer
            \/ StartLoop \/ StopLoop \/ JoinLoop \/ Stop
LoopStep == Tick \/ LoopLoads \/ TaskSyncs \/ TaskReturns
Ended == ~Running /\ UNCHANGED vars

Next == \/ MainStep \/ MainPanics
        \/ LoopStep \/ LoopStops \/ LoopPanics
        \/ ReqStop \/ Edit \/ Serving \/ Submission(SyncStep) \/ Ended

\* Every goroutine gets to run.  Between a tick and stopChan select takes
\* either, and the sync server answers every so often.
Fairness ==
  /\ WF_vars(MainStep)
  /\ WF_vars(LoopStep) /\ SF_vars(LoopStops)
  /\ WF_vars(Serving)
  /\ WF_vars(Submission(SyncSend)) /\ WF_vars(Submission(SyncFails))
  /\ SF_vars(Submission(SyncAccepted))

Spec == Init /\ [][Next]_vars /\ Fairness

-----------------------------------------------------------------------------
(***************************************************************************)
(* A Task talks to the address its driver is logged in to, whatever the    *)
(* files say: an address removed from them stays in use (config.go:465),   *)
(* one corrected by the detection is the one remembered.  And it asks for  *)
(* shadow bans only of a client that has them.                             *)
(***************************************************************************)
ReadyForTask ==
  loop = "task" =>
    /\ config.clientURL = lastURL
    /\ config.useShadowBan => client = "qBittorrent" /\ service[lastURL.host].shadowBans

(***************************************************************************)
(* A version of a file that can be read is read in the end, though it may  *)
(* have been unreadable, broken or hidden behind a broken main file at     *)
(* first, as long as the loop goes on loading.                             *)
(***************************************************************************)
FilesRead ==
  \A f \in ConfigFile :
    <>[]Readable(f) /\ []<><<LoopLoads>>_vars => <>[]~Unread(f)

(***************************************************************************)
(* The rules of the sync server are in the end those of the server the     *)
(* configuration names, or none, though a submission to another one may    *)
(* still be on its way when the configuration changes.                     *)
(***************************************************************************)
RulesOf(u) == IF u = NoSync THEN {} ELSE Served[u] \cap Compiles
SyncFollows ==
  \A u \in SyncURL \cup {NoSync} :
    <>[](config.syncServerURL = u /\ ~cancelled) /\ []<><<TaskSyncs>>_vars
      => <>[](syncRules = RulesOf(u))

(***************************************************************************)
(* A stop requested once there is a context to cancel ends the program,    *)
(* wherever its goroutines are: in a delay, a failing first load, a scan,  *)
(* or a panic.                                                             *)
(***************************************************************************)
StopCompletes == cancelled ~> ~Running
=============================================================================
