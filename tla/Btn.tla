--------------------------------- MODULE Btn ---------------------------------
(***************************************************************************)
(* The BTN client: internal/app/BTN.go, with the part of InitConfig        *)
(* (config.go) that drops what another server sent.                        *)
(*                                                                         *)
(* Every scan starts BTN_GetConfig in a goroutine, which downloads the     *)
(* server's configuration, and BTN_Task, which goes through the abilities  *)
(* that configuration names: "rules" and "exception" download a list, and  *)
(* "reconfigure" calls BTN_GetConfig again.  The user may meanwhile have   *)
(* named another server, and then nothing of the former one may stay.      *)
(*                                                                         *)
(* An interval is a flag that time sets; the abilities that only report    *)
(* change nothing here and are left out.                                   *)
(***************************************************************************)
EXTENDS Naturals, Sequences, SequencesExt

CONSTANTS
  Urls, NoUrl,    \* values of BTNConfigureURL, and the empty one
  Kinds,          \* the abilities that download a list
  Reconfigure,    \* the one that downloads the configuration
  Abilities,      \* the order in which BTN_Task goes through them
  Configs,        \* records: url, sync
  Versions,       \* a list's "version", which identifies its content
  Services,       \* URL -> what its server may serve: records fits, names, version
  Addresses,      \* of configurations in memory
  Loop, Task,     \* the callers of BTN_GetConfig
  MaxReloads,     \* of the configuration
  MaxTroubles     \* requests that fail and servers that change

AllAbilities == Kinds \cup {Reconfigure}

ASSUME NameAssumption == NoUrl \notin Urls /\ Reconfigure \notin Kinds /\ Loop # Task
ASSUME AbilityAssumption == Abilities \in Seq(AllAbilities)
ASSUME ConfigAssumption ==
  Configs \subseteq [url : Urls \cup {NoUrl}, sync : SUBSET Kinds]
ASSUME ServiceAssumption ==
  Services \in [Urls -> SUBSET [fits : BOOLEAN, names : SUBSET AllAbilities,
                                 version : [Kinds -> Versions]]]
ASSUME AddressAssumption ==
  \E a, b, c \in Addresses : a # b /\ b # c /\ a # c
ASSUME BoundAssumption == {MaxReloads, MaxTroubles} \subseteq Nat

VARIABLES
  config,      \* the program's configuration: BTNConfigureURL, BTNSync*
  reloading,   \* it has been replaced and InitConfig has not run yet
  generation,  \* ruleGeneration
  btnConfig,   \* {} for nil, or what the pointer points to
  lists,       \* btnRules and btnExceptions: kind -> {} or a list
  configDue,   \* btn_lastGetConfig + 60 s has passed
  due,         \* the abilities whose interval has passed
  getter,      \* caller -> its BTN_GetConfig
  task,        \* the goroutine of BTN_Task
  server,      \* environment: URL -> what it serves
  spent        \* what the environment has done, for the bounds

stateVars == <<btnConfig, lists>>
vars == <<config, reloading, generation, stateVars, configDue, due, getter, task,
          server, spent>>

AtMostOne(S) == {{}} \cup {{x} : x \in S}

BtnConfig == [url : Urls, address : Addresses, names : SUBSET AllAbilities]
List      == [url : Urls, version : Versions]
Getter    == [phase : {"idle", "ready", "asking", "answered"},
              url : Urls \cup {NoUrl}, generation : Nat, fits : AtMostOne(BOOLEAN),
              names : SUBSET AllAbilities]
TaskState == [phase : {"idle", "starting", "running", "asking", "answered", "reconfiguring"},
              names : SUBSET AllAbilities, todo : Seq(AllAbilities), held : AtMostOne(BtnConfig),
              rev : AtMostOne(Versions), status : {"none", "noChange", "content", "failed"},
              served : AtMostOne(Versions)]
Spent == [reloads : 0..MaxReloads, troubles : 0..MaxTroubles]

NotGetting == [phase |-> "idle", url |-> NoUrl, generation |-> 0, fits |-> {},
               names |-> {}]
NoTask == [phase |-> "idle", names |-> {}, todo |-> <<>>, held |-> {}, rev |-> {},
           status |-> "none", served |-> {}]
NoLists == [k \in Kinds |-> {}]
Once(what) == spent' = [spent EXCEPT ![what] = @ + 1]

(* btn_isGettingConfig, taken by compare-and-swap.                         *)
IsGettingConfig == \E g \in {Loop, Task} : getter[g].phase \in {"asking", "answered"}
-----------------------------------------------------------------------------
(* Reloading.                                                              *)

ReplaceConfig(c) ==
  /\ ~reloading /\ spent.reloads < MaxReloads
  /\ config' = c
  /\ reloading' = TRUE
  /\ Once("reloads")
  /\ UNCHANGED <<generation, stateVars, configDue, due, getter, task, server>>

(* The configuration downloaded is not that of the server now named.       *)
OtherServer == config.url = NoUrl \/ \E c \in btnConfig : c.url # config.url

InitConfig ==
  /\ reloading
  /\ reloading'  = FALSE
  /\ generation' = generation + 1
  /\ configDue'  = TRUE
  /\ IF OtherServer THEN btnConfig' = {} /\ lists' = NoLists ELSE UNCHANGED stateVars
  /\ UNCHANGED <<config, due, getter, task, server, spent>>
-----------------------------------------------------------------------------
(* BTN_GetConfig.                                                          *)

Calls(g) == getter[g].phase = "idle" /\ (g = Task => task.phase = "reconfiguring")

(* The configuration and the generation are read together; without a URL   *)
(* there is nothing to download and nothing to keep.                       *)
GetConfigDisabled(g) ==
  /\ Calls(g) /\ config.url = NoUrl
  /\ btnConfig' = {} /\ lists' = NoLists
  /\ task' = IF g = Task THEN [task EXCEPT !.phase = "running"] ELSE task
  /\ UNCHANGED <<config, reloading, generation, configDue, due, getter, server, spent>>

GetConfigTooEarly ==
  /\ Calls(Task) /\ config.url # NoUrl /\ ~configDue
  /\ task' = [task EXCEPT !.phase = "running"]
  /\ UNCHANGED <<config, reloading, generation, stateVars, configDue, due, getter,
                 server, spent>>

GetConfig(g) ==
  /\ Calls(g) /\ config.url # NoUrl /\ configDue
  /\ getter' = [getter EXCEPT ![g] = [NotGetting EXCEPT
                   !.phase = "ready", !.url = config.url, !.generation = generation]]
  /\ UNCHANGED <<config, reloading, generation, stateVars, configDue, due, task,
                 server, spent>>

Return(g) ==
  /\ getter' = [getter EXCEPT ![g] = NotGetting]
  /\ task' = IF g = Task THEN [task EXCEPT !.phase = "running"] ELSE task

(* One download at a time; the other caller gives up.                      *)
RequestConfig(g) ==
  /\ getter[g].phase = "ready"
  /\ IF IsGettingConfig THEN Return(g) /\ UNCHANGED configDue
     ELSE /\ configDue' = FALSE
          /\ getter' = [getter EXCEPT ![g].phase = "asking"]
          /\ UNCHANGED task
  /\ UNCHANGED <<config, reloading, generation, stateVars, due, server, spent>>

ConfigAnswered(g) ==
  /\ getter[g].phase = "asking"
  /\ getter' = [getter EXCEPT ![g].phase = "answered",
                              ![g].fits = {server[getter[g].url].fits},
                              ![g].names = server[getter[g].url].names]
  /\ UNCHANGED <<config, reloading, generation, stateVars, configDue, due, task,
                 server, spent>>

(* No answer, too large a one, or one that is no JSON.                     *)
ConfigFails(g) ==
  /\ getter[g].phase = "asking" /\ spent.troubles < MaxTroubles
  /\ Return(g)
  /\ Once("troubles")
  /\ UNCHANGED <<config, reloading, generation, stateVars, configDue, due, server>>

StillWanted(g) == getter[g].generation = generation /\ getter[g].url = config.url

(* An address that nobody still points to.                                 *)
NewAddress == CHOOSE a \in Addresses : \A c \in btnConfig \cup task.held : c.address # a

(* The answer takes effect unless the configuration has been reloaded since*)
(* the call.  A server of another protocol version is left alone, but the  *)
(* lists it has sent stay.                                                 *)
InstallConfig(g) ==
  /\ getter[g].phase = "answered"
  /\ Return(g)
  /\ \/ /\ ~StillWanted(g)
        /\ UNCHANGED btnConfig
     \/ /\ StillWanted(g) /\ getter[g].fits = {FALSE}
        /\ btnConfig' = {}
     \/ /\ StillWanted(g) /\ getter[g].fits = {TRUE}
        /\ btnConfig' = {[url |-> getter[g].url, address |-> NewAddress,
                           names |-> getter[g].names]}
  /\ UNCHANGED <<config, reloading, generation, lists, configDue, due, server, spent>>
-----------------------------------------------------------------------------
(* BTN_Task.                                                               *)

StartTask ==
  /\ ~reloading /\ config.url # NoUrl
  /\ ~IsGettingConfig /\ task.phase = "idle" /\ btnConfig # {}
  /\ task' = [NoTask EXCEPT !.phase = "starting"]
  /\ UNCHANGED <<config, reloading, generation, stateVars, configDue, due, getter,
                 server, spent>>

(* The configuration in force when the task begins names its abilities.    *)
EnterTask ==
  /\ task.phase = "starting"
  /\ task' = IF btnConfig = {} THEN NoTask
             ELSE [task EXCEPT !.phase = "running", !.todo = Abilities,
                               !.names = UNION {c.names : c \in btnConfig}]
  /\ UNCHANGED <<config, reloading, generation, stateVars, configDue, due, getter,
                 server, spent>>

Ability == Head(task.todo)
Proceed(t) == [NoTask EXCEPT !.phase = "running", !.names = t.names, !.todo = Tail(t.todo)]
Wanted == Ability \in task.names /\ (Ability = Reconfigure \/ Ability \in config.sync)

(* Mutant: btn_isTaskRunning is not taken back.                            *)
EndTask_FlagKept == task.phase = "running" /\ task.todo = <<>> /\ UNCHANGED vars

EndTask ==
  /\ task.phase = "running" /\ task.todo = <<>>
  /\ task' = NoTask
  /\ UNCHANGED <<config, reloading, generation, stateVars, configDue, due, getter,
                 server, spent>>

(* An ability that is switched off, not named or not due; one that has no  *)
(* configuration, or a changing one, to work with also counts as executed. *)
PassOver ==
  /\ task.phase = "running" /\ task.todo # <<>>
  /\ \/ (~Wanted \/ Ability \notin due) /\ UNCHANGED due
     \/ /\ Wanted /\ Ability \in due /\ (IsGettingConfig \/ btnConfig = {})
        /\ due' = due \ {Ability}
  /\ task' = Proceed(task)
  /\ UNCHANGED <<config, reloading, generation, stateVars, configDue, getter,
                 server, spent>>

(* Ask with the version of the list in force, and under the configuration  *)
(* now in force.                                                           *)
AskForList ==
  /\ task.phase = "running" /\ task.todo # <<>>
  /\ Wanted /\ Ability \in due /\ ~IsGettingConfig /\ btnConfig # {}
  /\ task' = [task EXCEPT
        !.phase = "asking", !.held = btnConfig,
        !.rev = IF Ability \in Kinds THEN {l.version : l \in lists[Ability]} ELSE {}]
  /\ UNCHANGED <<config, reloading, generation, stateVars, configDue, due, getter,
                 server, spent>>

Server == server[(CHOOSE c \in task.held : TRUE).url]
HasEndpoint == \E c \in task.held : Ability \in c.names

(* A list is sent unless it is the one asked about; whether a              *)
(* configuration has changed is the server's word.                         *)
ListAnswered ==
  /\ task.phase = "asking" /\ HasEndpoint
  /\ \/ /\ Ability \in Kinds
        /\ LET served == {Server.version[Ability]}
           IN  task' = [task EXCEPT !.phase = "answered", !.served = served,
                 !.status = IF task.rev = served THEN "noChange" ELSE "content"]
     \/ /\ Ability = Reconfigure
        /\ \E status \in {"noChange", "content"} :
              task' = [task EXCEPT !.phase = "answered", !.status = status]
  /\ UNCHANGED <<config, reloading, generation, stateVars, configDue, due, getter,
                 server, spent>>

ListFails ==
  /\ task.phase = "asking" /\ HasEndpoint /\ spent.troubles < MaxTroubles
  /\ task' = [task EXCEPT !.phase = "answered", !.status = "failed"]
  /\ Once("troubles")
  /\ UNCHANGED <<config, reloading, generation, stateVars, configDue, due, getter,
                 server>>

(* A configuration that came after the task began and does not name the    *)
(* ability has no address to ask.                                          *)
NobodyToAsk ==
  /\ task.phase = "asking" /\ ~HasEndpoint
  /\ task' = [task EXCEPT !.phase = "answered", !.status = "failed"]
  /\ UNCHANGED <<config, reloading, generation, stateVars, configDue, due, getter,
                 server, spent>>

(* The pointer is still the one the list was asked for with.               *)
SameConfig == btnConfig = task.held

(* Mutant: any configuration will do.                                      *)
InstallList_AnyConfig ==
  IF Ability \in Kinds /\ task.status = "content" /\ btnConfig # {}
  THEN \E c \in task.held, v \in task.served :
         lists' = [lists EXCEPT ![Ability] = {[url |-> c.url, version |-> v]}]
  ELSE UNCHANGED lists

(* Mutant: the first list stays.                                           *)
InstallList_FirstStays ==
  IF Ability \in Kinds /\ task.status = "content" /\ SameConfig /\ lists[Ability] = {}
  THEN \E c \in task.held, v \in task.served :
         lists' = [lists EXCEPT ![Ability] = {[url |-> c.url, version |-> v]}]
  ELSE UNCHANGED lists

(* Mutant: a list adds to the one before.                                  *)
InstallList_Added ==
  IF Ability \in Kinds /\ task.status = "content" /\ SameConfig
  THEN \E c \in task.held, v \in task.served :
         lists' = [lists EXCEPT ![Ability] = @ \cup {[url |-> c.url, version |-> v]}]
  ELSE UNCHANGED lists

InstallList ==
  IF Ability \in Kinds /\ task.status = "content" /\ SameConfig
  THEN \E c \in task.held, v \in task.served :
         lists' = [lists EXCEPT ![Ability] = {[url |-> c.url, version |-> v]}]
  ELSE UNCHANGED lists

(* The interval starts anew, whatever came of it.                          *)
EndAbility ==
  /\ due' = due \ {Ability}
  /\ task' = IF Ability = Reconfigure /\ task.status = "content"
             THEN [Proceed(task) EXCEPT !.phase = "reconfiguring"]
             ELSE Proceed(task)

AcceptList ==
  /\ task.phase = "answered"
  /\ InstallList
  /\ EndAbility
  /\ UNCHANGED <<config, reloading, generation, btnConfig, configDue, getter,
                 server, spent>>
-----------------------------------------------------------------------------
(* The environment.                                                        *)

ConfigIntervalPasses ==
  /\ ~configDue
  /\ configDue' = TRUE
  /\ UNCHANGED <<config, reloading, generation, stateVars, due, getter, task,
                 server, spent>>

IntervalPasses(a) ==
  /\ a \notin due
  /\ due' = due \cup {a}
  /\ UNCHANGED <<config, reloading, generation, stateVars, configDue, getter, task,
                 server, spent>>

ServerChanges(u, service) ==
  /\ spent.troubles < MaxTroubles
  /\ service # server[u]
  /\ server' = [server EXCEPT ![u] = service]
  /\ Once("troubles")
  /\ UNCHANGED <<config, reloading, generation, stateVars, configDue, due, getter,
                 task>>
-----------------------------------------------------------------------------
Init ==
  /\ config \in Configs
  /\ reloading = TRUE /\ generation = 0
  /\ btnConfig = {} /\ lists = NoLists
  /\ configDue = TRUE /\ due = {}
  /\ getter = [g \in {Loop, Task} |-> NotGetting]
  /\ task = NoTask
  /\ server \in [Urls -> UNION Range(Services)]
  /\ \A u \in Urls : server[u] \in Services[u]
  /\ spent = [reloads |-> 0, troubles |-> 0]

(* A goroutine started by the last scan may begin during the next reload.  *)
LoopCallsGetConfig == generation > 0 /\ (GetConfigDisabled(Loop) \/ GetConfig(Loop))

Next ==
  \/ \E c \in Configs : ReplaceConfig(c)
  \/ InitConfig
  \/ LoopCallsGetConfig
  \/ GetConfigDisabled(Task)
  \/ GetConfigTooEarly
  \/ GetConfig(Task)
  \/ \E g \in {Loop, Task} : RequestConfig(g) \/ ConfigAnswered(g) \/ ConfigFails(g)
                               \/ InstallConfig(g)
  \/ StartTask
  \/ EnterTask
  \/ EndTask
  \/ PassOver
  \/ AskForList
  \/ ListAnswered
  \/ ListFails
  \/ NobodyToAsk
  \/ AcceptList
  \/ ConfigIntervalPasses
  \/ \E a \in AllAbilities : IntervalPasses(a)
  \/ \E u \in Urls : \E service \in Services[u] : ServerChanges(u, service)

GetterSteps(g) == RequestConfig(g) \/ ConfigAnswered(g) \/ InstallConfig(g)
TaskSteps == \/ EnterTask \/ EndTask \/ PassOver \/ ListAnswered \/ NobodyToAsk \/ AcceptList
             \/ GetConfigDisabled(Task) \/ GetConfigTooEarly \/ GetConfig(Task)

(* A goroutine goes on and a request ends; time passes.  A scan follows a  *)
(* scan, and a download of the configuration, once a minute, does not      *)
(* always fall on the moment a task or a list's turn begins.               *)
Fairness ==
  /\ WF_vars(InitConfig)
  /\ WF_vars(LoopCallsGetConfig)
  /\ \A g \in {Loop, Task} : WF_vars(GetterSteps(g))
  /\ WF_vars(TaskSteps)
  /\ SF_vars(StartTask)
  /\ SF_vars(AskForList)
  /\ WF_vars(ConfigIntervalPasses)
  /\ \A k \in Kinds : WF_vars(IntervalPasses(k))

Spec == Init /\ [][Next]_vars
FairSpec == Spec /\ Fairness
-----------------------------------------------------------------------------
(* Every variable keeps its type; there is at most one configuration and   *)
(* one list of a kind.                                                     *)
TypeOK ==
  /\ config \in Configs /\ reloading \in BOOLEAN /\ generation \in Nat
  /\ btnConfig \in AtMostOne(BtnConfig)
  /\ lists \in [Kinds -> AtMostOne(List)]
  /\ configDue \in BOOLEAN /\ due \subseteq AllAbilities
  /\ getter \in [{Loop, Task} -> Getter]
  /\ task \in TaskState
  /\ DOMAIN server = Urls /\ \A u \in Urls : server[u] \in Services[u]
  /\ spent \in Spent

\* A configuration that is still on its way when the user names another
\* server, or none, does not come into force.
ConfigOfTheServer == ~reloading => \A c \in btnConfig : c.url = config.url

(* Only the configuration of the server that the user names is in force,   *)
(* and a list that is put in force is of the server whose configuration    *)
(* is, whatever reloads and downloads the goroutine that installs it       *)
(* overlapped.                                                             *)
ListsFollowConfig ==
  /\ []ConfigOfTheServer
  /\ [][ \A k \in Kinds : \A l \in lists'[k] \ lists[k] :
           \E c \in btnConfig' : c.url = l.url ]_vars

(* What README.en.md says of btnSyncRules, "Sync BTN server cloud ban      *)
(* rules": the lists that BTN_CheckPeer looks at, which it does only while *)
(* there is a configuration, are those of the server named.                *)
InForce(k) == IF btnConfig = {} THEN {} ELSE lists[k]
SyncedWithTheServer ==
  ~reloading => \A k \in Kinds : \A l \in InForce(k) : l.url = config.url

(* After an answer, also one of "no change", the list in force is the one  *)
(* the server had when it answered, unless the configuration it was asked  *)
(* for with is gone.                                                       *)
AcceptedIsServed ==
  [][ task.phase = "answered" /\ task'.phase # "answered"
        /\ Ability \in Kinds /\ task.status # "failed" /\ SameConfig
      => {l.version : l \in lists'[Ability]} = task.served ]_vars

(* Once configuration, servers and network have settled, the lists wanted  *)
(* are those of a server that speaks the protocol and names them, unless   *)
(* every turn of a list is lost to the download of a configuration that it *)
(* overlaps.                                                               *)
TurnLost == \/ PassOver /\ due' # due /\ IsGettingConfig
            \/ AcceptList /\ ~SameConfig
ListsArrive ==
  <>[][~TurnLost]_vars =>
  <>[](config.url # NoUrl /\ server[config.url].fits =>
         \A k \in config.sync \cap server[config.url].names :
            {l.version : l \in InForce(k)} = {server[config.url].version[k]})
=============================================================================
