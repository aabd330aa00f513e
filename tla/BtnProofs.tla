----------------------------- MODULE BtnProofs -----------------------------
(***************************************************************************)
(* Proofs about the BTN client, for every set of servers, configurations,  *)
(* kinds of lists and order of the abilities, and any number of reloads.   *)
(***************************************************************************)
EXTENDS Btn, SequenceTheorems, TLAPS

\* While a list is asked for, its turn has come, and the request was made
\* under some configuration.  As long as that one is in force, nobody else
\* touches the list: the version sent along is that of the list in force.
AskInv ==
  task.phase \in {"asking", "answered"} =>
    /\ task.todo # <<>>
    /\ \E c \in BtnConfig : task.held = {c}
    /\ SameConfig /\ Ability \in Kinds =>
         task.rev = {l.version : l \in lists[Ability]}

\* What an answer may be: a list, or the word that it has not changed.
AnswerInv ==
  task.phase = "answered" =>
    /\ task.status \in {"noChange", "content", "failed"}
    /\ Ability \in Kinds /\ task.status # "failed" =>
         /\ \E v \in Versions : task.served = {v}
         /\ task.status = "noChange" => task.rev = task.served

\* The task waits for the download that "reconfigure" calls for.
CallInv == getter[Task].phase # "idle" => task.phase = "reconfiguring"

\* A download is of a server's configuration.
UrlInv == \A g \in {Loop, Task} : getter[g].phase # "idle" => getter[g].url \in Urls

BtnInv == TypeOK /\ ConfigOfTheServer /\ AskInv /\ AnswerInv /\ CallInv /\ UrlInv
-----------------------------------------------------------------------------
(* Types.                                                                  *)

LEMMA InitBtnInv == Init => BtnInv
<1> SUFFICES ASSUME Init PROVE BtnInv
  OBVIOUS
<1> USE DEF Init
<1>1. NotGetting \in Getter /\ NoTask \in TaskState
  BY DEF NotGetting, NoTask, Getter, TaskState, AtMostOne
<1>2. spent \in Spent
  BY BoundAssumption DEF Spent
<1>3. DOMAIN server = Urls
  OBVIOUS
<1>4. TypeOK
  BY <1>1, <1>2, <1>3 DEF TypeOK, NoLists, AtMostOne
<1>5. AskInv /\ AnswerInv /\ CallInv /\ UrlInv /\ ConfigOfTheServer
  BY NameAssumption
  DEF AskInv, AnswerInv, CallInv, UrlInv, ConfigOfTheServer, NoTask, NotGetting
<1> QED
  BY <1>4, <1>5 DEF BtnInv

LEMMA NoTaskType == NoTask \in TaskState /\ NoTask.phase = "idle"
BY DEF NoTask, TaskState, AtMostOne

\* What a step of a task's turn leaves of it.
LEMMA ProceedType == ASSUME TypeOK, task.todo # <<>>
                     PROVE  /\ Ability \in AllAbilities
                            /\ Proceed(task) \in TaskState
                            /\ Proceed(task).phase = "running"
<1>0. task.names \in SUBSET AllAbilities
  BY DEF TypeOK, TaskState
<1>1. task.todo \in Seq(AllAbilities)
  BY DEF TypeOK, TaskState
<1>2. Ability \in AllAbilities /\ Tail(task.todo) \in Seq(AllAbilities)
  BY <1>1 DEF Ability
<1> QED
  BY <1>0, <1>2 DEF Proceed, NoTask, TaskState, AtMostOne

\* The events that the environment has left are counted.
LEMMA OnceType ==
  ASSUME spent \in Spent, NEW what \in {"reloads", "troubles"}, Once(what),
         IF what = "reloads" THEN spent.reloads < MaxReloads ELSE spent.troubles < MaxTroubles
  PROVE  spent' \in Spent
BY BoundAssumption DEF Spent, Once

\* At most two configurations are pointed to, so an address is left.
LEMMA NewAddressIsNew ==
  ASSUME TypeOK
  PROVE  /\ NewAddress \in Addresses
         /\ \A c \in btnConfig \cup task.held : c.address # NewAddress
<1>1. btnConfig \in AtMostOne(BtnConfig) /\ task.held \in AtMostOne(BtnConfig)
  BY DEF TypeOK, TaskState
<1>2. \A x, y \in btnConfig : x = y
  BY <1>1 DEF AtMostOne
<1>3. \A x, y \in task.held : x = y
  BY <1>1 DEF AtMostOne
<1>4. \E a \in Addresses : \A c \in btnConfig \cup task.held : c.address # a
  BY <1>2, <1>3, AddressAssumption
<1> QED
  BY <1>4 DEF NewAddress

\* Steps that leave the configuration, the lists and both goroutines alone.
LEMMA EnvironmentKeeps ==
  ASSUME BtnInv, TypeOK', UNCHANGED <<btnConfig, lists, getter, task>>,
         ~reloading' => ~reloading /\ config' = config
  PROVE  BtnInv'
<1> USE DEF BtnInv
<1>1. ConfigOfTheServer'
  BY DEF ConfigOfTheServer
<1>2. AskInv' /\ AnswerInv' /\ CallInv' /\ UrlInv'
  BY DEF AskInv, AnswerInv, CallInv, UrlInv, SameConfig, Ability
<1> QED
  BY <1>1, <1>2
-----------------------------------------------------------------------------
(* Reloading.                                                              *)

LEMMA ReplaceConfigInv ==
  ASSUME BtnInv, NEW c \in Configs, ReplaceConfig(c) PROVE BtnInv'
<1>1. /\ config' = c /\ reloading' = TRUE /\ spent.reloads < MaxReloads /\ Once("reloads")
      /\ UNCHANGED <<generation, btnConfig, lists, configDue, due, getter, task, server>>
  BY DEF ReplaceConfig, stateVars
<1>2. spent' \in Spent
  BY <1>1, OnceType DEF BtnInv, TypeOK
<1>3. TypeOK'
  BY <1>1, <1>2 DEF BtnInv, TypeOK
<1> QED
  BY <1>1, <1>3, EnvironmentKeeps

\* Whatever another server has sent goes; so what is left is of the server named.
LEMMA InitConfigInv == ASSUME BtnInv, InitConfig PROVE BtnInv'
<1> USE DEF BtnInv
<1>0. generation' \in Nat
  BY DEF InitConfig, TypeOK
<1>1. /\ reloading' = FALSE /\ configDue' = TRUE
      /\ UNCHANGED <<config, due, getter, task, server, spent>>
  BY DEF InitConfig
<1>2. CASE OtherServer
  <2>1. btnConfig' = {} /\ lists' = NoLists
    BY <1>2 DEF InitConfig
  <2>2. btnConfig' \in AtMostOne(BtnConfig) /\ lists' \in [Kinds -> AtMostOne(List)]
    BY <2>1 DEF NoLists, AtMostOne
  <2>3. TypeOK'
    BY <1>0, <1>1, <2>2 DEF TypeOK
  <2>4. ConfigOfTheServer' /\ AskInv' /\ AnswerInv' /\ CallInv' /\ UrlInv'
    BY <1>1, <2>1
    DEF ConfigOfTheServer, AskInv, AnswerInv, CallInv, UrlInv, SameConfig, Ability
  <2> QED
    BY <2>3, <2>4
<1>3. CASE ~OtherServer
  <2>1. UNCHANGED <<btnConfig, lists>>
    BY <1>3 DEF InitConfig, stateVars
  <2>2. TypeOK'
    BY <1>0, <1>1, <2>1 DEF TypeOK
  <2>3. ConfigOfTheServer'
    BY <1>1, <1>3, <2>1 DEF OtherServer, ConfigOfTheServer
  <2>4. AskInv' /\ AnswerInv' /\ CallInv' /\ UrlInv'
    BY <1>1, <2>1 DEF AskInv, AnswerInv, CallInv, UrlInv, SameConfig, Ability
  <2> QED
    BY <2>2, <2>3, <2>4
<1> QED
  BY <1>2, <1>3
-----------------------------------------------------------------------------
(* BTN_GetConfig.                                                          *)

\* The task stays as it is, or the call it waits for returns.
Resumes(g) == task' = IF g = Task THEN [task EXCEPT !.phase = "running"] ELSE task

LEMMA ResumesKeeps ==
  ASSUME BtnInv, NEW g \in {Loop, Task}, Resumes(g),
         g = Task => task.phase = "reconfiguring",
         getter'[Task].phase # "idle" => getter[Task].phase # "idle" /\ g # Task,
         \/ UNCHANGED <<btnConfig, lists>>
         \/ /\ UNCHANGED lists
            /\ \A c \in btnConfig' : c \notin task.held
         \/ btnConfig' = {}
  PROVE  task' \in TaskState /\ AskInv' /\ AnswerInv' /\ CallInv'
<1> USE DEF BtnInv
<1>1. task \in TaskState
  BY DEF TypeOK
<1>2. CASE g = Task
  <2>1. task' = [task EXCEPT !.phase = "running"]
    BY <1>2 DEF Resumes
  <2>2. task'.phase = "running" /\ task' \in TaskState
    BY <1>1, <2>1 DEF TaskState
  <2>3. getter'[Task].phase = "idle"
    BY <1>2
  <2> QED
    BY <2>2, <2>3 DEF AskInv, AnswerInv, CallInv
<1>3. CASE g # Task
  <2>1. task' = task
    BY <1>3 DEF Resumes
  <2>2. AnswerInv' /\ CallInv'
    BY <2>1 DEF AnswerInv, CallInv, Ability
  <2>3. AskInv'
    BY <2>1 DEF AskInv, SameConfig, Ability
  <2> QED
    BY <1>1, <2>1, <2>2, <2>3
<1> QED
  BY <1>2, <1>3

LEMMA GetConfigDisabledInv ==
  ASSUME BtnInv, NEW g \in {Loop, Task}, GetConfigDisabled(g) PROVE BtnInv'
<1> USE DEF BtnInv
<1>1. /\ btnConfig' = {} /\ lists' = NoLists /\ Resumes(g) /\ getter[g].phase = "idle"
      /\ g = Task => task.phase = "reconfiguring"
      /\ UNCHANGED <<config, reloading, generation, configDue, due, getter, server, spent>>
  BY DEF GetConfigDisabled, Calls, Resumes
<1>2. task' \in TaskState /\ AskInv' /\ AnswerInv' /\ CallInv'
  BY <1>1, ResumesKeeps
<1>3. TypeOK' /\ ConfigOfTheServer' /\ UrlInv'
  BY <1>1, <1>2 DEF TypeOK, ConfigOfTheServer, UrlInv, NoLists, AtMostOne
<1> QED
  BY <1>2, <1>3

LEMMA GetConfigTooEarlyInv == ASSUME BtnInv, GetConfigTooEarly PROVE BtnInv'
<1> USE DEF BtnInv
<1>1. /\ Resumes(Task) /\ getter[Task].phase = "idle" /\ task.phase = "reconfiguring"
      /\ UNCHANGED <<config, reloading, generation, btnConfig, lists, configDue, due, getter,
                     server, spent>>
  BY DEF GetConfigTooEarly, Calls, Resumes, stateVars
<1>2. task' \in TaskState /\ AskInv' /\ AnswerInv' /\ CallInv'
  BY <1>1, ResumesKeeps
<1>3. TypeOK' /\ ConfigOfTheServer' /\ UrlInv'
  BY <1>1, <1>2 DEF TypeOK, ConfigOfTheServer, UrlInv
<1> QED
  BY <1>2, <1>3

LEMMA GetConfigInv ==
  ASSUME BtnInv, NEW g \in {Loop, Task}, GetConfig(g) PROVE BtnInv'
<1> USE DEF BtnInv
<1> DEFINE new == [NotGetting EXCEPT !.phase = "ready", !.url = config.url,
                                     !.generation = generation]
<1>1. /\ getter' = [getter EXCEPT ![g] = new]
      /\ g = Task => task.phase = "reconfiguring"
      /\ UNCHANGED <<config, reloading, generation, btnConfig, lists, configDue, due, task,
                     server, spent>>
  BY DEF GetConfig, Calls, stateVars
<1>2. config.url \in Urls /\ generation \in Nat
  BY ConfigAssumption DEF TypeOK, GetConfig
<1>3. new \in Getter
  BY <1>2 DEF NotGetting, Getter, AtMostOne
<1>4. TypeOK'
  BY <1>1, <1>3 DEF TypeOK
<1>5. ConfigOfTheServer' /\ AskInv' /\ AnswerInv'
  BY <1>1 DEF ConfigOfTheServer, AskInv, AnswerInv, SameConfig, Ability
<1>6. CallInv' /\ UrlInv'
  BY <1>1, <1>2, NameAssumption DEF CallInv, UrlInv, TypeOK, NotGetting
<1> QED
  BY <1>4, <1>5, <1>6

\* The download goes on, and concerns nobody else.
LEMMA GetterGoesOn ==
  ASSUME BtnInv, NEW g \in {Loop, Task}, NEW new \in Getter,
         getter[g].phase # "idle", new.url = getter[g].url,
         getter' = [getter EXCEPT ![g] = new], configDue' \in BOOLEAN,
         UNCHANGED <<config, reloading, generation, stateVars, due, task, server, spent>>
  PROVE  BtnInv'
<1> USE DEF BtnInv, stateVars
<1>1. TypeOK'
  BY DEF TypeOK
<1>2. ConfigOfTheServer' /\ AskInv' /\ AnswerInv'
  BY DEF ConfigOfTheServer, AskInv, AnswerInv, SameConfig, Ability
<1>3. CallInv' /\ UrlInv'
  BY NameAssumption DEF CallInv, UrlInv, TypeOK
<1> QED
  BY <1>1, <1>2, <1>3

\* The call returns without having changed anything.
LEMMA ReturnKeeps ==
  ASSUME BtnInv, NEW g \in {Loop, Task}, Return(g), getter[g].phase # "idle", spent' \in Spent,
         UNCHANGED <<config, reloading, generation, stateVars, configDue, due, server>>
  PROVE  BtnInv'
<1> USE DEF BtnInv, stateVars
<1>1. /\ getter' = [getter EXCEPT ![g] = NotGetting] /\ Resumes(g)
      /\ g = Task => task.phase = "reconfiguring"
  BY DEF Return, Resumes, CallInv
<1>2. NotGetting \in Getter /\ NotGetting.phase = "idle"
  BY DEF NotGetting, Getter, AtMostOne
<1>3. getter' \in [{Loop, Task} -> Getter]
      /\ (getter'[Task].phase # "idle" => getter[Task].phase # "idle" /\ g # Task)
  BY <1>1, <1>2, NameAssumption DEF TypeOK
<1>4. task' \in TaskState /\ AskInv' /\ AnswerInv' /\ CallInv'
  BY <1>1, <1>3, ResumesKeeps
<1>5. TypeOK' /\ ConfigOfTheServer'
  BY <1>3, <1>4 DEF TypeOK, ConfigOfTheServer
<1>6. UrlInv'
  BY <1>1, <1>2 DEF UrlInv, TypeOK
<1> QED
  BY <1>4, <1>5, <1>6

LEMMA RequestConfigInv ==
  ASSUME BtnInv, NEW g \in {Loop, Task}, RequestConfig(g) PROVE BtnInv'
<1> USE DEF BtnInv
<1>1. getter[g].phase = "ready" /\ spent' \in Spent
      /\ UNCHANGED <<config, reloading, generation, stateVars, due, server, spent>>
  BY DEF RequestConfig, TypeOK
<1>2. CASE IsGettingConfig
  BY <1>1, <1>2, ReturnKeeps DEF RequestConfig
<1>3. CASE ~IsGettingConfig
  <2>1. configDue' = FALSE /\ getter' = [getter EXCEPT ![g].phase = "asking"] /\ task' = task
    BY <1>3 DEF RequestConfig
  <2> DEFINE new == [getter[g] EXCEPT !.phase = "asking"]
  <2>2. new \in Getter /\ new.url = getter[g].url
    BY DEF TypeOK, Getter
  <2>3. getter' = [getter EXCEPT ![g] = new]
    BY <2>1
  <2> HIDE DEF new
  <2> QED
    BY <1>1, <2>1, <2>2, <2>3, GetterGoesOn
<1> QED
  BY <1>2, <1>3

LEMMA ConfigAnsweredInv ==
  ASSUME BtnInv, NEW g \in {Loop, Task}, ConfigAnswered(g) PROVE BtnInv'
<1> USE DEF BtnInv
<1> DEFINE fits == server[getter[g].url].fits
           names == server[getter[g].url].names
           new == [getter[g] EXCEPT !.phase = "answered", !.fits = {fits}, !.names = names]
<1>1. getter[g].phase = "asking"
      /\ UNCHANGED <<config, reloading, generation, stateVars, configDue, due, task, server, spent>>
  BY DEF ConfigAnswered
<1>2. getter[g].url \in Urls
  BY <1>1 DEF UrlInv
<1>3. fits \in BOOLEAN /\ names \in SUBSET AllAbilities
  BY <1>2, ServiceAssumption DEF TypeOK
<1>4. new \in Getter /\ new.url = getter[g].url
  BY <1>3 DEF TypeOK, Getter, AtMostOne
<1>5. getter' = [getter EXCEPT ![g] = new]
  BY DEF ConfigAnswered
<1>6. configDue' \in BOOLEAN
  BY <1>1 DEF TypeOK
<1> HIDE DEF new
<1> QED
  BY <1>1, <1>4, <1>5, <1>6, GetterGoesOn

LEMMA ConfigFailsInv ==
  ASSUME BtnInv, NEW g \in {Loop, Task}, ConfigFails(g) PROVE BtnInv'
<1> USE DEF BtnInv
<1>1. /\ getter[g].phase = "asking" /\ spent.troubles < MaxTroubles /\ Once("troubles")
      /\ Return(g)
      /\ UNCHANGED <<config, reloading, generation, stateVars, configDue, due, server>>
  BY DEF ConfigFails
<1>2. spent' \in Spent
  BY <1>1, OnceType DEF TypeOK
<1> QED
  BY <1>1, <1>2, ReturnKeeps

\* The installed configuration has a new address: no list was asked for with it.
LEMMA InstallConfigInv ==
  ASSUME BtnInv, NEW g \in {Loop, Task}, InstallConfig(g) PROVE BtnInv'
<1> USE DEF BtnInv
<1> DEFINE installed == [url |-> getter[g].url, address |-> NewAddress, names |-> getter[g].names]
<1>1. /\ getter[g].phase = "answered" /\ getter[g].url \in Urls
      /\ getter' = [getter EXCEPT ![g] = NotGetting] /\ Resumes(g)
      /\ g = Task => task.phase = "reconfiguring"
      /\ UNCHANGED <<config, reloading, generation, lists, configDue, due, server, spent>>
  BY DEF InstallConfig, Return, Resumes, CallInv, UrlInv
<1>2. \/ btnConfig' = btnConfig
      \/ btnConfig' = {}
      \/ btnConfig' = {installed} /\ getter[g].url = config.url
  BY DEF InstallConfig, StillWanted
<1>3. installed \in BtnConfig /\ installed \notin task.held
  <2>1. getter[g].names \in SUBSET AllAbilities
    BY DEF TypeOK, Getter
  <2> QED
    BY <1>1, <2>1, NewAddressIsNew DEF BtnConfig
<1>4. NotGetting \in Getter /\ NotGetting.phase = "idle"
  BY DEF NotGetting, Getter, AtMostOne
<1>5. getter' \in [{Loop, Task} -> Getter]
      /\ (getter'[Task].phase # "idle" => getter[Task].phase # "idle" /\ g # Task)
  BY <1>1, <1>4, NameAssumption DEF TypeOK
<1>6. btnConfig' \in AtMostOne(BtnConfig)
  BY <1>2, <1>3 DEF AtMostOne, TypeOK
<1>7. \/ UNCHANGED <<btnConfig, lists>>
      \/ UNCHANGED lists /\ \A c \in btnConfig' : c \notin task.held
  BY <1>1, <1>2, <1>3
<1>8. task' \in TaskState /\ AskInv' /\ AnswerInv' /\ CallInv'
  BY <1>1, <1>5, <1>7, ResumesKeeps
<1>9. TypeOK'
  BY <1>1, <1>5, <1>6, <1>8 DEF TypeOK
<1>10. ConfigOfTheServer'
  BY <1>1, <1>2 DEF ConfigOfTheServer
<1>11. UrlInv'
  BY <1>1, <1>4 DEF UrlInv, TypeOK
<1> QED
  BY <1>8, <1>9, <1>10, <1>11
-----------------------------------------------------------------------------
(* BTN_Task.                                                               *)

\* A step of the task leaves the downloads of the configuration alone.
LEMMA TaskKeeps ==
  ASSUME BtnInv, task.phase # "reconfiguring",
         task' \in TaskState, lists' \in [Kinds -> AtMostOne(List)],
         due' \subseteq AllAbilities, spent' \in Spent,
         UNCHANGED <<config, reloading, generation, btnConfig, configDue, getter, server>>
  PROVE  TypeOK' /\ ConfigOfTheServer' /\ CallInv' /\ UrlInv'
<1> USE DEF BtnInv
<1>1. TypeOK'
  BY DEF TypeOK
<1>2. ConfigOfTheServer' /\ CallInv' /\ UrlInv'
  BY DEF ConfigOfTheServer, CallInv, UrlInv
<1> QED
  BY <1>1, <1>2

LEMMA StartTaskInv == ASSUME BtnInv, StartTask PROVE BtnInv'
<1> USE DEF BtnInv
<1>1. /\ task' = [NoTask EXCEPT !.phase = "starting"] /\ task.phase = "idle"
      /\ UNCHANGED <<config, reloading, generation, btnConfig, lists, configDue, due, getter,
                     server, spent>>
  BY DEF StartTask, stateVars
<1>2. task' \in TaskState /\ task'.phase = "starting"
  BY <1>1, NoTaskType DEF TaskState
<1>3. TypeOK' /\ ConfigOfTheServer' /\ CallInv' /\ UrlInv'
  BY <1>1, <1>2, TaskKeeps DEF TypeOK
<1> QED
  BY <1>2, <1>3 DEF AskInv, AnswerInv

LEMMA EnterTaskInv == ASSUME BtnInv, EnterTask PROVE BtnInv'
<1> USE DEF BtnInv
<1>1. /\ task' = IF btnConfig = {} THEN NoTask
                 ELSE [task EXCEPT !.phase = "running", !.todo = Abilities,
                                   !.names = UNION {c.names : c \in btnConfig}]
      /\ task.phase = "starting"
      /\ UNCHANGED <<config, reloading, generation, btnConfig, lists, configDue, due, getter,
                     server, spent>>
  BY DEF EnterTask, stateVars
<1>2. task \in TaskState /\ UNION {c.names : c \in btnConfig} \in SUBSET AllAbilities
  BY DEF TypeOK, AtMostOne, BtnConfig
<1>3. task' \in TaskState /\ task'.phase \in {"idle", "running"}
  BY <1>1, <1>2, AbilityAssumption, NoTaskType DEF TaskState
<1>4. TypeOK' /\ ConfigOfTheServer' /\ CallInv' /\ UrlInv'
  BY <1>1, <1>3, TaskKeeps DEF TypeOK
<1> QED
  BY <1>3, <1>4 DEF AskInv, AnswerInv

LEMMA EndTaskInv == ASSUME BtnInv, EndTask PROVE BtnInv'
<1> USE DEF BtnInv
<1>1. /\ task' = NoTask /\ task.phase = "running"
      /\ UNCHANGED <<config, reloading, generation, btnConfig, lists, configDue, due, getter,
                     server, spent>>
  BY DEF EndTask, stateVars
<1>2. task' \in TaskState /\ task'.phase = "idle"
  BY <1>1, NoTaskType
<1>3. TypeOK' /\ ConfigOfTheServer' /\ CallInv' /\ UrlInv'
  BY <1>1, <1>2, TaskKeeps DEF TypeOK
<1> QED
  BY <1>2, <1>3 DEF AskInv, AnswerInv

LEMMA PassOverInv == ASSUME BtnInv, PassOver PROVE BtnInv'
<1> USE DEF BtnInv
<1>1. /\ task' = Proceed(task) /\ task.phase = "running" /\ task.todo # <<>>
      /\ due' \subseteq due
      /\ UNCHANGED <<config, reloading, generation, btnConfig, lists, configDue, getter,
                     server, spent>>
  BY DEF PassOver, stateVars
<1>2. task' \in TaskState /\ task'.phase = "running"
  BY <1>1, ProceedType
<1>3. due' \subseteq AllAbilities
  BY <1>1 DEF TypeOK
<1>4. TypeOK' /\ ConfigOfTheServer' /\ CallInv' /\ UrlInv'
  BY <1>1, <1>2, <1>3, TaskKeeps DEF TypeOK
<1> QED
  BY <1>2, <1>4 DEF AskInv, AnswerInv

LEMMA AskForListInv == ASSUME BtnInv, AskForList PROVE BtnInv'
<1> USE DEF BtnInv
<1> DEFINE rev == IF Ability \in Kinds THEN {l.version : l \in lists[Ability]} ELSE {}
<1>1. /\ task' = [task EXCEPT !.phase = "asking", !.held = btnConfig, !.rev = rev]
      /\ task.phase = "running" /\ task.todo # <<>> /\ btnConfig # {}
      /\ UNCHANGED <<config, reloading, generation, btnConfig, lists, configDue, due, getter,
                     server, spent>>
  BY DEF AskForList, stateVars
<1>2. task \in TaskState /\ btnConfig \in AtMostOne(BtnConfig)
  BY DEF TypeOK
<1>3. rev \in AtMostOne(Versions)
  BY DEF TypeOK, AtMostOne, List
<1> HIDE DEF rev
<1>4. /\ task' \in TaskState /\ task'.phase = "asking" /\ task'.todo = task.todo
      /\ task'.held = btnConfig /\ task'.rev = rev
  BY <1>1, <1>2, <1>3 DEF TaskState
<1>5. TypeOK' /\ ConfigOfTheServer' /\ CallInv' /\ UrlInv'
  BY <1>1, <1>4, TaskKeeps DEF TypeOK
<1>6. \E c \in BtnConfig : task'.held = {c}
  BY <1>1, <1>2, <1>4 DEF AtMostOne
<1>7. Ability' = Ability /\ lists' = lists
  BY <1>1, <1>4 DEF Ability
<1>8. AskInv'
  BY <1>1, <1>4, <1>6, <1>7 DEF AskInv, rev
<1>9. AnswerInv'
  BY <1>4 DEF AnswerInv
<1> QED
  BY <1>5, <1>8, <1>9

LEMMA ListAnsweredInv == ASSUME BtnInv, ListAnswered PROVE BtnInv'
<1> USE DEF BtnInv
<1>1. /\ task.phase = "asking"
      /\ UNCHANGED <<config, reloading, generation, btnConfig, lists, configDue, due, getter,
                     server, spent>>
  BY DEF ListAnswered, stateVars
<1>2. task \in TaskState
  BY DEF TypeOK
<1>3. PICK c \in BtnConfig : task.held = {c}
  BY <1>1 DEF AskInv
<1>4. Server \in Services[c.url]
  BY <1>3 DEF Server, BtnConfig, TypeOK
<1>5. Ability \in Kinds => Server.version[Ability] \in Versions
  BY <1>3, <1>4, ServiceAssumption DEF BtnConfig
<1>6. PICK status \in {"noChange", "content"}, served \in AtMostOne(Versions) :
        /\ task' = [task EXCEPT !.phase = "answered", !.served = served, !.status = status]
        /\ Ability \in Kinds =>
             /\ \E v \in Versions : served = {v}
             /\ status = "noChange" => task.rev = served
  <2>1. CASE Ability \in Kinds
    <3> DEFINE served == {Server.version[Ability]}
               status == IF task.rev = served THEN "noChange" ELSE "content"
    <3>1. task' = [task EXCEPT !.phase = "answered", !.served = served, !.status = status]
      BY <2>1, NameAssumption DEF ListAnswered
    <3>2. served \in AtMostOne(Versions) /\ \E v \in Versions : served = {v}
      BY <2>1, <1>5 DEF AtMostOne
    <3>3. status \in {"noChange", "content"} /\ (status = "noChange" => task.rev = served)
      OBVIOUS
    <3> QED
      BY <3>1, <3>2, <3>3
  <2>2. CASE Ability \notin Kinds
    <3>1. PICK status \in {"noChange", "content"} :
            task' = [task EXCEPT !.phase = "answered", !.status = status]
      BY <2>2 DEF ListAnswered
    <3>2. task' = [task EXCEPT !.phase = "answered", !.served = task.served, !.status = status]
      BY <3>1, <1>2 DEF TaskState
    <3>3. task.served \in AtMostOne(Versions)
      BY <1>2 DEF TaskState
    <3> QED
      BY <2>2, <3>2, <3>3
  <2> QED
    BY <2>1, <2>2
<1>7. /\ task' \in TaskState /\ task'.phase = "answered" /\ task'.todo = task.todo
      /\ task'.held = task.held /\ task'.rev = task.rev
      /\ task'.status = status /\ task'.served = served
  BY <1>2, <1>6 DEF TaskState
<1>8. TypeOK' /\ ConfigOfTheServer' /\ CallInv' /\ UrlInv'
  BY <1>1, <1>7, TaskKeeps DEF TypeOK
<1>9. AskInv'
  BY <1>1, <1>7 DEF AskInv, SameConfig, Ability
<1>10. AnswerInv'
  BY <1>6, <1>7 DEF AnswerInv, Ability
<1> QED
  BY <1>8, <1>9, <1>10

\* Nothing has been received: neither is the list in force touched.
LEMMA FailureKeeps ==
  ASSUME BtnInv, task.phase = "asking", spent' \in Spent,
         task' = [task EXCEPT !.phase = "answered", !.status = "failed"],
         UNCHANGED <<config, reloading, generation, btnConfig, lists, configDue, due, getter,
                     server>>
  PROVE  BtnInv'
<1> USE DEF BtnInv
<1>1. task \in TaskState
  BY DEF TypeOK
<1>2. /\ task' \in TaskState /\ task'.phase = "answered" /\ task'.todo = task.todo
      /\ task'.held = task.held /\ task'.rev = task.rev /\ task'.status = "failed"
  BY <1>1 DEF TaskState
<1>3. TypeOK' /\ ConfigOfTheServer' /\ CallInv' /\ UrlInv'
  BY <1>2, TaskKeeps DEF TypeOK
<1>4. AskInv' /\ AnswerInv'
  BY <1>2 DEF AskInv, AnswerInv, SameConfig, Ability
<1> QED
  BY <1>3, <1>4

LEMMA ListFailsInv == ASSUME BtnInv, ListFails \/ NobodyToAsk PROVE BtnInv'
<1>1. spent' \in Spent
  BY OnceType DEF ListFails, NobodyToAsk, BtnInv, TypeOK
<1> QED
  BY <1>1, FailureKeeps DEF ListFails, NobodyToAsk, stateVars

\* What is in force after an answer has been dealt with.
LEMMA InstallListLists ==
  ASSUME BtnInv, AcceptList
  PROVE  \/ lists' = lists
         \/ \E c \in task.held : \E v \in task.served :
              /\ Ability \in Kinds /\ SameConfig /\ task.status = "content"
              /\ lists' = [lists EXCEPT ![Ability] = {[url |-> c.url, version |-> v]}]
BY DEF AcceptList, InstallList

LEMMA AcceptListInv == ASSUME BtnInv, AcceptList PROVE BtnInv'
<1> USE DEF BtnInv
<1>1. /\ task.phase = "answered"
      /\ due' \subseteq due
      /\ UNCHANGED <<config, reloading, generation, btnConfig, configDue, getter, server, spent>>
  BY DEF AcceptList, EndAbility
<1>2. task \in TaskState /\ lists \in [Kinds -> AtMostOne(List)]
  BY DEF TypeOK
<1>3. Proceed(task) \in TaskState
  BY <1>1, ProceedType DEF AskInv
<1>4. task' \in TaskState /\ task'.phase \in {"running", "reconfiguring"}
  <2>1. \/ task' = Proceed(task)
        \/ task' = [Proceed(task) EXCEPT !.phase = "reconfiguring"]
    BY DEF AcceptList, EndAbility
  <2>2. Proceed(task).phase = "running"
    BY <1>1, ProceedType DEF AskInv
  <2> QED
    BY <1>3, <2>1, <2>2 DEF TaskState
<1>5. lists' \in [Kinds -> AtMostOne(List)]
  <2>1. \A c \in task.held, v \in task.served : [url |-> c.url, version |-> v] \in List
    BY <1>2 DEF TaskState, AtMostOne, BtnConfig, List
  <2>2. \A l \in List : {l} \in AtMostOne(List)
    BY DEF AtMostOne
  <2> QED
    BY <1>2, <2>1, <2>2, InstallListLists
<1>6. due' \subseteq AllAbilities /\ spent' \in Spent
  BY <1>1 DEF TypeOK
<1>7. TypeOK' /\ ConfigOfTheServer' /\ CallInv' /\ UrlInv'
  BY <1>1, <1>4, <1>5, <1>6, TaskKeeps
<1> QED
  BY <1>4, <1>7 DEF AskInv, AnswerInv
-----------------------------------------------------------------------------
(* The environment.                                                        *)

LEMMA ConfigIntervalInv == ASSUME BtnInv, ConfigIntervalPasses PROVE BtnInv'
<1>1. configDue' = TRUE /\ UNCHANGED <<config, reloading, generation, btnConfig, lists, due,
                                      getter, task, server, spent>>
  BY DEF ConfigIntervalPasses, stateVars
<1>2. TypeOK'
  BY <1>1 DEF BtnInv, TypeOK
<1> QED
  BY <1>1, <1>2, EnvironmentKeeps

LEMMA IntervalInv ==
  ASSUME BtnInv, NEW a \in AllAbilities, IntervalPasses(a) PROVE BtnInv'
<1>1. due' = due \cup {a} /\ UNCHANGED <<config, reloading, generation, btnConfig, lists,
                                         configDue, getter, task, server, spent>>
  BY DEF IntervalPasses, stateVars
<1>2. TypeOK'
  BY <1>1 DEF BtnInv, TypeOK
<1> QED
  BY <1>1, <1>2, EnvironmentKeeps

LEMMA ServerChangesInv ==
  ASSUME BtnInv, NEW u \in Urls, NEW service \in Services[u], ServerChanges(u, service)
  PROVE  BtnInv'
<1>1. /\ server' = [server EXCEPT ![u] = service]
      /\ spent.troubles < MaxTroubles /\ Once("troubles")
      /\ UNCHANGED <<config, reloading, generation, btnConfig, lists, configDue, due, getter,
                     task>>
  BY DEF ServerChanges, stateVars
<1>2. spent' \in Spent
  BY <1>1, OnceType DEF BtnInv, TypeOK
<1>3. DOMAIN server' = Urls /\ \A w \in Urls : server'[w] \in Services[w]
  BY <1>1 DEF BtnInv, TypeOK
<1>4. TypeOK'
  BY <1>1, <1>2, <1>3 DEF BtnInv, TypeOK
<1> QED
  BY <1>1, <1>4, EnvironmentKeeps
-----------------------------------------------------------------------------
(* Every step.                                                             *)

LEMMA StepInv == ASSUME BtnInv, [Next]_vars PROVE BtnInv'
<1>1. CASE UNCHANGED vars
  <2>1. TypeOK'
    BY <1>1 DEF BtnInv, TypeOK, vars, stateVars
  <2> QED
    BY <1>1, <2>1, EnvironmentKeeps DEF vars, stateVars
<1>2. ASSUME NEW c \in Configs, ReplaceConfig(c) PROVE BtnInv'
  BY <1>2, ReplaceConfigInv
<1>3. CASE InitConfig
  BY <1>3, InitConfigInv
<1>4. ASSUME NEW g \in {Loop, Task}, GetConfigDisabled(g) \/ GetConfig(g) PROVE BtnInv'
  BY <1>4, GetConfigDisabledInv, GetConfigInv
<1>5. CASE GetConfigTooEarly
  BY <1>5, GetConfigTooEarlyInv
<1>6. ASSUME NEW g \in {Loop, Task},
             RequestConfig(g) \/ ConfigAnswered(g) \/ ConfigFails(g) \/ InstallConfig(g)
      PROVE  BtnInv'
  BY <1>6, RequestConfigInv, ConfigAnsweredInv, ConfigFailsInv, InstallConfigInv
<1>7. CASE StartTask \/ EnterTask \/ EndTask \/ PassOver
  BY <1>7, StartTaskInv, EnterTaskInv, EndTaskInv, PassOverInv
<1>8. CASE AskForList \/ ListAnswered \/ ListFails \/ NobodyToAsk \/ AcceptList
  BY <1>8, AskForListInv, ListAnsweredInv, ListFailsInv, AcceptListInv
<1>9. CASE ConfigIntervalPasses
  BY <1>9, ConfigIntervalInv
<1>10. ASSUME NEW a \in AllAbilities, IntervalPasses(a) PROVE BtnInv'
  BY <1>10, IntervalInv
<1>11. ASSUME NEW u \in Urls, NEW service \in Services[u], ServerChanges(u, service)
       PROVE  BtnInv'
  BY <1>11, ServerChangesInv
<1> QED
  BY <1>1, <1>2, <1>3, <1>4, <1>5, <1>6, <1>7, <1>8, <1>9, <1>10, <1>11
  DEF Next, LoopCallsGetConfig

\* The invariant that the theorems below rest on.
THEOREM Invariance == Spec => []BtnInv
<1>1. Init => BtnInv
  BY InitBtnInv
<1>2. BtnInv /\ [Next]_vars => BtnInv'
  BY StepInv
<1> QED
  BY <1>1, <1>2, PTL DEF Spec

\* Every variable keeps its type: there is never more than one configuration, and
\* never more than one list of a kind, whichever of the two callers downloads it.
THEOREM TypeCorrect == Spec => []TypeOK
<1>1. BtnInv => TypeOK
  BY DEF BtnInv
<1> QED
  BY <1>1, Invariance, PTL
-----------------------------------------------------------------------------
(* What reloads may not mix up.                                            *)

\* A list changes when it is accepted, or all of them go.
LEMMA ListsChange ==
  ASSUME [Next]_vars
  PROVE  AcceptList \/ lists' = lists \/ lists' = NoLists
BY DEF Next, vars, stateVars, LoopCallsGetConfig, ReplaceConfig, InitConfig, GetConfigDisabled,
       GetConfigTooEarly, GetConfig, RequestConfig, ConfigAnswered, ConfigFails, InstallConfig,
       StartTask, EnterTask, EndTask, PassOver, AskForList, ListAnswered, ListFails, NobodyToAsk,
       ConfigIntervalPasses, IntervalPasses, ServerChanges

\* An accepted list is of the configuration it was asked for with, still in force.
LEMMA NewListOfConfig ==
  ASSUME BtnInv, [Next]_vars, NEW k \in Kinds, NEW l \in lists'[k] \ lists[k]
  PROVE  \E c \in btnConfig' : c.url = l.url
<1>1. CASE lists' = lists \/ lists' = NoLists
  BY <1>1 DEF NoLists
<1>2. CASE AcceptList
  <2>1. CASE lists' = lists
    BY <2>1
  <2>2. ASSUME NEW c \in task.held, NEW v \in task.served, Ability \in Kinds, SameConfig,
               lists' = [lists EXCEPT ![Ability] = {[url |-> c.url, version |-> v]}]
        PROVE  \E d \in btnConfig' : d.url = l.url
    <3>1. l = [url |-> c.url, version |-> v]
      BY <2>2 DEF BtnInv, TypeOK
    <3>2. c \in btnConfig'
      BY <1>2, <2>2 DEF SameConfig, AcceptList
    <3> QED
      BY <3>1, <3>2
  <2> QED
    BY <1>2, <2>1, <2>2, InstallListLists
<1> QED
  BY <1>1, <1>2, ListsChange

\* Whatever servers the user names one after the other, and whatever reloads a
\* download overlaps: the configuration in force is of the server named, and a list
\* put in force is of the server whose configuration is (BTN.go, InitConfig).
THEOREM ListsOfTheServer == Spec => ListsFollowConfig
<1> DEFINE Followed == \A k \in Kinds : \A l \in lists'[k] \ lists[k] :
                          \E c \in btnConfig' : c.url = l.url
<1>1. BtnInv => ConfigOfTheServer
  BY DEF BtnInv
<1>2. BtnInv /\ [Next]_vars => [Followed]_vars
  BY NewListOfConfig
<1> HIDE DEF Followed
<1>3. Spec => []ConfigOfTheServer /\ [][Followed]_vars
  BY <1>1, <1>2, Invariance, PTL DEF Spec
<1> QED
  BY <1>3 DEF ListsFollowConfig, Followed
-----------------------------------------------------------------------------
(* What an answer does.                                                    *)

\* Only accepting it ends the wait for an answer that has come.
LEMMA AnswerEnds ==
  ASSUME BtnInv, [Next]_vars, task.phase = "answered", task'.phase # "answered"
  PROVE  AcceptList
<1> USE DEF BtnInv
<1>1. getter[Task].phase = "idle"
  BY DEF CallInv
<1>2. ASSUME NEW g \in {Loop, Task}, getter[g].phase # "idle", Return(g) PROVE FALSE
  <2>1. g # Task
    BY <1>1, <1>2
  <2> QED
    BY <1>2, <2>1 DEF Return
<1>3. ASSUME NEW g \in {Loop, Task}, GetConfigDisabled(g) PROVE FALSE
  BY <1>3 DEF GetConfigDisabled, Calls
<1>4. ASSUME NEW g \in {Loop, Task},
             RequestConfig(g) \/ ConfigAnswered(g) \/ ConfigFails(g) \/ InstallConfig(g)
      PROVE  FALSE
  BY <1>2, <1>4 DEF RequestConfig, ConfigAnswered, ConfigFails, InstallConfig
<1>5. ~GetConfigTooEarly
  BY DEF GetConfigTooEarly, Calls
<1> QED
  BY <1>3, <1>4, <1>5
  DEF Next, vars, stateVars, LoopCallsGetConfig, ReplaceConfig, InitConfig, GetConfig,
      StartTask, EnterTask, EndTask, PassOver, AskForList, ListAnswered, ListFails, NobodyToAsk,
      ConfigIntervalPasses, IntervalPasses, ServerChanges

\* After an answer, also one of "no change", the list in force is what the server
\* had when it answered, unless the configuration asked with is gone (BTN_Task).
THEOREM AcceptedList == Spec => AcceptedIsServed
<1> DEFINE Accepted == task.phase = "answered" /\ task'.phase # "answered"
                         /\ Ability \in Kinds /\ task.status # "failed" /\ SameConfig
                       => {l.version : l \in lists'[Ability]} = task.served
<1>1. BtnInv /\ [Next]_vars => [Accepted]_vars
  <2> SUFFICES ASSUME BtnInv, [Next]_vars, task.phase = "answered", task'.phase # "answered",
                      Ability \in Kinds, task.status # "failed", SameConfig
               PROVE  {l.version : l \in lists'[Ability]} = task.served
    OBVIOUS
  <2>1. AcceptList
    BY AnswerEnds
  <2>2. /\ \E c \in BtnConfig : task.held = {c}
        /\ task.rev = {l.version : l \in lists[Ability]}
    BY DEF BtnInv, AskInv
  <2>3. /\ task.status \in {"noChange", "content"}
        /\ \E v \in Versions : task.served = {v}
        /\ task.status = "noChange" => task.rev = task.served
    BY DEF BtnInv, AnswerInv
  <2>4. CASE task.status = "noChange"
    BY <2>1, <2>2, <2>3, <2>4 DEF AcceptList, InstallList
  <2>5. CASE task.status = "content"
    <3>1. PICK c \in task.held, v \in task.served :
            lists' = [lists EXCEPT ![Ability] = {[url |-> c.url, version |-> v]}]
      BY <2>1, <2>5 DEF AcceptList, InstallList
    <3>2. lists'[Ability] = {[url |-> c.url, version |-> v]}
      BY <3>1 DEF BtnInv, TypeOK
    <3>3. {l.version : l \in lists'[Ability]} = {v}
      BY <3>2
    <3> QED
      BY <2>3, <3>3
  <2> QED
    BY <2>3, <2>4, <2>5
<1> HIDE DEF Accepted
<1>2. Spec => [][Accepted]_vars
  BY <1>1, Invariance, PTL DEF Spec
<1> QED
  BY <1>2, PTL DEF AcceptedIsServed, Accepted

=============================================================================
