----------------------------- MODULE RuleStore -----------------------------
(***************************************************************************)
(* The block list's rules and where they come from: internal/app/rules and *)
(* internal/app/rules_wiring.go, with the part of InitConfig (config.go)   *)
(* that rebuilds them.  A rule is in force when some source holds it: the  *)
(* list in the configuration, a file that the main loop looks at on every  *)
(* scan, or a URL that a goroutine downloads while scans and reloads go on.*)
(*                                                                         *)
(* The program keeps two such lists, of expressions and of addresses.      *)
(* They share a generation counter and the reload and nothing else, so the *)
(* module describes one; IPList says which, for the one test that differs. *)
(*                                                                         *)
(* ruleReloadMutex makes every action below one critical section of the    *)
(* code.  A download is asked for, answered and accepted in three steps.   *)
(***************************************************************************)
EXTENDS Naturals, Sequences, FiniteSets, Functions

CONSTANTS
  Lines,          \* rules
  Invalid,        \* those among them that do not compile
  Contents,       \* what a list may hold: sets of rules
  Urls, Files,
  BlockList,      \* the source that is the configuration itself
  Configs,        \* records: list, urls, files, cache
  Versions,       \* what a file may be: records mtime, body, state
  Tagging,        \* URLs whose server sends ETag or Last-Modified
  IPList,         \* is this the list of addresses?
  MaxReloads, MaxRestarts, MaxChanges, MaxFailures

ASSUME ContentAssumption ==
  Contents \subseteq SUBSET Lines /\ Invalid \subseteq Lines
ASSUME SourceAssumption ==
  /\ BlockList \notin Urls \cup Files
  /\ Urls \cap Files = {}
ASSUME ConfigAssumption ==
  Configs \subseteq [list  : Contents, urls  : Seq(Urls),
                     files : Seq(Files), cache : BOOLEAN]
(* A file that is replaced has another modification time, never 0; whether *)
(* it can be opened may change without one.                                *)
ASSUME VersionAssumption ==
  /\ Versions \subseteq [mtime : Nat \ {0}, body : Contents,
                         state : {"sound", "wrong", "unreadable"}]
  /\ \A v, w \in Versions : v.mtime = w.mtime => v.body = w.body
ASSUME FlagAssumption == IPList \in BOOLEAN /\ Tagging \subseteq Urls
ASSUME BoundAssumption ==
  {MaxReloads, MaxRestarts, MaxChanges, MaxFailures} \subseteq Nat

VARIABLES
  config,       \* the configuration in force
  reloading,    \* it has been replaced and InitConfig has not run yet
  generation,   \* ruleGeneration
  sources,      \* Store.sources: source -> rules
  compiled,     \* Store.BlockList: the rules scans are matched against
  entries,      \* remoteRuleEntries: URL -> the answer accepted last
  due,          \* lastFetch + UpdateInterval has passed
  fetch,        \* the goroutine of SetRulesFromURL
  disk,         \* the cache directory: URL -> answer
  fileLastMod,  \* file -> modification time remembered
  server,       \* environment: URL -> content served
  file,         \* environment: file -> its version, as a set; {} when missing
  spent         \* what the environment has done, for the bounds

storeVars == <<sources, compiled>>
envVars   == <<server, file>>
vars == <<config, reloading, generation, storeVars, entries, due, fetch, disk,
          fileLastMod, envVars, spent>>

Source == {BlockList} \cup Urls \cup Files
Entry  == [body : SUBSET Lines, tagged : BOOLEAN]
Phases == {"idle", "next", "asking", "answered"}
Answer == [status : {"none", "notModified", "rules", "failed"}, served : SUBSET Lines]
Fetch  == [phase : Phases, generation : Nat, cache : BOOLEAN, todo : Seq(Urls),
           previous : SUBSET Entry, answer : Answer]
Spent  == [reloads : 0..MaxReloads, restarts : 0..MaxRestarts,
           changes : 0..MaxChanges, failures : 0..MaxFailures]

NoAnswer == [status |-> "none", served |-> {}]
NotFetching == [phase |-> "idle", generation |-> 0, cache |-> FALSE, todo |-> <<>>,
                previous |-> {}, answer |-> NoAnswer]
Once(what) == spent' = [spent EXCEPT ![what] = @ + 1]
-----------------------------------------------------------------------------
(* The store.                                                              *)

(* Compiling leniently drops the lines that are wrong, strictly rejects    *)
(* the whole content because of one.  (Mutant: the error is lost.)         *)
CompileRuleContent(content) == content \ Invalid
CompilesStrictly_ErrorLost(content) == TRUE
CompilesStrictly(content) == content \cap Invalid = {}

(* Go's assignments to the keys of a map.                                  *)
With(updates, f) == [x \in DOMAIN updates \cup DOMAIN f |->
                       IF x \in DOMAIN updates THEN updates[x] ELSE f[x]]
Only(x, value) == [y \in {x} |-> value]

Owned(owners) == UNION Range(owners)

(* Mutant: the rules of a replaced list go, whoever else holds them.       *)
PublishRuleSource_NotRetained(updates) ==
  LET replaced == Restrict(sources, DOMAIN updates \cap DOMAIN sources)
  IN  /\ sources'  = With(updates, sources)
      /\ compiled' = (compiled \cup Owned(updates)) \ (Owned(replaced) \ Owned(updates))

(* Give every source in "updates" its new rules.  A rule that one of them  *)
(* no longer holds goes unless some source holds it.                       *)
PublishRuleSource(updates) ==
  LET replaced == Restrict(sources, DOMAIN updates \cap DOMAIN sources)
  IN  /\ sources'  = With(updates, sources)
      /\ compiled' = (compiled \cup Owned(updates))
                       \ (Owned(replaced) \ Owned(With(updates, sources)))

-----------------------------------------------------------------------------
(* Reloading the configuration.                                            *)

(* LoadInitConfig puts the new configuration in force...                   *)
ReplaceConfig(c) ==
  /\ ~reloading /\ spent.reloads < MaxReloads
  /\ config' = c
  /\ reloading' = TRUE
  /\ Once("reloads")
  /\ UNCHANGED <<generation, storeVars, entries, due, fetch, disk, fileLastMod, envVars>>

(* An answer in the cache directory, if one is configured.                 *)
ReadCache(u) == IF config.cache /\ u \in DOMAIN disk THEN {disk[u]} ELSE {}

(* Mutant: the answers in memory are not looked at.                        *)
Remembered_DiskOnly(u) == ReadCache(u)

(* What is known of a URL without asking its server: the answer in memory  *)
(* or, failing that, on disk.                                              *)
Remembered(u) == IF u \in DOMAIN entries THEN {entries[u]} ELSE ReadCache(u)

Restorable ==
  {u \in Range(config.urls) : \E e \in Remembered(u) : CompilesStrictly(e.body)}

(* Mutant: the answers stay in memory and their rules are not published.   *)
RestoreRuleCaches_EntriesKept(published) ==
  /\ entries' = entries
  /\ sources' = published
  /\ compiled' = Owned(published)

RestoreRuleCaches(published) ==
  LET restored == [u \in Restorable |-> CHOOSE e \in Remembered(u) : TRUE]
  IN  /\ entries'  = restored
      /\ sources'  = With([u \in Restorable |-> restored[u].body], published)
      /\ compiled' = Owned(sources')

ForgetFiles == fileLastMod' = [f \in Files |-> 0]

(* ... and InitConfig, under the mutex, starts a new generation: it empties*)
(* the store, publishes the configuration's own list and what it remembers *)
(* of the URLs still subscribed to, and has every file and URL looked at   *)
(* again.                                                                  *)
InitConfig ==
  /\ reloading
  /\ reloading'  = FALSE
  /\ generation' = generation + 1
  /\ RestoreRuleCaches(Only(BlockList, CompileRuleContent(config.list)))
  /\ due' = TRUE
  /\ ForgetFiles
  /\ UNCHANGED <<config, fetch, disk, envVars, spent>>
-----------------------------------------------------------------------------
(* Files.  The main loop looks at all of them in one critical section; the *)
(* first that is missing, or has changed and cannot be opened, ends the    *)
(* pass; one that is wrong, being too large or broken JSON, is passed over *)
(* and not remembered.                                                     *)

(* SetBlockListFromFile reads an expression file that has another time     *)
(* than before, SetIPBlockListFromFile an address file that has a later.   *)
OtherExpressionFile(f, version) == version.mtime # fileLastMod[f]
NewerAddressFile(f, version) == version.mtime > fileLastMod[f]

Changed(f, version) == IF IPList THEN NewerAddressFile(f, version)
                                 ELSE OtherExpressionFile(f, version)

(* A file whose time is that remembered is not opened at all.              *)
EndsPass(f) ==
  file[f] = {} \/ \E v \in file[f] : v.state = "unreadable" /\ Changed(f, v)

Reached == {f \in Range(config.files) :
              \E i \in DOMAIN config.files :
                 /\ config.files[i] = f
                 /\ \A j \in 1..i : ~EndsPass(config.files[j])}

SetBlockListFromFile ==
  LET version == [f \in Reached |-> CHOOSE v \in file[f] : TRUE]
      taken   == {f \in Reached : Changed(f, version[f]) /\ version[f].state = "sound"}
  IN  /\ ~reloading
      /\ PublishRuleSource([f \in taken |-> CompileRuleContent(version[f].body)])
      /\ fileLastMod' = [f \in Files |-> IF f \in taken THEN version[f].mtime
                                                        ELSE fileLastMod[f]]
      /\ UNCHANGED <<config, reloading, generation, entries, due, fetch, disk,
                     envVars, spent>>
-----------------------------------------------------------------------------
(* URLs: SetRulesFromURL, in a goroutine that every scan starts.           *)

(* One runs at a time (the flag is taken by compare-and-swap); the         *)
(* configuration and the generation it works for are taken together.       *)
StartFetch ==
  /\ fetch.phase = "idle" /\ generation > 0
  /\ due /\ config.urls # <<>>
  /\ due' = FALSE
  /\ fetch' = [NotFetching EXCEPT !.phase = "next", !.generation = generation,
                                  !.cache = config.cache, !.todo = config.urls]
  /\ UNCHANGED <<config, reloading, generation, storeVars, entries, disk,
                 fileLastMod, envVars, spent>>

(* Mutant: the generation is not looked at.                                *)
Current_Always == fetch.phase # "idle"

Current == fetch.generation = generation
Url == Head(fetch.todo)

(* Mutant: ... without clearing the flag.                                  *)
Abandon_FlagKept == UNCHANGED <<fetch, storeVars, entries, disk>>

(* The goroutine of an older generation gives up.                          *)
Abandon ==
  /\ fetch' = NotFetching
  /\ UNCHANGED <<storeVars, entries, disk>>

(* Ask for the next URL, with the validators of the answer accepted last.  *)
AskServer ==
  /\ fetch.phase = "next"
  /\ IF Current
     THEN /\ fetch' = [fetch EXCEPT
                !.phase = "asking",
                !.previous = IF Url \in DOMAIN entries THEN {entries[Url]} ELSE {}]
          /\ UNCHANGED <<storeVars, entries, disk>>
     ELSE Abandon
  /\ UNCHANGED <<config, reloading, generation, due, fileLastMod, envVars, spent>>

(* The server says "not modified" exactly when the validators it was sent  *)
(* are those of what it has.                                               *)
ServerAnswers ==
  /\ fetch.phase = "asking"
  /\ LET status == IF \E e \in fetch.previous : e.tagged /\ e.body = server[Url]
                   THEN "notModified" ELSE "rules"
     IN  fetch' = [fetch EXCEPT
            !.phase = "answered",
            !.answer = [status |-> status, served |-> server[Url]]]
  /\ UNCHANGED <<config, reloading, generation, storeVars, entries, due, disk,
                 fileLastMod, envVars, spent>>

(* No answer, an answer with another status, a page instead of a list.     *)
RequestFails ==
  /\ fetch.phase = "asking" /\ spent.failures < MaxFailures
  /\ fetch' = [fetch EXCEPT !.phase = "answered",
                            !.answer = [NoAnswer EXCEPT !.status = "failed"]]
  /\ Once("failures")
  /\ UNCHANGED <<config, reloading, generation, storeVars, entries, due, disk,
                 fileLastMod, envVars>>

(* Mutant: a list with wrong lines is accepted without them.               *)
AcceptedEntry_Lenient ==
  CASE fetch.answer.status = "notModified" -> fetch.previous
    [] fetch.answer.status = "rules" ->
         {[body |-> CompileRuleContent(fetch.answer.served), tagged |-> Url \in Tagging]}
    [] OTHER -> {}

(* The entry an answer makes: a rejected one makes none.                   *)
AcceptedEntry ==
  CASE fetch.answer.status = "notModified" -> fetch.previous
    [] fetch.answer.status = "rules" /\ CompilesStrictly(fetch.answer.served) ->
         {[body |-> fetch.answer.served, tagged |-> Url \in Tagging]}
    [] OTHER -> {}

(* The cache file is replaced as a whole or, on an error, not at all.      *)
WriteCache(e) == disk' \in {disk} \cup (IF fetch.cache THEN {With(Only(Url, e), disk)} ELSE {})

NextUrl ==
  fetch' = IF Len(fetch.todo) > 1
           THEN [fetch EXCEPT !.phase = "next", !.todo = Tail(@),
                              !.previous = {}, !.answer = NoAnswer]
           ELSE NotFetching

AcceptAnswer ==
  /\ fetch.phase = "answered"
  /\ \/ ~Current /\ Abandon
     \/ /\ Current /\ AcceptedEntry = {}
        /\ NextUrl
        /\ UNCHANGED <<storeVars, entries, disk>>
     \/ /\ Current
        /\ \E e \in AcceptedEntry :
              /\ WriteCache(e)
              /\ entries' = With(Only(Url, e), entries)
              /\ IF fetch.answer.status = "rules"
                 THEN PublishRuleSource(Only(Url, e.body))
                 ELSE UNCHANGED storeVars
        /\ NextUrl
  /\ UNCHANGED <<config, reloading, generation, due, fileLastMod, envVars, spent>>

IntervalPasses ==
  /\ ~due
  /\ due' = TRUE
  /\ UNCHANGED <<config, reloading, generation, storeVars, entries, fetch, disk,
                 fileLastMod, envVars, spent>>
-----------------------------------------------------------------------------
(* The environment: lists and files are edited, the program is restarted,  *)
(* perhaps between writing a cache file and publishing its rules.          *)

ServerChanges(u, content) ==
  /\ spent.changes < MaxChanges
  /\ server[u] # content
  /\ server' = [server EXCEPT ![u] = content]
  /\ Once("changes")
  /\ UNCHANGED <<config, reloading, generation, storeVars, entries, due, fetch, disk,
                 fileLastMod, file>>

FileChanges(f, version) ==
  /\ spent.changes < MaxChanges
  /\ file[f] # version
  /\ file' = [file EXCEPT ![f] = version]
  /\ Once("changes")
  /\ UNCHANGED <<config, reloading, generation, storeVars, entries, due, fetch, disk,
                 fileLastMod, server>>

Restart(c) ==
  /\ spent.restarts < MaxRestarts
  /\ \/ UNCHANGED disk
     \/ /\ fetch.phase = "answered" /\ Current
        /\ \E e \in AcceptedEntry : WriteCache(e)
  /\ config' = c /\ reloading' = TRUE /\ generation' = 0
  /\ sources' = << >> /\ compiled' = {} /\ entries' = << >>
  /\ due' = TRUE /\ fetch' = NotFetching
  /\ fileLastMod' = [f \in Files |-> 0]
  /\ Once("restarts")
  /\ UNCHANGED envVars
-----------------------------------------------------------------------------
FileStates == {{}} \cup {{v} : v \in Versions}

Init ==
  /\ config \in Configs
  /\ reloading = TRUE
  /\ generation = 0
  /\ sources = << >> /\ compiled = {} /\ entries = << >>
  /\ due = TRUE
  /\ fetch = NotFetching
  /\ disk = << >>
  /\ fileLastMod = [f \in Files |-> 0]
  /\ server \in [Urls -> Contents]
  /\ file \in [Files -> FileStates]
  /\ spent = [reloads |-> 0, restarts |-> 0, changes |-> 0, failures |-> 0]

Next ==
  \/ \E c \in Configs : ReplaceConfig(c) \/ Restart(c)
  \/ InitConfig
  \/ SetBlockListFromFile
  \/ StartFetch
  \/ AskServer
  \/ ServerAnswers
  \/ RequestFails
  \/ AcceptAnswer
  \/ IntervalPasses
  \/ \E u \in Urls, content \in Contents : ServerChanges(u, content)
  \/ \E f \in Files, version \in FileStates : FileChanges(f, version)

(* LoadInitConfig runs InitConfig as soon as it has replaced the           *)
(* configuration and starts the download on every scan; a request ends, by *)
(* an answer or by its timeout; time passes.                               *)
Fairness ==
  /\ WF_vars(InitConfig)
  /\ WF_vars(StartFetch)
  /\ WF_vars(AskServer)
  /\ WF_vars(ServerAnswers)
  /\ WF_vars(AcceptAnswer)
  /\ WF_vars(IntervalPasses)

Spec == Init /\ [][Next]_vars
FairSpec == Spec /\ Fairness
-----------------------------------------------------------------------------
(* Every variable keeps its type; only rules that compile are in force.    *)
TypeOK ==
  /\ config \in Configs /\ reloading \in BOOLEAN /\ generation \in Nat
  /\ DOMAIN sources \subseteq Source /\ Range(sources) \subseteq SUBSET (Lines \ Invalid)
  /\ compiled \subseteq Lines \ Invalid
  /\ DOMAIN entries \subseteq Urls /\ Range(entries) \subseteq Entry
  /\ DOMAIN disk \subseteq Urls /\ Range(disk) \subseteq Entry
  /\ due \in BOOLEAN /\ fetch \in Fetch
  /\ fileLastMod \in [Files -> Nat]
  /\ server \in [Urls -> Contents] /\ file \in [Files -> FileStates]
  /\ spent \in Spent

(* A rule is matched against if and only if a source holds it: one list    *)
(* dropping a rule does not lose it for another that still has it, and the *)
(* last one dropping it leaves nothing behind.                             *)
RulesOwned == compiled = Owned(sources)

(* Nothing of a list, file or URL that the user removed survives the       *)
(* reload, not even when its download ends after it.                       *)
SubscribedOnly ==
  ~reloading => DOMAIN sources \subseteq {BlockList} \cup Range(config.files)
                                                    \cup Range(config.urls)

\* The validators kept for a URL are those of the rules in force for it,
\* and no others are kept: otherwise "not modified" would confirm rules
\* that are not there.
EntriesPublished ==
  /\ DOMAIN entries = DOMAIN sources \cap Urls
  /\ \A u \in DOMAIN entries : sources[u] = entries[u].body

(* When a download is accepted, also as "not modified", the rules in force *)
(* for its URL become what the server had when it answered: whatever       *)
(* reloads, restarts, restored caches and rejected answers came before.    *)
AcceptsWhatIsServed ==
  [][ fetch.phase = "answered" /\ Current /\ AcceptedEntry # {} /\ fetch'.phase # "answered"
        /\ generation' = generation
      => Url \in DOMAIN sources' /\ sources'[Url] = fetch.answer.served ]_vars

\* A remembered modification time stands for the rules that the file of
\* that time holds, so that skipping an unchanged file loses nothing.
StampsHonest ==
  \A f \in Files : \A v \in file[f] :
     v.mtime = fileLastMod[f] =>
        f \in DOMAIN sources /\ sources[f] = CompileRuleContent(v.body)

(* What is remembered to save work stands for rules that are in force: the *)
(* validators of a URL, with which a server may answer "not modified", and *)
(* the modification time of a file, which then is not read again.          *)
RemembersRightly == EntriesPublished /\ StampsHonest

(* As long as the program runs, a URL that stays subscribed to keeps rules *)
(* once it has had some: neither a failed download nor a reload, with or   *)
(* without a cache directory, drops them.                                  *)
GoodRulesKept ==
  [][ \A u \in DOMAIN sources \cap Range(config'.urls) :
        generation' >= generation => u \in DOMAIN sources' ]_vars

(* Once lists, configuration and network have settled, every URL subscribed*)
(* to ends up with the rules its server has, unless they do not compile.   *)
ListsArrive ==
  <>[](\A u \in Range(config.urls) :
         CompilesStrictly(server[u]) => u \in DOMAIN sources /\ sources[u] = server[u])
=============================================================================
