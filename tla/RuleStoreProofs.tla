-------------------------- MODULE RuleStoreProofs --------------------------
(***************************************************************************)
(* Proofs about the rules, for every set of lists, URLs, files and         *)
(* configurations and without bounds on what the environment does.         *)
(***************************************************************************)
EXTENDS RuleStore, TLAPS

(* Publishing keeps the store and its sources together: the invariant      *)
(* holds whatever the updates are.                                         *)
LEMMA PublishOwned ==
  ASSUME RulesOwned, NEW updates, PublishRuleSource(updates)
  PROVE  RulesOwned'
<1> DEFINE all == With(updates, sources)
           replaced == Restrict(sources, DOMAIN updates \cap DOMAIN sources)
<1>1. sources' = all /\ compiled' = (compiled \cup Owned(updates)) \ (Owned(replaced) \ Owned(all))
  BY DEF PublishRuleSource
<1>2. ASSUME NEW r \in Owned(all) PROVE r \in compiled \cup Owned(updates)
  BY <1>2 DEF RulesOwned, Owned, Range, With
<1>3. ASSUME NEW r \in compiled \cup Owned(updates), r \notin Owned(all)
      PROVE  r \in Owned(replaced)
  <2>1. r \notin Owned(updates)
    BY <1>3 DEF Owned, Range, With
  <2>2. PICK s \in DOMAIN sources : r \in sources[s]
    BY <2>1 DEF RulesOwned, Owned, Range
  <2>3. s \in DOMAIN updates
    BY <1>3, <2>2 DEF Owned, Range, With
  <2> QED
    BY <2>2, <2>3 DEF Owned, Range, Restrict
<1>4. compiled' = Owned(all)
  BY <1>1, <1>2, <1>3, Zenon
<1> QED
  BY <1>1, <1>4, Zenon DEF RulesOwned, Owned

(* What publishing does to one source.                                     *)
LEMMA PublishSources ==
  ASSUME NEW updates, PublishRuleSource(updates)
  PROVE  /\ DOMAIN sources' = DOMAIN updates \cup DOMAIN sources
         /\ \A s \in DOMAIN updates : sources'[s] = updates[s]
         /\ \A s \in DOMAIN sources \ DOMAIN updates : sources'[s] = sources[s]
BY DEF PublishRuleSource, With

LEMMA TodoShrinks ==
  ASSUME NEW S, NEW todo \in Seq(S), todo # <<>>
  PROVE  /\ Head(todo) \in Range(todo) /\ Head(todo) \in S
         /\ Tail(todo) \in Seq(S)
         /\ Len(todo) > 1 => Tail(todo) # <<>>
         /\ Range(Tail(todo)) \subseteq Range(todo)
         /\ Range(todo) \subseteq S
<1>1. /\ Head(todo) = todo[1] /\ 1 \in DOMAIN todo
      /\ Tail(todo) \in Seq(S) /\ Len(Tail(todo)) = Len(todo) - 1
      /\ Len(todo) \in Nat
      /\ \A i \in DOMAIN Tail(todo) : Tail(todo)[i] = todo[i+1] /\ i + 1 \in DOMAIN todo
      /\ \A i \in DOMAIN todo : todo[i] \in S
  OBVIOUS
<1>2. Len(todo) > 1 => Tail(todo) # <<>>
  <2> SUFFICES ASSUME Len(todo) > 1, Tail(todo) = << >> PROVE FALSE
    OBVIOUS
  <2>1. Len(<< >>) = 0
    OBVIOUS
  <2>2. Len(Tail(todo)) = 0
    BY <2>1, Zenon
  <2>3. Len(Tail(todo)) = Len(todo) - 1 /\ Len(todo) \in Nat
    OBVIOUS
  <2> QED
    BY <2>2, <2>3
<1> QED
  BY <1>1, <1>2 DEF Range
-----------------------------------------------------------------------------
(* What is true of a download between two critical sections: it works for  *)
(* the URLs of the generation it started in, and as long as that is the    *)
(* present one the validators it sent are those still kept.                *)
FetchInv ==
  fetch.phase # "idle" =>
    /\ fetch.todo # <<>>
    /\ 0 < fetch.generation /\ fetch.generation <= generation
    /\ Current /\ ~reloading => Range(fetch.todo) \subseteq Range(config.urls)
    /\ Current /\ fetch.phase \in {"asking", "answered"} =>
         fetch.previous = IF Url \in DOMAIN entries THEN {entries[Url]} ELSE {}
    /\ fetch.phase = "answered" /\ fetch.answer.status = "notModified" =>
         \E e \in fetch.previous : e.body = fetch.answer.served

(* Only rules that compile are remembered; a program that has not read its *)
(* configuration has none.                                                 *)
EntriesCompile ==
  /\ \A u \in DOMAIN entries : CompilesStrictly(entries[u].body)
  /\ generation = 0 => reloading /\ sources = << >>

(* The modification time remembered stands for the rules in force, also if *)
(* the file has changed since and changes back.                            *)
StampInv ==
  \A f \in Files : \A v \in Versions :
     v.mtime = fileLastMod[f] =>
        f \in DOMAIN sources /\ sources[f] = CompileRuleContent(v.body)

RuleInv ==
  /\ TypeOK
  /\ RulesOwned
  /\ SubscribedOnly
  /\ EntriesPublished
  /\ StampInv
  /\ FetchInv
  /\ EntriesCompile
-----------------------------------------------------------------------------
(* Types, action by action.                                                *)
LEMMA TypeInit == Init => TypeOK
BY BoundAssumption DEF Init, TypeOK, Source, Entry, Fetch, Phases, Answer, Spent, NotFetching, NoAnswer, Range

LEMMA PublishType ==
  ASSUME TypeOK, NEW updates, PublishRuleSource(updates),
         DOMAIN updates \subseteq Source, Range(updates) \subseteq SUBSET (Lines \ Invalid)
  PROVE  /\ DOMAIN sources' \subseteq Source /\ Range(sources') \subseteq SUBSET (Lines \ Invalid)
         /\ compiled' \subseteq Lines \ Invalid
<1>1. Owned(updates) \subseteq Lines \ Invalid
  BY DEF Owned
<1>2. compiled' \subseteq Lines \ Invalid
  BY <1>1 DEF PublishRuleSource, TypeOK
<1>. /\ DOMAIN sources' = DOMAIN updates \cup DOMAIN sources
     /\ \A s \in DOMAIN updates : sources'[s] = updates[s]
     /\ \A s \in DOMAIN sources \ DOMAIN updates : sources'[s] = sources[s]
  BY PublishSources
<1>3. ASSUME NEW s \in DOMAIN sources' PROVE sources'[s] \in SUBSET (Lines \ Invalid)
  <2>1. CASE s \in DOMAIN updates
    BY <2>1, PublishSources DEF Range
  <2>2. CASE s \in DOMAIN sources \ DOMAIN updates
    BY <2>2, PublishSources DEF TypeOK, Range
  <2> QED
    BY <1>3, <2>1, <2>2, PublishSources
<1>4. Range(sources') \subseteq SUBSET (Lines \ Invalid)
  BY <1>3 DEF Range
<1>5. DOMAIN sources' \subseteq Source
  BY PublishSources DEF TypeOK
<1> QED
  BY <1>2, <1>4, <1>5

LEMMA ReadType ==
  ASSUME TypeOK
  PROVE  /\ \A u \in Urls : Remembered(u) \subseteq Entry
         /\ Restorable \subseteq Urls
         /\ fetch.phase # "idle" /\ fetch.todo # <<>> => Url \in Urls
         /\ fetch.todo # <<>> /\ Url \in Urls => AcceptedEntry \subseteq Entry
<1>1. \A u \in Urls : Remembered(u) \subseteq Entry
  BY DEF TypeOK, Remembered, ReadCache, Range
<1>2. Restorable \subseteq Urls
  BY ConfigAssumption DEF TypeOK, Restorable, Range
<1>3. fetch.phase # "idle" /\ fetch.todo # <<>> => Url \in Urls
  BY DEF TypeOK, Fetch, Url
<1>4. AcceptedEntry \subseteq Entry
  <2>1. fetch.previous \subseteq Entry /\ fetch.answer.served \subseteq Lines
    BY DEF TypeOK, Fetch, Answer
  <2>2. [body |-> fetch.answer.served, tagged |-> Url \in Tagging] \in Entry
    BY <2>1 DEF Entry
  <2> QED
    BY <2>1, <2>2 DEF AcceptedEntry
<1> QED
  BY <1>1, <1>2, <1>3, <1>4

LEMMA SpentType ==
  ASSUME spent \in Spent
  PROVE  /\ spent.reloads  < MaxReloads  /\ Once("reloads")  => spent' \in Spent
         /\ spent.restarts < MaxRestarts /\ Once("restarts") => spent' \in Spent
         /\ spent.changes  < MaxChanges  /\ Once("changes")  => spent' \in Spent
         /\ spent.failures < MaxFailures /\ Once("failures") => spent' \in Spent
BY BoundAssumption DEF Spent, Once

LEMMA NotFetchingType == NotFetching \in Fetch
BY DEF NotFetching, NoAnswer, Fetch, Phases, Answer
-----------------------------------------------------------------------------
(* The invariant, action by action: first the steps that leave the rules   *)
(* alone.                                                                  *)
LEMMA RuleInvInit == Init => RuleInv
<1> SUFFICES ASSUME Init PROVE RuleInv
  OBVIOUS
<1>1. RulesOwned
  BY DEF Init, RulesOwned, Owned, Range
<1>2. SubscribedOnly /\ EntriesPublished /\ FetchInv /\ EntriesCompile
  BY DEF Init, SubscribedOnly, EntriesPublished, FetchInv, EntriesCompile, NotFetching
<1>3. StampInv
  BY VersionAssumption DEF Init, StampInv
<1> QED
  BY TypeInit, <1>1, <1>2, <1>3 DEF RuleInv

\* The parts of the invariant that speak of the store only.
LEMMA StoreUnchanged ==
  ASSUME RuleInv, UNCHANGED <<storeVars, entries, fileLastMod>>
  PROVE  /\ RulesOwned' /\ EntriesPublished' /\ StampInv'
         /\ \A u \in DOMAIN entries' : CompilesStrictly(entries'[u].body)
BY DEF RuleInv, storeVars, RulesOwned, EntriesPublished, StampInv, EntriesCompile, Owned

LEMMA EnvironmentInv ==
  ASSUME RuleInv,
         \/ \E u \in Urls, content \in Contents : ServerChanges(u, content)
         \/ \E f \in Files, version \in FileStates : FileChanges(f, version)
         \/ IntervalPasses
         \/ UNCHANGED vars
  PROVE  RuleInv'
<1>1. /\ UNCHANGED <<config, reloading, generation, storeVars, entries, fetch, disk, fileLastMod>>
      /\ due' \in BOOLEAN /\ spent' \in Spent
      /\ server' \in [Urls -> Contents] /\ file' \in [Files -> FileStates]
  BY SpentType DEF RuleInv, TypeOK, ServerChanges, FileChanges, IntervalPasses, vars, envVars
<1>2. TypeOK'
  BY <1>1 DEF RuleInv, TypeOK, storeVars
<1>3. SubscribedOnly' /\ FetchInv' /\ EntriesCompile'
  BY <1>1 DEF RuleInv, SubscribedOnly, FetchInv, EntriesCompile, Current, Url, storeVars
<1> QED
  BY <1>1, <1>2, <1>3, StoreUnchanged DEF RuleInv

LEMMA ReplaceConfigInv ==
  ASSUME RuleInv, NEW c \in Configs, ReplaceConfig(c)
  PROVE  RuleInv'
<1> USE DEF ReplaceConfig
<1>1. TypeOK'
  BY SpentType DEF RuleInv, TypeOK, storeVars, envVars
<1>2. SubscribedOnly' /\ FetchInv' /\ EntriesCompile'
  BY DEF RuleInv, SubscribedOnly, FetchInv, EntriesCompile, Current, Url, storeVars
<1> QED
  BY <1>1, <1>2, StoreUnchanged DEF RuleInv
-----------------------------------------------------------------------------
(* The steps of a download before its answer is accepted.                  *)
LEMMA StartFetchInv == ASSUME RuleInv, StartFetch PROVE RuleInv'
<1>1. fetch' = [NotFetching EXCEPT !.phase = "next", !.generation = generation,
                                   !.cache = config.cache, !.todo = config.urls]
  BY DEF StartFetch
<1>2. /\ fetch'.phase = "next" /\ fetch'.generation = generation
      /\ fetch'.todo = config.urls /\ fetch' \in Fetch
  <2>1. config.cache \in BOOLEAN /\ config.urls \in Seq(Urls) /\ generation \in Nat
    BY ConfigAssumption DEF RuleInv, TypeOK
  <2> QED
    BY <1>1, <2>1, NotFetchingType DEF NotFetching, Fetch, Phases
<1>3. TypeOK'
  BY <1>2 DEF StartFetch, RuleInv, TypeOK, storeVars, envVars
<1>4. FetchInv'
  BY <1>2 DEF StartFetch, RuleInv, TypeOK, FetchInv
<1>5. SubscribedOnly' /\ EntriesCompile'
  BY DEF StartFetch, RuleInv, SubscribedOnly, EntriesCompile, storeVars
<1> QED
  BY <1>3, <1>4, <1>5, StoreUnchanged DEF RuleInv, StartFetch

LEMMA AskServerInv == ASSUME RuleInv, AskServer PROVE RuleInv'
<1>1. UNCHANGED <<config, reloading, generation, storeVars, entries, disk, due,
                  fileLastMod, envVars, spent>>
  BY DEF AskServer, Abandon
<1>2. fetch.phase = "next" /\ fetch \in Fetch /\ fetch.todo # <<>>
  BY DEF AskServer, RuleInv, TypeOK, FetchInv
<1>3. fetch' \in Fetch /\ FetchInv'
  <2>1. CASE ~Current
    <3>1. fetch' = NotFetching
      BY <2>1 DEF AskServer, Abandon
    <3> QED
      BY <3>1, NotFetchingType DEF FetchInv, NotFetching
  <2>2. CASE Current
    <3>1. fetch' = [fetch EXCEPT !.phase = "asking",
                      !.previous = IF Url \in DOMAIN entries THEN {entries[Url]} ELSE {}]
      BY <2>2 DEF AskServer
    <3>2. (IF Url \in DOMAIN entries THEN {entries[Url]} ELSE {}) \in SUBSET Entry
      BY DEF RuleInv, TypeOK, Range
    <3>3. fetch' \in Fetch
      BY <1>2, <3>1, <3>2 DEF Fetch, Phases
    <3>4. /\ fetch'.phase = "asking" /\ fetch'.todo = fetch.todo
          /\ fetch'.generation = fetch.generation
          /\ fetch'.previous = IF Url \in DOMAIN entries THEN {entries[Url]} ELSE {}
      BY <1>2, <3>1 DEF Fetch
    <3>5. FetchInv'
      BY <1>1, <1>2, <3>4 DEF RuleInv, FetchInv, Current, Url
    <3> QED
      BY <3>3, <3>5
  <2> QED
    BY <2>1, <2>2
<1>4. TypeOK'
  BY <1>1, <1>3 DEF RuleInv, TypeOK, storeVars, envVars
<1>5. SubscribedOnly' /\ EntriesCompile'
  BY <1>1 DEF RuleInv, SubscribedOnly, EntriesCompile, storeVars
<1> QED
  BY <1>1, <1>3, <1>4, <1>5, StoreUnchanged DEF RuleInv

LEMMA AnswerInv == ASSUME RuleInv, ServerAnswers \/ RequestFails PROVE RuleInv'
<1>1. /\ UNCHANGED <<config, reloading, generation, storeVars, entries, disk, due,
                     fileLastMod, envVars>>
      /\ spent' \in Spent
  BY SpentType DEF RuleInv, TypeOK, ServerAnswers, RequestFails
<1>2. fetch.phase = "asking" /\ fetch \in Fetch /\ fetch.todo # <<>>
  BY DEF ServerAnswers, RequestFails, RuleInv, TypeOK, FetchInv
<1>3. PICK answer \in Answer :
        /\ fetch' = [fetch EXCEPT !.phase = "answered", !.answer = answer]
        /\ answer.status = "notModified" => \E e \in fetch.previous : e.body = answer.served
  <2>1. CASE ServerAnswers
    <3> DEFINE status == IF \E e \in fetch.previous : e.tagged /\ e.body = server[Url]
                         THEN "notModified" ELSE "rules"
               answer == [status |-> status, served |-> server[Url]]
    <3>1. server[Url] \in SUBSET Lines
      BY <1>2, ReadType, ContentAssumption DEF RuleInv, TypeOK
    <3>2. answer \in Answer
      BY <3>1 DEF Answer
    <3>3. fetch' = [fetch EXCEPT !.phase = "answered", !.answer = answer]
      BY <2>1 DEF ServerAnswers
    <3>4. answer.status = "notModified" => \E e \in fetch.previous : e.body = answer.served
      OBVIOUS
    <3> QED
      BY <3>2, <3>3, <3>4
  <2>2. CASE RequestFails
    <3> DEFINE answer == [NoAnswer EXCEPT !.status = "failed"]
    <3>1. answer \in Answer /\ answer.status = "failed"
      BY DEF Answer, NoAnswer
    <3> QED
      BY <2>2, <3>1 DEF RequestFails
  <2> QED
    BY <2>1, <2>2
<1>4. /\ fetch' \in Fetch
      /\ fetch'.phase = "answered" /\ fetch'.todo = fetch.todo
      /\ fetch'.generation = fetch.generation /\ fetch'.previous = fetch.previous
      /\ fetch'.answer = answer
  BY <1>2, <1>3 DEF Fetch, Phases
<1>5. FetchInv'
  BY <1>1, <1>2, <1>3, <1>4 DEF RuleInv, FetchInv, Current, Url
<1>6. TypeOK'
  BY <1>1, <1>4 DEF RuleInv, TypeOK, storeVars, envVars
<1>7. SubscribedOnly' /\ EntriesCompile'
  BY <1>1 DEF RuleInv, SubscribedOnly, EntriesCompile, storeVars
<1> QED
  BY <1>1, <1>5, <1>6, <1>7, StoreUnchanged DEF RuleInv
-----------------------------------------------------------------------------
(* The steps that change the rules.                                        *)
LEMMA InitConfigInv == ASSUME RuleInv, InitConfig PROVE RuleInv'
<1> DEFINE list == Only(BlockList, CompileRuleContent(config.list))
           restored == [u \in Restorable |-> CHOOSE e \in Remembered(u) : TRUE]
           bodies == [u \in Restorable |-> restored[u].body]
<1>1. /\ UNCHANGED <<config, fetch, disk, envVars, spent>>
      /\ ~reloading' /\ reloading' = FALSE /\ generation' = generation + 1 /\ due' = TRUE
      /\ fileLastMod' = [f \in Files |-> 0]
      /\ entries' = restored /\ sources' = With(bodies, list)
      /\ compiled' = Owned(sources')
  BY DEF InitConfig, RestoreRuleCaches, ForgetFiles
<1>2. /\ DOMAIN sources' = {BlockList} \cup Restorable
      /\ \A u \in Restorable : sources'[u] = restored[u].body
      /\ \A s \in {BlockList} \ Restorable : sources'[s] = CompileRuleContent(config.list)
  BY <1>1 DEF With, Only
<1>3. Restorable \subseteq Urls /\ Restorable \subseteq Range(config.urls)
  BY ReadType DEF RuleInv, Restorable
<1>4. ASSUME NEW u \in Restorable
      PROVE  restored[u] \in Entry /\ CompilesStrictly(restored[u].body)
  <2>1. PICK e \in Remembered(u) : CompilesStrictly(e.body)
    BY DEF Restorable
  <2>2. \A d \in Remembered(u) : d = e
    BY <2>1 DEF Remembered, ReadCache
  <2>3. restored[u] = e
    BY <2>1, <2>2
  <2>4. e \in Entry
    BY <1>3, <2>1, ReadType DEF RuleInv
  <2> QED
    BY <2>1, <2>3, <2>4
<1>5. TypeOK'
  <2>1. CompileRuleContent(config.list) \in SUBSET (Lines \ Invalid)
    BY ConfigAssumption, ContentAssumption DEF RuleInv, TypeOK, CompileRuleContent
  <2>2. \A s \in DOMAIN sources' : sources'[s] \in SUBSET (Lines \ Invalid)
    BY <1>2, <1>4, <2>1 DEF Entry, CompilesStrictly
  <2>3. Range(sources') \subseteq SUBSET (Lines \ Invalid) /\ compiled' \subseteq Lines \ Invalid
    BY <1>1, <2>2 DEF Range, Owned
  <2>4. DOMAIN entries' \subseteq Urls /\ Range(entries') \subseteq Entry
    BY <1>1, <1>3, <1>4 DEF Range
  <2>5. DOMAIN sources' \subseteq Source
    BY <1>2, <1>3 DEF Source
  <2>6. generation' \in Nat /\ reloading' \in BOOLEAN /\ due' \in BOOLEAN
    <3>1. generation \in Nat
      BY DEF RuleInv, TypeOK
    <3>2. generation' \in Nat
      BY <1>1, <3>1
    <3>3. reloading' \in BOOLEAN /\ due' \in BOOLEAN
      BY <1>1, Zenon
    <3> QED
      BY <3>2, <3>3
  <2>7. fileLastMod' \in [Files -> Nat]
    BY <1>1
  <2>8. UNCHANGED <<config, fetch, disk, server, file, spent>>
    BY <1>1 DEF envVars
  <2> QED
    BY <2>3, <2>4, <2>5, <2>6, <2>7, <2>8 DEF RuleInv, TypeOK
<1>6. RulesOwned'
  BY <1>1 DEF RulesOwned, Owned
<1>7. SubscribedOnly'
  BY <1>1, <1>2, <1>3 DEF SubscribedOnly
<1>8. EntriesPublished'
  <2>1. DOMAIN sources' \cap Urls = Restorable
    BY <1>2, <1>3, SourceAssumption
  <2> QED
    BY <1>1, <1>2, <2>1 DEF EntriesPublished
<1>9. StampInv'
  BY <1>1, VersionAssumption DEF StampInv
<1>10. FetchInv'
  BY <1>1 DEF RuleInv, TypeOK, Fetch, FetchInv, Current
<1>11. EntriesCompile'
  <2>1. \A u \in DOMAIN entries' : CompilesStrictly(entries'[u].body)
    BY <1>1, <1>4
  <2>2. generation' # 0
    BY <1>1 DEF RuleInv, TypeOK
  <2> QED
    BY <2>1, <2>2 DEF EntriesCompile, CompilesStrictly
<1> QED
  BY <1>5, <1>6, <1>7, <1>8, <1>9, <1>10, <1>11 DEF RuleInv

LEMMA RestartInv == ASSUME RuleInv, NEW c \in Configs, Restart(c) PROVE RuleInv'
<1>1. /\ config' = c /\ reloading' = TRUE /\ generation' = 0 /\ due' = TRUE
      /\ sources' = << >> /\ compiled' = {} /\ entries' = << >>
      /\ fetch' = NotFetching /\ fileLastMod' = [f \in Files |-> 0]
      /\ UNCHANGED envVars /\ spent' \in Spent
  BY SpentType DEF Restart, RuleInv, TypeOK
<1>2. DOMAIN disk' \subseteq Urls /\ Range(disk') \subseteq Entry
  <2>1. CASE UNCHANGED disk
    BY <2>1 DEF RuleInv, TypeOK
  <2>2. ASSUME fetch.phase = "answered", NEW e \in AcceptedEntry, WriteCache(e)
        PROVE  DOMAIN disk' \subseteq Urls /\ Range(disk') \subseteq Entry
    <3>1. Url \in Urls /\ e \in Entry
      BY <2>2, ReadType DEF RuleInv, FetchInv
    <3>2. disk' = disk \/ disk' = With(Only(Url, e), disk)
      BY <2>2 DEF WriteCache
    <3> QED
      BY <3>1, <3>2 DEF RuleInv, TypeOK, With, Only, Range
  <2> QED
    BY <2>1, <2>2 DEF Restart
<1>3. TypeOK'
  BY <1>1, <1>2, NotFetchingType DEF RuleInv, TypeOK, Range, envVars
<1>4. RulesOwned' /\ EntriesPublished' /\ SubscribedOnly'
  BY <1>1 DEF RulesOwned, Owned, Range, EntriesPublished, SubscribedOnly
<1>5. StampInv'
  BY <1>1, VersionAssumption DEF StampInv
<1>6. FetchInv' /\ EntriesCompile'
  BY <1>1 DEF FetchInv, NotFetching, EntriesCompile
<1> QED
  BY <1>3, <1>4, <1>5, <1>6 DEF RuleInv

LEMMA SetBlockListFromFileInv == ASSUME RuleInv, SetBlockListFromFile PROVE RuleInv'
<1> DEFINE version == [f \in Reached |-> CHOOSE v \in file[f] : TRUE]
           taken   == {f \in Reached : Changed(f, version[f]) /\ version[f].state = "sound"}
           updates == [f \in taken |-> CompileRuleContent(version[f].body)]
<1>1. /\ ~reloading /\ PublishRuleSource(updates)
      /\ fileLastMod' = [f \in Files |-> IF f \in taken THEN version[f].mtime
                                                        ELSE fileLastMod[f]]
      /\ UNCHANGED <<config, reloading, generation, entries, due, fetch, disk, envVars, spent>>
  BY DEF SetBlockListFromFile
<1>2. Reached \subseteq Files /\ Reached \subseteq Range(config.files)
  BY ConfigAssumption DEF RuleInv, TypeOK, Reached, Range
<1>3. ASSUME NEW f \in Reached PROVE version[f] \in Versions
  <2>1. file[f] # {}
    <3>1. PICK i \in DOMAIN config.files :
             config.files[i] = f /\ \A j \in 1..i : ~EndsPass(config.files[j])
      BY DEF Reached
    <3>2. i \in 1..i
      BY <3>1, ConfigAssumption DEF RuleInv, TypeOK
    <3> QED
      BY <3>1, <3>2 DEF EndsPass
  <2>2. file[f] \in FileStates
    BY <1>2 DEF RuleInv, TypeOK
  <2>3. PICK v \in Versions : file[f] = {v}
    BY <2>1, <2>2 DEF FileStates
  <2> QED
    BY <2>3
<1>4. /\ DOMAIN sources' = taken \cup DOMAIN sources
      /\ \A f \in taken : sources'[f] = CompileRuleContent(version[f].body)
      /\ \A s \in DOMAIN sources \ taken : sources'[s] = sources[s]
  <2>1. DOMAIN updates = taken /\ \A f \in taken : updates[f] = CompileRuleContent(version[f].body)
    OBVIOUS
  <2>2. /\ DOMAIN sources' = DOMAIN updates \cup DOMAIN sources
        /\ \A s \in DOMAIN updates : sources'[s] = updates[s]
        /\ \A s \in DOMAIN sources \ DOMAIN updates : sources'[s] = sources[s]
    BY <1>1, PublishSources
  <2> QED
    BY <2>1, <2>2
<1>5. TypeOK'
  <2>1. DOMAIN updates \subseteq Source /\ Range(updates) \subseteq SUBSET (Lines \ Invalid)
    <3>1. \A f \in taken : version[f].body \subseteq Lines
      BY <1>3, VersionAssumption, ContentAssumption
    <3>2. \A f \in taken : updates[f] \in SUBSET (Lines \ Invalid)
      BY <3>1 DEF CompileRuleContent
    <3>3. Range(updates) \subseteq SUBSET (Lines \ Invalid)
      BY <3>2 DEF Range
    <3> QED
      BY <1>2, <3>3 DEF Source
  <2>2. /\ DOMAIN sources' \subseteq Source /\ Range(sources') \subseteq SUBSET (Lines \ Invalid)
        /\ compiled' \subseteq Lines \ Invalid
    BY <1>1, <2>1, PublishType DEF RuleInv
  <2>3. fileLastMod' \in [Files -> Nat]
    BY <1>1, <1>3, VersionAssumption DEF RuleInv, TypeOK
  <2> QED
    BY <1>1, <2>2, <2>3 DEF RuleInv, TypeOK, envVars
<1>6. RulesOwned'
  BY <1>1, PublishOwned DEF RuleInv
<1>7. SubscribedOnly'
  BY <1>1, <1>2, <1>4 DEF RuleInv, SubscribedOnly
<1>8. EntriesPublished' /\ EntriesCompile'
  <2>1. taken \cap Urls = {} /\ taken \subseteq Files
    BY <1>2, SourceAssumption
  <2>2. generation = 0 => taken = {}
    BY <1>1 DEF RuleInv, EntriesCompile
  <2>3. EntriesPublished'
    BY <1>1, <1>4, <2>1 DEF RuleInv, EntriesPublished
  <2>4. EntriesCompile'
    BY <1>1, <1>4, <2>2 DEF RuleInv, EntriesCompile, CompilesStrictly
  <2> QED
    BY <2>3, <2>4
<1>9. StampInv'
  <2> SUFFICES ASSUME NEW f \in Files, NEW v \in Versions, v.mtime = fileLastMod'[f]
               PROVE  f \in DOMAIN sources' /\ sources'[f] = CompileRuleContent(v.body)
    BY DEF StampInv
  <2>1. CASE f \in taken
    <3>1. v.mtime = version[f].mtime /\ version[f] \in Versions
      BY <1>1, <1>3, <2>1
    <3>2. v.body = version[f].body
      BY <3>1, VersionAssumption
    <3> QED
      BY <1>4, <2>1, <3>2
  <2>2. CASE f \notin taken
    <3>1. v.mtime = fileLastMod[f]
      BY <1>1, <2>2
    <3> QED
      BY <1>4, <2>2, <3>1 DEF RuleInv, StampInv
  <2> QED
    BY <2>1, <2>2
<1>10. FetchInv'
  BY <1>1 DEF RuleInv, FetchInv, Current, Url
<1> QED
  BY <1>5, <1>6, <1>7, <1>8, <1>9, <1>10 DEF RuleInv
-----------------------------------------------------------------------------
(* Accepting an answer.  What the step does to the rules, in one place: an *)
(* entry is accepted only in the present generation, and it is what the    *)
(* server had.                                                             *)
LEMMA AcceptEffect ==
  ASSUME RuleInv, AcceptAnswer
  PROVE  \/ UNCHANGED <<storeVars, entries, disk>> /\ (~Current \/ AcceptedEntry = {})
         \/ /\ Current
            /\ \E e \in AcceptedEntry :
                 /\ e \in Entry /\ CompilesStrictly(e.body) /\ Url \in Urls
                 /\ e.body = fetch.answer.served
                 /\ WriteCache(e)
                 /\ entries' = With(Only(Url, e), entries)
                 /\ \/ PublishRuleSource(Only(Url, e.body))
                    \/ /\ UNCHANGED storeVars
                       /\ Url \in DOMAIN sources /\ sources[Url] = e.body
<1>1. CASE ~Current /\ Abandon
  BY <1>1 DEF Abandon
<1>2. CASE AcceptedEntry = {} /\ UNCHANGED <<storeVars, entries, disk>>
  BY <1>2
<1>3. ASSUME Current, NEW e \in AcceptedEntry, WriteCache(e),
             entries' = With(Only(Url, e), entries),
             IF fetch.answer.status = "rules" THEN PublishRuleSource(Only(Url, e.body))
                                              ELSE UNCHANGED storeVars
      PROVE  /\ e \in Entry /\ CompilesStrictly(e.body) /\ Url \in Urls
             /\ e.body = fetch.answer.served
             /\ \/ PublishRuleSource(Only(Url, e.body))
                \/ /\ UNCHANGED storeVars
                   /\ Url \in DOMAIN sources /\ sources[Url] = e.body
  <2>1. fetch.phase = "answered"
    BY DEF AcceptAnswer
  <2>2. Url \in Urls /\ e \in Entry
    BY <2>1, ReadType DEF RuleInv, FetchInv
  <2>3. CASE fetch.answer.status = "notModified"
    <3>1. AcceptedEntry = fetch.previous
      BY <2>3 DEF AcceptedEntry
    <3>2. /\ fetch.previous = IF Url \in DOMAIN entries THEN {entries[Url]} ELSE {}
          /\ \E d \in fetch.previous : d.body = fetch.answer.served
      BY <1>3, <2>1, <2>3 DEF RuleInv, FetchInv
    <3>3. /\ Url \in DOMAIN entries /\ e = entries[Url]
          /\ e.body = fetch.answer.served
      BY <1>3, <3>1, <3>2
    <3>4. Url \in DOMAIN sources /\ sources[Url] = e.body
      BY <3>3 DEF RuleInv, EntriesPublished
    <3>5. CompilesStrictly(e.body)
      BY <3>3 DEF RuleInv, EntriesCompile
    <3> QED
      BY <1>3, <2>2, <2>3, <3>3, <3>4, <3>5
  <2>4. CASE fetch.answer.status = "rules" /\ CompilesStrictly(fetch.answer.served)
    <3>1. e = [body |-> fetch.answer.served, tagged |-> Url \in Tagging]
      BY <1>3, <2>4 DEF AcceptedEntry
    <3> QED
      BY <1>3, <2>2, <2>4, <3>1
  <2> QED
    BY <1>3, <2>3, <2>4 DEF AcceptedEntry
<1> QED
  BY <1>1, <1>2, <1>3, Zenon DEF AcceptAnswer

LEMMA AcceptFetch ==
  ASSUME RuleInv, AcceptAnswer
  PROVE  fetch' \in Fetch /\ FetchInv'
<1>1. UNCHANGED <<config, reloading, generation>> /\ fetch.phase = "answered"
  BY DEF AcceptAnswer
<1>2. fetch \in Fetch /\ fetch.todo \in Seq(Urls) /\ fetch.todo # << >>
  BY <1>1 DEF RuleInv, TypeOK, Fetch, FetchInv
<1>3. CASE fetch' = NotFetching
  BY <1>3, NotFetchingType DEF FetchInv, NotFetching
<1>4. CASE Current /\ NextUrl /\ fetch' # NotFetching
  <2>1. /\ Len(fetch.todo) > 1
        /\ fetch' = [fetch EXCEPT !.phase = "next", !.todo = Tail(@),
                                  !.previous = {}, !.answer = NoAnswer]
    BY <1>4 DEF NextUrl
  <2>2. /\ Tail(fetch.todo) \in Seq(Urls) /\ Tail(fetch.todo) # << >>
        /\ Range(Tail(fetch.todo)) \subseteq Range(fetch.todo)
    BY <1>2, <2>1, TodoShrinks
  <2>3. NoAnswer \in Answer
    BY DEF NoAnswer, Answer
  <2>4. /\ fetch' \in Fetch
        /\ fetch'.phase = "next" /\ fetch'.todo = Tail(fetch.todo)
        /\ fetch'.generation = fetch.generation
    BY <1>2, <2>1, <2>2, <2>3 DEF Fetch, Phases
  <2>5. FetchInv'
    BY <1>1, <2>2, <2>4 DEF RuleInv, FetchInv, Current
  <2> QED
    BY <2>4, <2>5
<1> QED
  BY <1>3, <1>4 DEF AcceptAnswer, Abandon

LEMMA AcceptAnswerInv == ASSUME RuleInv, AcceptAnswer PROVE RuleInv'
<1>1. /\ UNCHANGED <<config, reloading, generation, due, fileLastMod, envVars, spent>>
      /\ fetch.phase = "answered"
  BY DEF AcceptAnswer
<1>2. fetch' \in Fetch /\ FetchInv'
  BY AcceptFetch
<1>3. CASE UNCHANGED <<storeVars, entries, disk>>
  <2>1. TypeOK'
    BY <1>1, <1>2, <1>3 DEF RuleInv, TypeOK, storeVars, envVars
  <2>2. SubscribedOnly' /\ EntriesCompile'
    BY <1>1, <1>3 DEF RuleInv, SubscribedOnly, EntriesCompile, storeVars
  <2> QED
    BY <1>1, <1>2, <1>3, <2>1, <2>2, StoreUnchanged DEF RuleInv
<1>4. ASSUME Current, NEW e \in Entry, CompilesStrictly(e.body), Url \in Urls,
             WriteCache(e), entries' = With(Only(Url, e), entries),
             \/ PublishRuleSource(Only(Url, e.body))
             \/ /\ UNCHANGED storeVars
                /\ Url \in DOMAIN sources /\ sources[Url] = e.body
      PROVE  RuleInv'
  <2>1. /\ DOMAIN sources' = {Url} \cup DOMAIN sources
        /\ sources'[Url] = e.body
        /\ \A s \in DOMAIN sources \ {Url} : sources'[s] = sources[s]
    <3>1. CASE PublishRuleSource(Only(Url, e.body))
      <4>1. DOMAIN Only(Url, e.body) = {Url} /\ Only(Url, e.body)[Url] = e.body
        BY DEF Only
      <4>2. /\ DOMAIN sources' = DOMAIN Only(Url, e.body) \cup DOMAIN sources
            /\ \A s \in DOMAIN Only(Url, e.body) : sources'[s] = Only(Url, e.body)[s]
            /\ \A s \in DOMAIN sources \ DOMAIN Only(Url, e.body) : sources'[s] = sources[s]
        BY <3>1, PublishSources
      <4> QED
        BY <4>1, <4>2
    <3>2. CASE UNCHANGED storeVars /\ Url \in DOMAIN sources /\ sources[Url] = e.body
      BY <3>2 DEF storeVars
    <3> QED
      BY <1>4, <3>1, <3>2
  <2>2. /\ DOMAIN entries' = {Url} \cup DOMAIN entries
        /\ entries'[Url] = e
        /\ \A u \in DOMAIN entries \ {Url} : entries'[u] = entries[u]
    BY <1>4 DEF With, Only
  <2>3. RulesOwned'
    <3>1. CASE PublishRuleSource(Only(Url, e.body))
      BY <3>1, PublishOwned DEF RuleInv
    <3>2. CASE UNCHANGED storeVars
      BY <3>2 DEF RuleInv, RulesOwned, Owned, storeVars
    <3> QED
      BY <1>4, <3>1, <3>2
  <2>4. TypeOK'
    <3>1. DOMAIN sources' \subseteq Source
      BY <1>4, <2>1 DEF RuleInv, TypeOK, Source
    <3>2. \A s \in DOMAIN sources' : sources'[s] \in SUBSET (Lines \ Invalid)
      BY <1>4, <2>1 DEF RuleInv, TypeOK, Entry, Range, CompilesStrictly
    <3>3. Range(sources') \subseteq SUBSET (Lines \ Invalid)
      BY <3>2 DEF Range
    <3>4. compiled' \subseteq Lines \ Invalid
      BY <2>3, <3>3 DEF RulesOwned, Owned
    <3>5. DOMAIN entries' \subseteq Urls /\ Range(entries') \subseteq Entry
      BY <1>4, <2>2 DEF RuleInv, TypeOK, Range
    <3>6. DOMAIN disk' \subseteq Urls /\ Range(disk') \subseteq Entry
      <4>1. disk' = disk \/ disk' = With(Only(Url, e), disk)
        BY <1>4 DEF WriteCache
      <4> QED
        BY <1>4, <4>1 DEF RuleInv, TypeOK, With, Only, Range
    <3> QED
      BY <1>1, <1>2, <3>1, <3>3, <3>4, <3>5, <3>6 DEF RuleInv, TypeOK, envVars
  <2>5. SubscribedOnly'
    <3>1. ~reloading => Url \in Range(config.urls)
      <4>1. fetch.todo \in Seq(Urls) /\ fetch.todo # << >>
        BY <1>1 DEF RuleInv, TypeOK, Fetch, FetchInv
      <4>2. Url \in Range(fetch.todo)
        BY <4>1, TodoShrinks DEF Url
      <4> QED
        BY <1>1, <1>4, <4>2 DEF RuleInv, FetchInv
    <3> QED
      BY <1>1, <2>1, <3>1 DEF RuleInv, SubscribedOnly
  <2>6. EntriesPublished'
    BY <1>4, <2>1, <2>2 DEF RuleInv, EntriesPublished
  <2>7. StampInv'
    <3>1. Url \notin Files
      BY <1>4, SourceAssumption
    <3> QED
      BY <1>1, <2>1, <3>1 DEF RuleInv, StampInv
  <2>8. EntriesCompile'
    <3>1. generation' # 0
      BY <1>1, <1>4 DEF RuleInv, FetchInv, TypeOK, Fetch, Current
    <3>2. \A u \in DOMAIN entries' : CompilesStrictly(entries'[u].body)
      BY <1>4, <2>2 DEF RuleInv, EntriesCompile
    <3> QED
      BY <3>1, <3>2 DEF EntriesCompile, CompilesStrictly
  <2> QED
    BY <1>2, <2>3, <2>4, <2>5, <2>6, <2>7, <2>8 DEF RuleInv
<1> QED
  BY <1>3, <1>4, AcceptEffect
-----------------------------------------------------------------------------
LEMMA RuleInvStep == RuleInv /\ [Next]_vars => RuleInv'
BY InitConfigInv, SetBlockListFromFileInv, StartFetchInv, AskServerInv, AnswerInv,
   AcceptAnswerInv, EnvironmentInv, ReplaceConfigInv, RestartInv DEF Next

(* The inductive invariant, from which the rest follows.                   *)
LEMMA RuleInvariant == Spec => []RuleInv
BY RuleInvInit, RuleInvStep, PTL DEF Spec

(* Every variable keeps its type: only rules that compile get into force.  *)
THEOREM TypesKept == Spec => []TypeOK
<1>1. RuleInv => TypeOK
  BY DEF RuleInv
<1> QED
  BY <1>1, RuleInvariant, PTL

(* A rule is matched against if and only if a source holds it.             *)
THEOREM StoreIsUnionOfSources == Spec => []RulesOwned
<1>1. RuleInv => RulesOwned
  BY DEF RuleInv
<1> QED
  BY <1>1, RuleInvariant, PTL

(* After a reload nothing is left of what the user removed, and no late    *)
(* download brings it back.                                                *)
THEOREM RemovedStaysRemoved == Spec => []SubscribedOnly
<1>1. RuleInv => SubscribedOnly
  BY DEF RuleInv
<1> QED
  BY <1>1, RuleInvariant, PTL

(* The validators kept for a URL are those of its rules in force.          *)
THEOREM ValidatorsBound == Spec => []EntriesPublished
<1>1. RuleInv => EntriesPublished
  BY DEF RuleInv
<1> QED
  BY <1>1, RuleInvariant, PTL

(* A file skipped as unchanged has its rules in force.                     *)
THEOREM SkippedFilesAreInForce == Spec => []StampsHonest
<1>1. RuleInv => StampsHonest
  <2> SUFFICES ASSUME RuleInv, NEW f \in Files, NEW v \in file[f], v.mtime = fileLastMod[f]
               PROVE  f \in DOMAIN sources /\ sources[f] = CompileRuleContent(v.body)
    BY DEF StampsHonest
  <2>1. v \in Versions
    BY DEF RuleInv, TypeOK, FileStates
  <2> QED
    BY <2>1 DEF RuleInv, StampInv
<1> QED
  BY <1>1, RuleInvariant, PTL

(* Validators and modification times stand for rules in force.             *)
THEOREM MemoryIsRight == Spec => []RemembersRightly
BY ValidatorsBound, SkippedFilesAreInForce, PTL DEF RemembersRightly

(* An accepted answer leaves the rules that the server had in force, also  *)
(* when it only said that they had not changed.                            *)
THEOREM AcceptedIsServed == Spec => AcceptsWhatIsServed
<1>1. RuleInv /\ [Next]_vars =>
        [ fetch.phase = "answered" /\ Current /\ AcceptedEntry # {} /\ fetch'.phase # "answered"
            /\ generation' = generation
          => Url \in DOMAIN sources' /\ sources'[Url] = fetch.answer.served ]_vars
  <2> SUFFICES ASSUME RuleInv, Next, fetch.phase = "answered", Current, AcceptedEntry # {},
                      fetch'.phase # "answered", generation' = generation
               PROVE  Url \in DOMAIN sources' /\ sources'[Url] = fetch.answer.served
    BY Zenon DEF vars
  <2>1. 0 < generation /\ generation \in Nat
    BY DEF RuleInv, FetchInv, Current, TypeOK, Fetch
  <2>2. AcceptAnswer
    BY <2>1 DEF Next, ReplaceConfig, Restart, InitConfig, SetBlockListFromFile, StartFetch,
       AskServer, ServerAnswers, RequestFails, IntervalPasses, ServerChanges, FileChanges
  <2>3. PICK e \in AcceptedEntry :
           /\ e.body = fetch.answer.served
           /\ \/ PublishRuleSource(Only(Url, e.body))
              \/ /\ UNCHANGED storeVars
                 /\ Url \in DOMAIN sources /\ sources[Url] = e.body
    BY <2>2, AcceptEffect
  <2>4. CASE PublishRuleSource(Only(Url, e.body))
    <3>1. DOMAIN Only(Url, e.body) = {Url} /\ Only(Url, e.body)[Url] = e.body
      BY DEF Only
    <3>2. /\ DOMAIN sources' = DOMAIN Only(Url, e.body) \cup DOMAIN sources
          /\ \A s \in DOMAIN Only(Url, e.body) : sources'[s] = Only(Url, e.body)[s]
      BY <2>4, PublishSources
    <3> QED
      BY <2>3, <3>1, <3>2
  <2>5. CASE UNCHANGED storeVars /\ Url \in DOMAIN sources /\ sources[Url] = e.body
    BY <2>3, <2>5 DEF storeVars
  <2> QED
    BY <2>3, <2>4, <2>5
<1> QED
  BY <1>1, RuleInvariant, PTL DEF Spec, AcceptsWhatIsServed

(* While the program runs, a URL that stays subscribed to keeps rules.     *)
THEOREM RulesSurviveReloads == Spec => GoodRulesKept
<1>1. RuleInv /\ [Next]_vars =>
        [ \A u \in DOMAIN sources \cap Range(config'.urls) :
            generation' >= generation => u \in DOMAIN sources' ]_vars
  <2> SUFFICES ASSUME RuleInv, Next, NEW u \in DOMAIN sources \cap Range(config'.urls),
                      generation' >= generation
               PROVE  u \in DOMAIN sources'
    BY Zenon DEF vars
  <2>1. CASE InitConfig
    <3>1. u \in Range(config.urls) /\ u \in Urls
      BY <2>1, ConfigAssumption DEF InitConfig, RuleInv, TypeOK, Range
    <3>2. u \in DOMAIN entries /\ CompilesStrictly(entries[u].body)
      BY <3>1 DEF RuleInv, EntriesPublished, EntriesCompile
    <3>3. u \in Restorable
      BY <3>1, <3>2 DEF Restorable, Remembered
    <3> QED
      BY <2>1, <3>3 DEF InitConfig, RestoreRuleCaches, With, Only
  <2>2. CASE SetBlockListFromFile
    BY <2>2 DEF SetBlockListFromFile, PublishRuleSource, With
  <2>3. CASE AcceptAnswer
    BY <2>3 DEF AcceptAnswer, Abandon, PublishRuleSource, With, storeVars
  <2>4. ASSUME NEW c \in Configs, Restart(c) PROVE FALSE
    <3>1. generation = 0
      BY <2>4 DEF Restart, RuleInv, TypeOK
    <3> QED
      BY <3>1 DEF RuleInv, EntriesCompile
  <2>5. CASE UNCHANGED sources
    BY <2>5
  <2> QED
    BY <2>1, <2>2, <2>3, <2>4, <2>5 DEF Next, ReplaceConfig, StartFetch, AskServer, Abandon,
       ServerAnswers, RequestFails, IntervalPasses, ServerChanges, FileChanges, storeVars
<1> QED
  BY <1>1, RuleInvariant, PTL DEF Spec, GoodRulesKept
=============================================================================
