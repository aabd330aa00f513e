---------------------------- MODULE ConfigFiles ----------------------------
(***************************************************************************)
(* The configuration files (internal/app/config.go): the main file, the    *)
(* additional file, and config/config_additional.json, which is looked for *)
(* when the additional file has its default name and is missing.           *)
(*                                                                         *)
(* A file is read again when its modification time has grown.  What it     *)
(* sets replaces options of the configuration in force; an option it does  *)
(* not set, or sets no more, keeps its value.                              *)
(***************************************************************************)
EXTENDS Naturals

CONSTANTS
  Defaults, \* the configuration before any file is read: [option -> value]
  MaxMtime  \* bound: the modification times are at most this

ConfigFile == {"main", "additional", "fallback"}

\* A file is missing, its directory cannot be read, it cannot be opened, it is
\* not JSON, it has an option of the wrong type, or it is fine.
FileState == {"missing", "denied", "locked", "broken", "mistyped", "fine"}

ASSUME FilesAssumption == MaxMtime \in Nat \ {0}

VARIABLES
  disk,          \* external: each file's state, content and modification time
  namedByFlag,   \* the additional file's name was given on the command line
  configLastMod, \* the modification time of the version read last, 0 if none
  config,        \* the configuration in force
  taken          \* history: the version of each file that was read completely

fileVars == <<disk, namedByFlag, configLastMod, taken>>

FilesTypeOK ==
  /\ \A f \in ConfigFile : disk[f].state \in FileState /\ disk[f].mtime \in 0 .. MaxMtime
  /\ namedByFlag \in BOOLEAN
  /\ configLastMod \in [ConfigFile -> 0 .. MaxMtime]
  /\ taken \in [ConfigFile -> 0 .. MaxMtime]
  /\ DOMAIN config = DOMAIN Defaults

FilesInit ==
  /\ \A f \in ConfigFile : disk[f].mtime = 1
  /\ configLastMod = [f \in ConfigFile |-> 0]
  /\ config = Defaults
  /\ taken = [f \in ConfigFile |-> 0]

\* LoadConfig of one file, up to its return value.
LoadStatus(f) ==
  CASE disk[f].state = "missing" -> "missing"                      \* -5
    [] disk[f].state = "denied" -> "denied"                        \* -2
    [] disk[f].mtime <= configLastMod[f] -> "unchanged"            \* -1
    [] OTHER -> disk[f].state                                      \* -3, -4, 0

\* What LoadConfig does to its target: a file that stops at a wrong type has
\* set its other options, which count if the target is adopted after all.
Overlay(f, target) ==
  IF LoadStatus(f) \notin {"fine", "mistyped"} THEN target
  ELSE [o \in DOMAIN target |->
          IF o \in DOMAIN disk[f].content THEN disk[f].content[o] ELSE target[o]]

AdditionalFile ==
  IF LoadStatus("additional") = "missing" /\ ~namedByFlag THEN "fallback" ELSE "additional"

\* The files LoadInitConfig gets to; an error in the main file ends it.
Reached ==
  IF LoadStatus("main") \in {"fine", "unchanged"} THEN {"main", AdditionalFile} ELSE {"main"}

\* Mutant: the time is remembered before the file is parsed.
Remembered_BeforeReading(f) == LoadStatus(f) \notin {"missing", "denied", "unchanged"}

\* The files whose modification time is remembered: those parsed to the end.
Remembered(f) == LoadStatus(f) = "fine"
LoadedFiles == {f \in Reached : Remembered(f)}

\* The configuration LoadInitConfig goes on with.
LoadedConfig ==
  IF \E f \in Reached : LoadStatus(f) = "fine"
  THEN Overlay(AdditionalFile, Overlay("main", config)) ELSE config

LoadFiles ==
  /\ configLastMod' = [f \in ConfigFile |->
                         IF f \in LoadedFiles THEN disk[f].mtime ELSE configLastMod[f]]
  /\ taken' = [f \in ConfigFile |->
                 IF f \in Reached /\ LoadStatus(f) = "fine" THEN disk[f].mtime ELSE taken[f]]
  /\ UNCHANGED <<disk, namedByFlag>>

\* An edit gives a file a new state and content.  A version written in the
\* second of the version before it cannot be told from it and is left out; a
\* change of permissions alone leaves the modification time as it is.
Written(e) == [state |-> e.state, content |-> e.content, mtime |-> disk[e.file].mtime + 1]

UserEdits(edits) ==
  \E e \in edits :
    /\ \/ /\ disk[e.file].mtime < MaxMtime
          /\ disk' = [disk EXCEPT ![e.file] = Written(e)]
       \/ /\ {disk[e.file].state, e.state} \subseteq {"denied", "locked", "fine"}
          /\ disk[e.file].content = e.content
          /\ disk[e.file].state # e.state
          /\ disk' = [disk EXCEPT ![e.file].state = e.state]
    /\ UNCHANGED <<namedByFlag, configLastMod, taken>>

\* A file that LoadInitConfig would read, and a version it has not read yet.
Readable(f) ==
  /\ disk[f].state = "fine"
  /\ disk["main"].state = "fine"
  /\ f = "fallback" => disk["additional"].state = "missing" /\ ~namedByFlag
Unread(f) == disk[f].mtime > taken[f]
=============================================================================
