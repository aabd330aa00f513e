----------------------------- MODULE SyncServer ----------------------------
(***************************************************************************)
(* The sync server (internal/app/SyncServer.go): at intervals the torrents *)
(* are submitted to it by a goroutine, and its answer brings addresses to  *)
(* ban.  The goroutine takes the server's address when it runs, which may  *)
(* be another than the one in force when it was started, and installs what *)
(* it gets whatever the configuration says by then.                        *)
(***************************************************************************)
EXTENDS Connection

CONSTANTS
  SyncURL,       \* the addresses of sync servers
  NoSync,        \* the empty syncServerURL
  Line,          \* the lines of a server's answer
  Compiles,      \* those that are addresses
  Served,        \* [SyncURL -> the lines the server sends]
  SyncInterval   \* bound: the intervals are at most this, 60 the default

\* Where the goroutine of a submission is before it has an address.
NoSubmission == "none"
Started == "started"

ASSUME SyncAssumption ==
  /\ {NoSync, NoSubmission, Started} \cap SyncURL = {}
  /\ NoSync \notin {NoSubmission, Started}
  /\ Compiles \subseteq Line
  /\ Served \in [SyncURL -> SUBSET Line]
  /\ SyncInterval \in Nat \ {0}
  /\ "syncServerURL" \in DOMAIN Defaults

VARIABLES
  syncRules,     \* syncServer_CompiledRules
  syncInterval,  \* syncServer_syncConfig.Interval
  sinceSync,     \* currentTimestamp - syncServer_lastSync, up to SyncInterval
  isSubmitting,  \* syncServer_isSubmiting
  submission     \* the goroutine: none, started, or waiting for a server

syncVars == <<syncRules, syncInterval, sinceSync, isSubmitting, submission>>

SyncTypeOK ==
  /\ config.syncServerURL \in SyncURL \cup {NoSync}
  /\ syncRules \subseteq Compiles
  /\ syncInterval \in 0 .. SyncInterval
  /\ sinceSync \in 0 .. SyncInterval
  /\ isSubmitting \in BOOLEAN
  /\ submission \in SyncURL \cup {NoSync, NoSubmission, Started}

SyncInit ==
  /\ syncRules = {}
  /\ syncInterval = SyncInterval
  /\ sinceSync = SyncInterval
  /\ isSubmitting = FALSE
  /\ submission = NoSubmission

SyncTimePasses(d) == sinceSync' = IF sinceSync + d > SyncInterval THEN SyncInterval ELSE sinceSync + d

\* SyncWithServer, near the end of a Task: without an address the rules go.
SyncWithServer ==
  CASE config.syncServerURL = NoSync ->
         /\ syncRules' = {}
         /\ syncInterval' = SyncInterval
         /\ UNCHANGED <<sinceSync, isSubmitting, submission>>
    [] config.syncServerURL # NoSync /\ (sinceSync < syncInterval \/ isSubmitting) ->
         UNCHANGED syncVars
    [] OTHER ->
         /\ sinceSync' = 0
         /\ isSubmitting' = TRUE
         /\ submission' = Started
         /\ UNCHANGED <<syncRules, syncInterval>>

\* SyncWithServer_Submit takes the address in force now, if there still is one.
SyncSend ==
  /\ submission = Started
  /\ submission' = config.syncServerURL
  /\ UNCHANGED <<syncRules, syncInterval, sinceSync, isSubmitting>>

\* Mutant: a failed submission never ends.
SubmitEnds_WhenAccepted(accepted) ==
  isSubmitting' = (isSubmitting /\ ~accepted) /\ submission' = NoSubmission

\* SyncWithServer_FullSubmit ends the submission either way.
SubmitEnds(accepted) == isSubmitting' = FALSE /\ submission' = NoSubmission

\* The answer is complete and reports no error: what compiles of it replaces
\* the rules, and its interval is used from now on.
SyncAccepted ==
  /\ submission \in SyncURL
  /\ ~cancelled
  /\ syncRules' = Served[submission] \cap Compiles
  /\ syncInterval' \in 0 .. SyncInterval
  /\ SubmitEnds(TRUE)
  /\ UNCHANGED sinceSync

\* No answer, one that is too large or cannot be parsed, or an error.
SyncFails ==
  /\ submission \in SyncURL \cup {NoSync}
  /\ SubmitEnds(FALSE)
  /\ UNCHANGED <<syncRules, syncInterval, sinceSync>>

SyncStep == SyncSend \/ SyncAccepted \/ SyncFails

=============================================================================
