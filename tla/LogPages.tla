------------------------------ MODULE LogPages -----------------------------
(***************************************************************************)
(* The structured log, /api/v1/logs of internal/webui/webui_logs.go: a     *)
(* ring of the newest entries, and cursors that go on behind the last      *)
(* entry scanned.  A cursor of another process, of another filter, or one  *)
(* whose next entry was overwritten starts over at the oldest entry, and   *)
(* the answer says so.                                                     *)
(***************************************************************************)
EXTENDS Naturals, Sequences, FiniteSets

CONSTANTS
  Level,       \* the levels of entries; a module filter works alike
  LogCapacity, \* webUILogCapacity
  LogLimit,    \* the limit of a page
  MaxLog,      \* bound: the entries of one process
  MaxLogEpoch  \* bound: the processes

ASSUME LogAssumption ==
  /\ {LogCapacity, LogLimit, MaxLogEpoch} \subseteq Nat \ {0}
  /\ MaxLog \in Nat

VARIABLES
  logEpoch, \* webUILogEpoch: the start of the process
  log,      \* every entry's level; webUILogSequence is its length
  ring,     \* webUILogEntries: the IDs and levels in place
  reader    \* external: a reader's cursor, and what it got since it started over

logVars == <<logEpoch, log, ring, reader>>

NoEntry == [id |-> 0]
Filter == {{}} \cup {{l} : l \in Level}  \* the empty filter lets all pass

LogsTypeOK ==
  /\ logEpoch \in 1 .. MaxLogEpoch
  /\ log \in Seq(Level) /\ Len(log) <= MaxLog
  /\ \A i \in 0 .. LogCapacity - 1 : ring[i].id \in 0 .. MaxLog
  /\ reader.epoch \in 0 .. MaxLogEpoch
  /\ reader.sequence \in 0 .. MaxLog
  /\ reader.filter \in Filter
  /\ reader.got \subseteq 1 .. MaxLog

EmptyRing == [i \in 0 .. LogCapacity - 1 |-> NoEntry]

LogsInit ==
  /\ logEpoch = 1
  /\ log = <<>>
  /\ ring = EmptyRing
  /\ reader = [epoch |-> 0, sequence |-> 0, filter |-> {}, from |-> 0, got |-> {}]

AppendWebUILog(level) ==
  /\ Len(log) < MaxLog
  /\ log' = Append(log, level)
  /\ ring' = [ring EXCEPT ![Len(log) % LogCapacity] = [id |-> Len(log) + 1, level |-> level]]
  /\ UNCHANGED <<logEpoch, reader>>

Sequence == Len(log)
Oldest == IF Sequence >= LogCapacity THEN Sequence - LogCapacity + 1 ELSE 1

\* Mutant: an overwritten entry counts as still there.
StartsOver_Late(filter) ==
  \/ reader.epoch # logEpoch
  \/ reader.sequence + 2 < Oldest
  \/ reader.sequence > Sequence
  \/ reader.filter # filter

\* The cursor is of no use, or its next entry is gone.
StartsOver(filter) ==
  \/ reader.epoch # logEpoch
  \/ reader.sequence + 1 < Oldest
  \/ reader.sequence > Sequence
  \/ reader.filter # filter

At(n) == ring[(n - 1) % LogCapacity]
Passes(filter, level) == filter \in {{}, {level}}

\* The entries behind a cursor that pass, up to an end.
Scanned(after, end, filter) == {n \in after + 1 .. end : Passes(filter, At(n).level)}

\* The page ends with the log or with the entry that fills it.
PageEnd(after, filter) ==
  CHOOSE e \in after .. Sequence :
    /\ e = Sequence \/ Cardinality(Scanned(after, e, filter)) = LogLimit
    /\ \A d \in after .. e - 1 : Cardinality(Scanned(after, d, filter)) < LogLimit

\* WebUI_GetStructuredLogs, under webUILogMutex.  An answer that is lost
\* leaves the reader as it was.
GetLogs(filter) ==
  LET over == StartsOver(filter)
      after == IF over THEN Oldest - 1 ELSE reader.sequence
      end == PageEnd(after, filter)
      got == {At(n).id : n \in Scanned(after, end, filter)}
  IN  /\ reader' = [epoch |-> logEpoch, sequence |-> end, filter |-> filter,
                    from |-> IF over THEN after ELSE reader.from,
                    got |-> IF over THEN got ELSE reader.got \cup got]
      /\ UNCHANGED <<logEpoch, log, ring>>

\* The process starts again: its cursors are those of another epoch.
LogRestart ==
  /\ logEpoch < MaxLogEpoch
  /\ logEpoch' = logEpoch + 1
  /\ log' = <<>>
  /\ ring' = EmptyRing
  /\ UNCHANGED reader

LogStep ==
  \/ \E l \in Level : AppendWebUILog(l)
  \/ \E f \in Filter : GetLogs(f)
  \/ LogRestart

(***************************************************************************)
(* Since it was last told to start over, a reader has got exactly the      *)
(* entries it asks for, from there to its cursor: none is skipped and none *)
(* of the newer ones that overwrite the ring is taken for another.         *)
(***************************************************************************)
LogsPages ==
  reader.epoch = logEpoch =>
    reader.got = {n \in reader.from + 1 .. reader.sequence : Passes(reader.filter, log[n])}
=============================================================================
