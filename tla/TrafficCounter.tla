--------------------------- MODULE TrafficCounter ---------------------------
(***************************************************************************)
(* The traffic counters of internal/stats/traffic_counter.go.              *)
(*                                                                         *)
(* A BitTorrent client reports, with every peer, the bytes exchanged over  *)
(* the present connection, or nothing (-1).  The program keeps the last    *)
(* such report of every endpoint as a baseline and adds up the growth      *)
(* between reports.  Bytes uploaded and bytes downloaded are counted alike *)
(* and independently of each other; the uploaded ones are modelled.        *)
(***************************************************************************)
EXTENDS Integers

CONSTANTS
  Id,   \* the peer IDs
  NoId  \* the ID a client leaves empty

ASSUME NoIdAssumption == NoId \notin Id

Unknown == -1

\* What is remembered of an endpoint: its last report and its last known ID.
Counter == [up : Nat \cup {Unknown}, id : Id \cup {NoId}]

NoCounter == [up |-> Unknown, id |-> NoId]

\* Mutant: an empty ID is an identity of its own.
AlignPeerTrafficCounter_EmptyCounts(counter, id) ==
  [counter EXCEPT !.id = id, !.up = IF counter.id = id THEN @ ELSE 0]

\* AlignPeerTrafficCounter: another peer at the endpoint starts from zero, even
\* if its report is unknown; an empty ID says nothing about the identity.
AlignPeerTrafficCounter(counter, id) ==
  IF id = NoId THEN counter
  ELSE [counter EXCEPT !.id = id, !.up = IF counter.id \in {NoId, id} THEN @ ELSE 0]

\* Mutant: a counter that restarts has shrunk.
CounterDelta_Shrinks(current, previous) ==
  IF current < 0 THEN 0 ELSE IF previous < 0 THEN current ELSE current - previous

\* CounterDelta: the growth since the baseline; a report below it is one of a
\* new connection, which grew from zero.
CounterDelta(current, previous) ==
  IF current < 0 THEN 0
  ELSE IF previous < 0 \/ current < previous THEN current
  ELSE current - previous

\* AccumulateCounter: the total with the growth added; it stays unknown until
\* there is something to add.
AccumulateCounter(total, current, previous) ==
  IF current < 0 /\ total <= 0 THEN Unknown
  ELSE (IF total < 0 THEN 0 ELSE total) + CounterDelta(current, previous)

\* The baseline after a report: an unknown one leaves it alone.
Baseline(up, previous) == IF up < 0 THEN previous ELSE up
=============================================================================
