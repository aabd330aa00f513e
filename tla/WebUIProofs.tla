----------------------------- MODULE WebUIProofs ----------------------------
(***************************************************************************)
(* Proofs about the WebUI, for every set of IPs, pollers, browsers and     *)
(* queries, and every capacity and limit.                                  *)
(***************************************************************************)
EXTENDS WebUI, TLAPS, SequenceTheorems, FiniteSetTheorems, WellFoundedInduction

\* Some naturals have a least one.
LEMMA LeastExists ==
  ASSUME NEW S \in SUBSET Nat, S # {}
  PROVE  \E n \in S : \A m \in S : n <= m
<1> DEFINE R == {p \in Nat \X Nat : p[1] < p[2]}
<1>1. IsWellFoundedOn(R, Nat)
  BY NatLessThanWellFounded DEF OpToRel
<1>2. PICK n \in S : \A m \in S : <<m, n>> \notin R
  BY <1>1, WFMin
<1>3. ASSUME NEW m \in S PROVE n <= m
  <2>1. n \in Nat /\ m \in Nat /\ <<m, n>> \notin R
    BY <1>2
  <2>2. ~ (m < n)
    BY <2>1
  <2> QED
    BY <2>1, <2>2
<1> QED
  BY <1>3

-----------------------------------------------------------------------------
(***************************************************************************)
(* The log.  The ring holds the newest entries, each at its place: two of  *)
(* them never share one, because the window is as long as the ring.        *)
(***************************************************************************)

\* A remainder and a quotient.
LEMMA Remainder ==
  ASSUME NEW c \in Nat \ {0}, NEW a \in Nat
  PROVE  a % c \in 0 .. c - 1 /\ a \div c \in Nat /\ a = c * (a \div c) + (a % c)
OBVIOUS

\* Numbers less than c apart have different remainders.
LEMMA RemaindersDiffer ==
  ASSUME NEW c \in Nat \ {0}, NEW a \in Nat, NEW b \in Nat, a < b, b - a < c
  PROVE  a % c # b % c
<1> SUFFICES ASSUME a % c = b % c PROVE FALSE
  OBVIOUS
<1> DEFINE p == a \div c
           q == b \div c
           r == a % c
<1>1. p \in Nat /\ q \in Nat /\ r \in Nat /\ a = c * p + r /\ b = c * q + r
  <2>1. r \in 0 .. c - 1 /\ p \in Nat /\ a = c * p + r
    BY Remainder
  <2>2. b % c \in 0 .. c - 1 /\ q \in Nat /\ b = c * q + (b % c)
    BY Remainder
  <2>3. r = b % c
    OBVIOUS
  <2> HIDE DEF p, q, r
  <2> QED
    BY <2>1, <2>2, <2>3
<1> HIDE DEF p, q, r
<1>2. b - a = c * (q - p)
  BY <1>1
<1>3. CASE q - p >= 1
  <2>1. c * (q - p) >= c
    BY <1>1, <1>3
  <2> QED
    BY <1>2, <2>1
<1>4. CASE q - p <= 0
  <2>1. c * (q - p) <= 0
    BY <1>1, <1>4
  <2> QED
    BY <1>2, <2>1
<1> QED
  BY <1>1, <1>3, <1>4

\* The entries of the ring are those of the log.
InPlace(lg, rg) ==
  \A n \in 1 .. Len(lg) :
    Len(lg) - n < LogCapacity => rg[(n - 1) % LogCapacity] = [id |-> n, level |-> lg[n]]

\* A reader's cursor is in the log it was given for, and so is all it got.
ReaderInv ==
  /\ reader.from \in Nat /\ reader.sequence \in Nat /\ reader.from <= reader.sequence
  /\ reader.epoch = logEpoch => reader.sequence <= Len(log)

LogInv ==
  /\ LogsTypeOK
  /\ log \in Seq(Level)
  /\ DOMAIN ring = 0 .. LogCapacity - 1
  /\ InPlace(log, ring)
  /\ reader.epoch <= logEpoch
  /\ ReaderInv
  /\ LogsPages

\* The positive constants.
LEMMA LogConstants ==
  LogCapacity \in Nat \ {0} /\ LogLimit \in Nat \ {0} /\ MaxLogEpoch \in Nat \ {0} /\ MaxLog \in Nat
BY LogAssumption

LEMMA LogInvInit == Init => LogInv
<1> SUFFICES ASSUME LogsInit PROVE LogInv
  BY DEF Init
<1> USE LogConstants DEF LogsInit
<1>1. Len(log) = 0 /\ log \in Seq(Level)
  OBVIOUS
<1>2. LogsTypeOK
  BY <1>1 DEF LogsTypeOK, EmptyRing, NoEntry, Filter
<1>3. InPlace(log, ring)
  BY <1>1 DEF InPlace
<1>4. LogsPages
  BY DEF LogsPages
<1> QED
  BY <1>1, <1>2, <1>3, <1>4 DEF LogInv, ReaderInv, EmptyRing

\* A longer log: the new entry takes the place of one that left the window.
LEMMA AppendInPlace ==
  ASSUME NEW lg \in Seq(Level), NEW rg, NEW level \in Level,
         DOMAIN rg = 0 .. LogCapacity - 1, InPlace(lg, rg)
  PROVE  InPlace(Append(lg, level),
                 [rg EXCEPT ![Len(lg) % LogCapacity] = [id |-> Len(lg) + 1, level |-> level]])
<1> DEFINE lg2 == Append(lg, level)
           new == [id |-> Len(lg) + 1, level |-> level]
           rg2 == [rg EXCEPT ![Len(lg) % LogCapacity] = new]
<1>1. /\ Len(lg) \in Nat /\ Len(lg2) = Len(lg) + 1
      /\ \A i \in 1 .. Len(lg) : lg2[i] = lg[i]
      /\ lg2[Len(lg) + 1] = level
  BY AppendProperties, LenProperties
<1>2. Len(lg) % LogCapacity \in DOMAIN rg
  BY <1>1, LogConstants, Remainder
<1>3. SUFFICES ASSUME NEW n \in 1 .. Len(lg2), Len(lg2) - n < LogCapacity
               PROVE  rg2[(n - 1) % LogCapacity] = [id |-> n, level |-> lg2[n]]
  BY DEF InPlace
<1>4. CASE n = Len(lg) + 1
  <2>1. n - 1 = Len(lg)
    BY <1>1, <1>4
  <2>2. rg2[(n - 1) % LogCapacity] = new
    BY <1>2, <2>1
  <2> QED
    BY <1>1, <1>4, <2>2
<1>5. CASE n # Len(lg) + 1
  <2> HIDE DEF lg2
  <2>1. n \in 1 .. Len(lg) /\ n - 1 \in Nat /\ n - 1 < Len(lg) /\ Len(lg) - (n - 1) < LogCapacity
        /\ Len(lg) - n < LogCapacity
    BY <1>1, <1>3, <1>5, LogConstants
  <2>2. (n - 1) % LogCapacity # Len(lg) % LogCapacity
    BY <1>1, <2>1, LogConstants, RemaindersDiffer
  <2>3. (n - 1) % LogCapacity \in DOMAIN rg
    BY <2>1, LogConstants, Remainder
  <2>4. rg2[(n - 1) % LogCapacity] = rg[(n - 1) % LogCapacity]
    BY <2>2, <2>3
  <2>5. rg[(n - 1) % LogCapacity] = [id |-> n, level |-> lg[n]]
    BY <2>1 DEF InPlace
  <2> QED
    BY <1>1, <2>1, <2>4, <2>5
<1> QED
  BY <1>4, <1>5

\* A page ends: the first of the ends that is the log's or fills the page.
LEMMA PageEnds ==
  ASSUME NEW after \in Nat, Sequence \in Nat, after <= Sequence, NEW filter
  PROVE  PageEnd(after, filter) \in after .. Sequence
<1> DEFINE F(e) == Scanned(after, e, filter)
           T == {e \in after .. Sequence : e = Sequence \/ ~(Cardinality(F(e)) < LogLimit)}
<1>1. ASSUME NEW e \in Int PROVE IsFiniteSet(F(e)) /\ Cardinality(F(e)) \in Nat
  <2>1. IsFiniteSet(after + 1 .. e)
    BY FS_Interval
  <2>2. F(e) \subseteq after + 1 .. e
    BY DEF Scanned
  <2>3. IsFiniteSet(F(e))
    BY <2>1, <2>2, FS_Subset
  <2> QED
    BY <2>3, FS_CardinalityType
<1>2. PICK end \in T : \A e \in T : end <= e
  <2>1. T \in SUBSET Nat /\ Sequence \in T
    OBVIOUS
  <2> HIDE DEF T
  <2> QED
    BY <2>1, LeastExists
<1>3. ASSUME NEW d \in after .. end - 1 PROVE Cardinality(F(d)) < LogLimit
  <2>1. d \in after .. Sequence /\ d < end
    BY <1>2, <1>3
  <2> QED
    BY <1>2, <2>1
<1>4. end = Sequence \/ Cardinality(F(end)) = LogLimit
  <2> SUFFICES ASSUME end # Sequence PROVE Cardinality(F(end)) = LogLimit
    OBVIOUS
  <2>1. ~(Cardinality(F(end)) < LogLimit)
    BY <1>2
  <2>2. Cardinality(F(after)) = 0
    <3>1. F(after) = {}
      BY DEF Scanned
    <3> QED
      BY <3>1, FS_EmptySet
  <2>3. end - 1 \in after .. end - 1
    BY <1>2, <2>1, <2>2, LogConstants
  <2>4. Cardinality(F(end - 1)) < LogLimit
    BY <1>3, <2>3
  <2>5. F(end) \subseteq F(end - 1) \cup {end}
    BY <2>3, <1>2 DEF Scanned
  <2>6. /\ IsFiniteSet(F(end - 1) \cup {end})
        /\ Cardinality(F(end - 1) \cup {end}) <= Cardinality(F(end - 1)) + 1
        /\ Cardinality(F(end - 1)) \in Nat
    <3>1. end - 1 \in Int
      BY <1>2
    <3>2. IsFiniteSet(F(end - 1)) /\ Cardinality(F(end - 1)) \in Nat
      BY <1>1, <3>1
    <3> DEFINE C == F(end - 1)
    <3> HIDE DEF F
    <3>3. IsFiniteSet(C)
      BY <3>2
    <3>4. Cardinality(C) \in Nat
      BY <3>2
    <3> HIDE DEF C
    <3>5. IsFiniteSet(C \cup {end})
          /\ Cardinality(C \cup {end}) = IF end \in C THEN Cardinality(C) ELSE Cardinality(C) + 1
      BY <3>3, FS_AddElement
    <3>6. Cardinality(C \cup {end}) <= Cardinality(C) + 1
      BY <3>4, <3>5
    <3> QED
      BY <3>4, <3>5, <3>6 DEF C
  <2>7. Cardinality(F(end)) <= Cardinality(F(end - 1) \cup {end}) /\ Cardinality(F(end)) \in Nat
    <3> HIDE DEF F
    <3>1. end \in Int
      BY <1>2
    <3> QED
      BY <1>1, <2>5, <2>6, <3>1, FS_Subset
  <2>8. Cardinality(F(end - 1) \cup {end}) \in Nat
    BY <2>6, FS_CardinalityType
  <2> HIDE DEF F
  <2> QED
    BY <2>1, <2>4, <2>6, <2>7, <2>8, LogConstants
<1>5. \E e \in after .. Sequence :
        /\ e = Sequence \/ Cardinality(Scanned(after, e, filter)) = LogLimit
        /\ \A d \in after .. e - 1 : Cardinality(Scanned(after, d, filter)) < LogLimit
  BY <1>2, <1>3, <1>4
<1> HIDE DEF F, T
<1> QED
  BY <1>5 DEF PageEnd

\* What is found in the ring behind a cursor that is still good is the log.
LEMMA ScannedAreLogged ==
  ASSUME log \in Seq(Level), InPlace(log, ring),
         NEW after \in Nat, after + 1 >= Oldest, NEW end \in after .. Sequence, NEW filter
  PROVE  {At(n).id : n \in Scanned(after, end, filter)}
           = {n \in after + 1 .. end : Passes(filter, log[n])}
<1>1. Sequence \in Nat /\ Sequence = Len(log)
  BY LenProperties DEF Sequence
<1>2. ASSUME NEW n \in after + 1 .. end PROVE At(n) = [id |-> n, level |-> log[n]]
  <2>1. n \in 1 .. Len(log) /\ Len(log) - n < LogCapacity
    BY <1>1, LogConstants DEF Oldest
  <2> QED
    BY <2>1 DEF InPlace, At
<1>3. \A n \in after + 1 .. end : At(n).id = n /\ At(n).level = log[n]
  BY <1>2
<1> QED
  BY <1>3 DEF Scanned

LEMMA OldestBehind ==
  ASSUME log \in Seq(Level)
  PROVE  Sequence \in Nat /\ Oldest \in 1 .. Sequence + 1
<1>1. Sequence \in Nat
  BY LenProperties DEF Sequence
<1> QED
  BY <1>1, LogConstants DEF Oldest

LEMMA GetLogsKeeps ==
  ASSUME LogInv, NEW filter \in Filter, GetLogs(filter)
  PROVE  LogInv'
<1> DEFINE over == StartsOver(filter)
           after == IF over THEN Oldest - 1 ELSE reader.sequence
           end == PageEnd(after, filter)
           got == {At(n).id : n \in Scanned(after, end, filter)}
           page == {n \in after + 1 .. end : Passes(filter, log[n])}
           from == IF over THEN after ELSE reader.from
           all == IF over THEN got ELSE reader.got \cup got
<1>1. /\ reader' = [epoch |-> logEpoch, sequence |-> end, filter |-> filter,
                    from |-> from, got |-> all]
      /\ UNCHANGED <<logEpoch, log, ring>>
  BY DEF GetLogs
<1>2. log \in Seq(Level) /\ InPlace(log, ring) /\ LogsTypeOK /\ ReaderInv
  BY DEF LogInv
<1>3. Sequence \in Nat /\ Oldest \in 1 .. Sequence + 1 /\ Sequence = Len(log) /\ Len(log) <= MaxLog
  BY <1>2, OldestBehind DEF LogsTypeOK, Sequence
<1>4. after \in Nat /\ after <= Sequence /\ after + 1 >= Oldest
  BY <1>2, <1>3 DEF StartsOver, ReaderInv, LogsTypeOK
<1>5. end \in after .. Sequence
  BY <1>3, <1>4, PageEnds
<1>6. got = page
  <2> HIDE DEF after, end
  <2> QED
    BY <1>2, <1>4, <1>5, ScannedAreLogged
<1>7. from \in Nat /\ from <= after /\ all = {n \in from + 1 .. end : Passes(filter, log[n])}
  <2> HIDE DEF got, end
  <2>1. CASE over
    BY <1>4, <1>6, <2>1
  <2>2. CASE ~over
    <3>1. /\ reader.epoch = logEpoch /\ reader.filter = filter /\ after = reader.sequence
      BY <2>2 DEF StartsOver
    <3>2. reader.got = {n \in reader.from + 1 .. after : Passes(filter, log[n])}
      BY <3>1 DEF LogInv, LogsPages
    <3>3. from = reader.from /\ from \in Nat
      BY <1>2, <2>2 DEF ReaderInv
    <3>4. from <= after
      BY <3>1, <3>3, <1>2 DEF LogInv, ReaderInv
    <3>5. all = reader.got \cup page
      BY <1>6, <2>2
    <3> HIDE DEF after, from, all
    <3> QED
      BY <1>4, <1>5, <3>2, <3>3, <3>4, <3>5
  <2> QED
    BY <2>1, <2>2
<1>8. all \subseteq 1 .. MaxLog
  <2> HIDE DEF after, from, all, end
  <2> QED
    BY <1>3, <1>4, <1>5, <1>7, LogConstants
<1> HIDE DEF over, after, end, got, page, from, all
<1>9. LogsTypeOK'
  BY <1>1, <1>2, <1>3, <1>4, <1>5, <1>8, LogConstants DEF LogsTypeOK
<1>10. ReaderInv' /\ LogsPages' /\ reader'.epoch <= logEpoch'
  BY <1>1, <1>2, <1>3, <1>4, <1>5, <1>7 DEF ReaderInv, LogsPages, LogsTypeOK
<1> QED
  BY <1>1, <1>9, <1>10 DEF LogInv

LEMMA AppendKeeps ==
  ASSUME LogInv, NEW level \in Level, AppendWebUILog(level)
  PROVE  LogInv'
<1> USE DEF AppendWebUILog
<1>1. log \in Seq(Level) /\ InPlace(log, ring) /\ LogsTypeOK /\ ReaderInv /\ LogsPages
      /\ DOMAIN ring = 0 .. LogCapacity - 1
  BY DEF LogInv
<1>2. /\ Len(log) \in Nat /\ log' \in Seq(Level) /\ Len(log') = Len(log) + 1
      /\ \A i \in 1 .. Len(log) : log'[i] = log[i]
  BY <1>1, AppendProperties, LenProperties
<1>3. InPlace(log', ring')
  BY <1>1, AppendInPlace
<1>4. DOMAIN ring' = 0 .. LogCapacity - 1
  BY <1>1
<1>5. ASSUME NEW i \in 0 .. LogCapacity - 1 PROVE ring'[i].id \in 0 .. MaxLog
  BY <1>1, <1>2, LogConstants DEF LogsTypeOK
<1>6. LogsTypeOK'
  BY <1>1, <1>2, <1>5, LogConstants DEF LogsTypeOK
<1>7. ReaderInv'
  BY <1>1, <1>2 DEF ReaderInv
<1>8. LogsPages'
  <2> SUFFICES ASSUME reader.epoch = logEpoch
               PROVE  reader.got = {n \in reader.from + 1 .. reader.sequence :
                                      Passes(reader.filter, log'[n])}
    BY DEF LogsPages
  <2>1. \A n \in reader.from + 1 .. reader.sequence : log'[n] = log[n]
    BY <1>1, <1>2 DEF ReaderInv
  <2> QED
    BY <1>1, <2>1 DEF LogsPages
<1> QED
  BY <1>2, <1>3, <1>4, <1>6, <1>7, <1>8 DEF LogInv

LEMMA LogRestartKeeps ==
  ASSUME LogInv, LogRestart
  PROVE  LogInv'
<1> USE LogConstants DEF LogRestart
<1>1. LogsTypeOK /\ ReaderInv /\ reader.epoch <= logEpoch
  BY DEF LogInv
<1>2. Len(log') = 0 /\ log' \in Seq(Level)
  OBVIOUS
<1>3. LogsTypeOK'
  BY <1>1, <1>2 DEF LogsTypeOK, EmptyRing, NoEntry
<1>4. reader' = reader /\ reader.epoch # logEpoch' /\ reader'.epoch <= logEpoch'
  BY <1>1 DEF LogsTypeOK
<1>5. InPlace(log', ring')
  BY <1>2 DEF InPlace
<1> QED
  BY <1>1, <1>2, <1>3, <1>4, <1>5 DEF LogInv, ReaderInv, LogsPages, EmptyRing

\* Every step of the WebUI is one of the log or leaves it alone.
LEMMA LogInvNext == LogInv /\ [Next]_vars => LogInv'
<1> SUFFICES ASSUME LogInv, [Next]_vars PROVE LogInv'
  OBVIOUS
<1>1. CASE UNCHANGED logVars
  BY <1>1 DEF logVars, LogInv, LogsTypeOK, InPlace, ReaderInv, LogsPages
<1>2. CASE LogStep
  BY <1>2, GetLogsKeeps, AppendKeeps, LogRestartKeeps DEF LogStep
<1>3. LogStep \/ UNCHANGED logVars
  BY DEF Next, vars, Changes, Records, Reloads, Resets, Restarts, Polls, Browses, Logs, List
<1> QED
  BY <1>1, <1>2, <1>3

(***************************************************************************)
(* A reader of /api/v1/logs gets every entry that passes its filter, once, *)
(* from where it was told to start over, for every size of the ring and of *)
(* a page (webui_logs.go).                                                 *)
(***************************************************************************)
THEOREM LogsFollowed == Spec => []LogsPages
<1>1. LogInv => LogsPages
  BY DEF LogInv
<1> QED
  BY <1>1, LogInvInit, LogInvNext, PTL DEF Spec

-----------------------------------------------------------------------------
(***************************************************************************)
(* The feed.  Live: the main loop records every change in the ring of the  *)
(* present epoch.  (While the WebUI is disabled it does not, and an epoch  *)
(* later it does; nothing of the time between is ever compared.)           *)
(***************************************************************************)
Live == enabled /\ ~loading /\ readers # "browsers"

\* The ring's positions behind start hold the oldest events.
RingOK(evs, st, cur) ==
  /\ Len(evs) <= cur
  /\ Len(evs) < Capacity => st = 0
  /\ \A i \in 1 .. Len(evs) :
       evs[i].cursor = cur - Len(evs) + (IF i > st THEN i - st ELSE i - st + Len(evs))

ElementsOf(s) == {s[i] : i \in DOMAIN s}

\* The newest event about an IP is right, unless another one is due.
NewestOK(evs, td, map) ==
  \A i \in DOMAIN evs :
    (\A j \in DOMAIN evs : evs[j].ip = evs[i].ip => evs[j].cursor <= evs[i].cursor) =>
      evs[i].ip \in ElementsOf(td) \/ evs[i].peer = Entry(map, evs[i].ip)

UnsaidOf(evs, td, since) ==
  {evs[i].ip : i \in {j \in DOMAIN evs : evs[j].cursor > since}} \cup ElementsOf(td)

\* A copy is right, wherever nothing is left to say.
Right(copy, since, evs, td, map) ==
  \A ip \in IP \ UnsaidOf(evs, td, since) : Entry(copy, ip) = Entry(map, ip)

\* The ring holds every event after the cursor.
Within(evs, cur, since) == cur - Len(evs) <= since /\ since <= cur

\* What a copy, an epoch and a cursor together are good for.
Follows(copy, ep, since, live, epoch0, cur, evs, td, map) ==
  /\ ep <= epoch0
  /\ ep = epoch0 => since <= cur
  /\ live /\ ep = epoch0 /\ Within(evs, cur, since) => Right(copy, since, evs, td, map)

Syncs == [epoch : 1 .. MaxEpoch, cursor : 0 .. MaxCursor, reset : BOOLEAN,
          upserts : Copies, removed : SUBSET IP]

PollerRecord ==
  [copy : Copies, epoch : 0 .. MaxEpoch, cursor : 0 .. MaxCursor,
   request : {"none", "sent", "answered"}, answer : Syncs \cup {NoAnswer}]

\* A poller's copy follows, and so will it once an answer is applied.
PollerOK(r, live, epoch0, cur, evs, td, map) ==
  /\ Follows(r.copy, r.epoch, r.cursor, live, epoch0, cur, evs, td, map)
  /\ r.request = "answered" =>
       /\ r.answer \in Syncs
       /\ Follows(Applied(r.copy, r.answer), r.answer.epoch, r.answer.cursor,
                  live, epoch0, cur, evs, td, map)

ListTypeOK ==
  /\ peers \in Copies
  /\ todo \in Seq(IP)
  /\ enabled \in BOOLEAN /\ loading \in BOOLEAN
  /\ epoch \in 1 .. MaxEpoch
  /\ cursor \in 0 .. MaxCursor
  /\ events \in Seq(Event) /\ Len(events) <= Capacity
  /\ start \in 0 .. Capacity - 1

RingInv ==
  /\ ListTypeOK
  /\ IsFiniteSet(DOMAIN peers)
  /\ cursor + Len(todo) <= MaxCursor
  /\ RingOK(events, start, cursor)
  /\ readers = "browsers" => todo = <<>>
  /\ Live => NewestOK(events, todo, peers)

PollersInv ==
  /\ poller \in [Poller -> PollerRecord]
  /\ \A p \in Poller : PollerOK(poller[p], Live, epoch, cursor, events, todo, peers)
  /\ readers = "browsers" => \A p \in Poller : poller[p].epoch = 0

FeedInv == RingInv /\ PollersInv

LEMMA FeedConstants ==
  Capacity \in Nat \ {0} /\ MaxEpoch \in Nat \ {0} /\ MaxCursor \in Nat
BY CapacityAssumption, BoundAssumption

LEMMA CopiesAre ==
  ASSUME NEW map
  PROVE  map \in Copies <=> DOMAIN map \subseteq IP /\ map \in [DOMAIN map -> Info]
<1>1. ASSUME map \in Copies PROVE DOMAIN map \subseteq IP /\ map \in [DOMAIN map -> Info]
  BY <1>1 DEF Copies
<1>2. ASSUME DOMAIN map \subseteq IP, map \in [DOMAIN map -> Info] PROVE map \in Copies
  <2>1. [DOMAIN map -> Info] \in {[ips -> Info] : ips \in SUBSET IP}
    BY <1>2
  <2> QED
    BY <1>2, <2>1 DEF Copies
<1> QED
  BY <1>1, <1>2

\* The start of the ring wraps.
LEMMA StartWraps ==
  ASSUME NEW st \in 0 .. Capacity - 1
  PROVE  (st + 1) % Capacity = IF st + 1 = Capacity THEN 0 ELSE st + 1
<1> USE FeedConstants
<1>1. CASE st + 1 = Capacity
  BY <1>1
<1>2. CASE st + 1 # Capacity
  BY <1>2
<1> QED
  BY <1>1, <1>2

\* The events of the ring are the newest ones.
LEMMA RingCursors ==
  ASSUME NEW evs \in Seq(Event), NEW st \in 0 .. Capacity - 1, NEW cur \in Nat,
         RingOK(evs, st, cur), Len(evs) <= Capacity
  PROVE  \A i \in DOMAIN evs : cur - Len(evs) < evs[i].cursor /\ evs[i].cursor <= cur
<1> DEFINE n == Len(evs)
<1>1. n \in Nat /\ DOMAIN evs = 1 .. n
  BY LenProperties
<1>2. \A i \in 1 .. Len(evs) :
        evs[i].cursor = cur - Len(evs) + (IF i > st THEN i - st ELSE i - st + Len(evs))
  BY DEF RingOK
<1>3. \A i \in 1 .. n : evs[i].cursor = cur - n + (IF i > st THEN i - st ELSE i - st + n)
  BY <1>2
<1>4. (n < Capacity => st = 0) /\ n <= Capacity
  BY DEF RingOK
<1> SUFFICES ASSUME NEW i \in 1 .. n PROVE cur - n < evs[i].cursor /\ evs[i].cursor <= cur
  BY <1>1
<1> HIDE DEF n
<1>5. st \in Nat /\ st < n /\ i \in Nat /\ i >= 1 /\ i <= n
  BY <1>1, <1>4, FeedConstants
<1> QED
  BY <1>1, <1>3, <1>5

\* An event is added: the ring stays one, and loses at most its oldest event.
RingWith(evs, st, e) ==
  IF Len(evs) < Capacity THEN Append(evs, e) ELSE [evs EXCEPT ![st + 1] = e]

LEMMA RingGrows ==
  ASSUME NEW evs \in Seq(Event), NEW st \in 0 .. Capacity - 1, NEW cur \in 0 .. MaxCursor,
         RingOK(evs, st, cur), Len(evs) <= Capacity, NEW e \in Event, e.cursor = cur + 1,
         NEW st2 \in Int,
         st2 = IF Len(evs) < Capacity THEN st ELSE IF st + 1 = Capacity THEN 0 ELSE st + 1
  PROVE  LET evs2 == RingWith(evs, st, e)
         IN  /\ evs2 \in Seq(Event)
             /\ Len(evs2) <= Capacity
             /\ Len(evs2) = IF Len(evs) < Capacity THEN Len(evs) + 1 ELSE Len(evs)
             /\ st2 \in 0 .. Capacity - 1
             /\ RingOK(evs2, st2, cur + 1)
             /\ \E i \in DOMAIN evs2 : evs2[i] = e
             /\ \A i \in DOMAIN evs2 : evs2[i] = e \/ (i \in DOMAIN evs /\ evs2[i] = evs[i])
             /\ \A i \in DOMAIN evs : evs[i].cursor > cur + 1 - Len(evs2) =>
                                       i \in DOMAIN evs2 /\ evs2[i] = evs[i]
             /\ \A i \in DOMAIN evs : evs[i].cursor <= cur
<1> DEFINE evs2 == RingWith(evs, st, e)
<1> USE FeedConstants
<1>1. Len(evs) \in Nat /\ DOMAIN evs = 1 .. Len(evs) /\ \A i \in 1 .. Len(evs) : evs[i] \in Event
  BY LenProperties, ElementOfSeq
<1>2. CASE Len(evs) < Capacity
  <2>1. /\ evs2 \in Seq(Event) /\ Len(evs2) = Len(evs) + 1
        /\ \A i \in 1 .. Len(evs) : evs2[i] = evs[i]
        /\ evs2[Len(evs) + 1] = e
    BY <1>2, AppendProperties DEF RingWith
  <2>2. DOMAIN evs2 = 1 .. Len(evs) + 1
    BY <2>1, LenProperties
  <2>3. st = 0 /\ st2 = 0
    BY <1>2 DEF RingOK
  <2> HIDE DEF evs2
  <2>4. RingOK(evs2, st2, cur + 1)
    <3>1. ASSUME NEW i \in 1 .. Len(evs) + 1 PROVE evs2[i].cursor = cur - Len(evs) + i
      <4>1. CASE i = Len(evs) + 1
        <5>1. evs2[i] = e
          BY <2>1, <4>1
        <5>2. Len(evs) \in Int /\ cur \in Int
          BY <1>1
        <5> QED
          BY <4>1, <5>1, <5>2
      <4>2. CASE i # Len(evs) + 1
        <5>1. i \in 1 .. Len(evs)
          BY <1>1, <4>2
        <5>2. evs2[i] = evs[i] /\ i > st
          BY <2>1, <2>3, <5>1
        <5> QED
          BY <1>1, <2>3, <5>1, <5>2 DEF RingOK
      <4> QED
        BY <4>1, <4>2
    <3>2. ASSUME NEW i \in 1 .. Len(evs) + 1
          PROVE  evs2[i].cursor = (cur + 1) - (Len(evs) + 1) + (i - st2) /\ i > st2
      <4>1. evs2[i].cursor = cur - Len(evs) + i
        BY <3>1
      <4>2. i \in Int /\ Len(evs) \in Int /\ cur \in Int /\ i > 0
        BY <1>1
      <4> QED
        BY <2>3, <4>1, <4>2
    <3>3. Len(evs2) <= cur + 1
      BY <1>1, <2>1 DEF RingOK
    <3> QED
      BY <1>1, <2>1, <2>3, <3>2, <3>3 DEF RingOK
  <2> QED
    BY <1>1, <1>2, <2>1, <2>2, <2>3, <2>4 DEF RingOK, evs2
<1>3. CASE ~(Len(evs) < Capacity)
  <2>1. Len(evs) = Capacity
    <3>1. Len(evs) \in Int /\ Capacity \in Int
      BY <1>1
    <3> QED
      BY <3>1, <1>3, SMTT(30)
  <2>2. evs2 = [evs EXCEPT ![st + 1] = e]
    BY <1>3 DEF RingWith
  <2>3. st + 1 \in 1 .. Len(evs)
    BY <2>1
  <2>4. /\ evs2 \in Seq(Event) /\ Len(evs2) = Len(evs)
        /\ \A i \in 1 .. Len(evs) : evs2[i] = IF i = st + 1 THEN e ELSE evs[i]
    BY <2>2, <2>3, ExceptSeq
  <2>5. DOMAIN evs2 = 1 .. Len(evs)
    BY <2>4, LenProperties
  <2>6. st2 = IF st + 1 = Capacity THEN 0 ELSE st + 1
    BY <1>3
  <2> HIDE DEF evs2
  <2>7. RingOK(evs2, st2, cur + 1)
    <3>1. ASSUME NEW i \in 1 .. Len(evs)
          PROVE  evs2[i].cursor = cur + 1 - Len(evs) + (IF i > st2 THEN i - st2 ELSE i - st2 + Len(evs))
      <4> DEFINE n == Len(evs)
      <4> SUFFICES evs2[i].cursor = cur + 1 - n + (IF i > st2 THEN i - st2 ELSE i - st2 + n)
        OBVIOUS
      <4>1. n \in Int /\ cur \in Int /\ st \in 0 .. n - 1 /\ i \in 1 .. n /\ n >= 1
        BY <1>1, <2>1
      <4>2. st2 = IF st + 1 = n THEN 0 ELSE st + 1
        BY <2>1, <2>6
      <4>3. CASE i = st + 1
        <5>1. evs2[i].cursor = cur + 1
          BY <2>4, <4>3
        <5> HIDE DEF n
        <5> QED
          BY <4>1, <4>2, <4>3, <5>1
      <4>4. CASE i # st + 1
        <5>1. evs2[i].cursor = cur - n + (IF i > st THEN i - st ELSE i - st + n)
          BY <2>4, <4>4 DEF RingOK
        <5> HIDE DEF n
        <5> QED
          BY <4>1, <4>2, <4>4, <5>1
      <4> QED
        BY <4>3, <4>4
    <3> QED
      BY <2>1, <2>4, <3>1 DEF RingOK
  <2>8. \A i \in 1 .. Len(evs) : evs[i].cursor > cur + 1 - Len(evs) => i # st + 1
    BY <1>1, <2>1, <2>3 DEF RingOK
  <2>9. \A i \in 1 .. Len(evs) : evs[i].cursor <= cur
    BY <1>1, <2>1 DEF RingOK
  <2> QED
    BY <1>1, <1>3, <2>1, <2>3, <2>4, <2>5, <2>6, <2>7, <2>8, <2>9 DEF evs2
<1> QED
  BY <1>2, <1>3

\* A step of the main loop that takes no copy further from the list, or a
\* later epoch.
Harmless(live, ep, cur, evs, td, map, live2, ep2, cur2, evs2, td2, map2) ==
  \/ ep < ep2
  \/ /\ ep2 = ep /\ cur <= cur2
     /\ live2 => live
     /\ live2 => \A since \in 0 .. cur : Within(evs2, cur2, since) =>
          /\ Within(evs, cur, since)
          /\ UnsaidOf(evs, td, since) \subseteq UnsaidOf(evs2, td2, since)
          /\ \A ip \in IP \ UnsaidOf(evs2, td2, since) : Entry(map2, ip) = Entry(map, ip)

LEMMA FollowsStays ==
  ASSUME NEW live, NEW ep \in Nat, NEW cur \in Nat, NEW evs, NEW td, NEW map,
         NEW live2, NEW ep2 \in Nat, NEW cur2 \in Nat, NEW evs2, NEW td2, NEW map2,
         Harmless(live, ep, cur, evs, td, map, live2, ep2, cur2, evs2, td2, map2),
         NEW copy, NEW e \in Nat, NEW since \in Nat,
         Follows(copy, e, since, live, ep, cur, evs, td, map)
  PROVE  Follows(copy, e, since, live2, ep2, cur2, evs2, td2, map2)
<1>1. CASE ep < ep2
  BY <1>1 DEF Follows
<1>2. CASE ~(ep < ep2)
  <2>1. /\ ep2 = ep /\ cur <= cur2
        /\ live2 => live
        /\ live2 => \A s \in 0 .. cur : Within(evs2, cur2, s) =>
             /\ Within(evs, cur, s)
             /\ UnsaidOf(evs, td, s) \subseteq UnsaidOf(evs2, td2, s)
             /\ \A ip \in IP \ UnsaidOf(evs2, td2, s) : Entry(map2, ip) = Entry(map, ip)
    BY <1>2 DEF Harmless
  <2>2. e <= ep2 /\ (e = ep2 => since <= cur2)
    BY <2>1 DEF Follows
  <2>3. ASSUME live2, e = ep2, Within(evs2, cur2, since)
        PROVE  Right(copy, since, evs2, td2, map2)
    <3>1. since \in 0 .. cur
      BY <2>1, <2>3 DEF Follows
    <3>2. /\ Within(evs, cur, since)
          /\ UnsaidOf(evs, td, since) \subseteq UnsaidOf(evs2, td2, since)
          /\ \A ip \in IP \ UnsaidOf(evs2, td2, since) : Entry(map2, ip) = Entry(map, ip)
      BY <2>1, <2>3, <3>1
    <3>3. Right(copy, since, evs, td, map)
      BY <2>1, <2>3, <3>2 DEF Follows
    <3> QED
      BY <3>2, <3>3 DEF Right
  <2> QED
    BY <2>2, <2>3 DEF Follows
<1> QED
  BY <1>1, <1>2

\* Two requests that say the same to the poller.
SamePoller(r, r2) ==
  /\ r2.copy = r.copy /\ r2.epoch = r.epoch /\ r2.cursor = r.cursor
  /\ r2.request = "answered" => r.request = "answered" /\ r2.answer = r.answer

LEMMA PollerStays ==
  ASSUME NEW live, NEW ep \in Nat, NEW cur \in Nat, NEW evs, NEW td, NEW map,
         NEW live2, NEW ep2 \in Nat, NEW cur2 \in Nat, NEW evs2, NEW td2, NEW map2,
         Harmless(live, ep, cur, evs, td, map, live2, ep2, cur2, evs2, td2, map2),
         NEW r \in PollerRecord, NEW r2, SamePoller(r, r2),
         PollerOK(r, live, ep, cur, evs, td, map)
  PROVE  PollerOK(r2, live2, ep2, cur2, evs2, td2, map2)
<1>1. r.epoch \in Nat /\ r.cursor \in Nat
  BY FeedConstants DEF PollerRecord
<1>2. Follows(r.copy, r.epoch, r.cursor, live2, ep2, cur2, evs2, td2, map2)
  BY <1>1, FollowsStays DEF PollerOK
<1>3. ASSUME r2.request = "answered"
      PROVE  /\ r.answer \in Syncs
             /\ Follows(Applied(r.copy, r.answer), r.answer.epoch, r.answer.cursor,
                        live2, ep2, cur2, evs2, td2, map2)
  <2>1. /\ r.answer \in Syncs
        /\ Follows(Applied(r.copy, r.answer), r.answer.epoch, r.answer.cursor,
                   live, ep, cur, evs, td, map)
    BY <1>3 DEF PollerOK, SamePoller
  <2>2. r.answer.epoch \in Nat /\ r.answer.cursor \in Nat
    BY <2>1, FeedConstants DEF Syncs
  <2> QED
    BY <2>1, <2>2, FollowsStays
<1> QED
  BY <1>2, <1>3 DEF PollerOK, SamePoller

\* The main loop changes entries that it will record.
LEMMA ChangeIsHarmless ==
  ASSUME NEW live, NEW ep \in Nat, NEW cur \in Nat, NEW evs, NEW td, NEW map, NEW td2, NEW map2,
         ElementsOf(td) = {},
         \A ip \in IP \ ElementsOf(td2) : Entry(map2, ip) = Entry(map, ip)
  PROVE  Harmless(live, ep, cur, evs, td, map, live, ep, cur, evs, td2, map2)
BY DEF Harmless, UnsaidOf

LEMMA ChangeKeepsNewest ==
  ASSUME NEW evs, NEW td, NEW map, NEW td2, NEW map2, ElementsOf(td) = {},
         \A i \in DOMAIN evs : evs[i].ip \in IP,
         \A ip \in IP \ ElementsOf(td2) : Entry(map2, ip) = Entry(map, ip),
         NewestOK(evs, td, map)
  PROVE  NewestOK(evs, td2, map2)
BY DEF NewestOK

\* An event takes what is due out of the list of changes into the ring.
LEMMA EventIsHarmless ==
  ASSUME NEW live, NEW ep \in Nat, NEW cur \in 0 .. MaxCursor, NEW evs \in Seq(Event),
         NEW td, NEW td2, NEW map, NEW st \in 0 .. Capacity - 1,
         RingOK(evs, st, cur), Len(evs) <= Capacity, NEW e \in Event, e.cursor = cur + 1,
         ElementsOf(td) \subseteq ElementsOf(td2) \cup {e.ip}
  PROVE  Harmless(live, ep, cur, evs, td, map,
                  live, ep, cur + 1, RingWith(evs, st, e), td2, map)
<1> DEFINE evs2 == RingWith(evs, st, e)
           st2 == IF Len(evs) < Capacity THEN st ELSE IF st + 1 = Capacity THEN 0 ELSE st + 1
<1> USE FeedConstants
<1>1. /\ evs2 \in Seq(Event)
      /\ Len(evs2) = IF Len(evs) < Capacity THEN Len(evs) + 1 ELSE Len(evs)
      /\ \E i \in DOMAIN evs2 : evs2[i] = e
      /\ \A i \in DOMAIN evs : evs[i].cursor > cur + 1 - Len(evs2) =>
                                i \in DOMAIN evs2 /\ evs2[i] = evs[i]
  <2>1. st2 \in Int
    OBVIOUS
  <2> HIDE DEF evs2
  <2> QED
    BY <2>1, RingGrows DEF evs2
<1>2. Len(evs) \in Nat /\ Len(evs2) \in Nat /\ cur \in Nat
      /\ \A i \in DOMAIN evs : evs[i].cursor \in Nat
  <2>1. \A i \in DOMAIN evs : evs[i] \in Event
    BY LenProperties, ElementOfSeq
  <2> QED
    BY <1>1, <2>1, LenProperties DEF Event
<1> HIDE DEF evs2
<1>3. ASSUME NEW since \in 0 .. cur, Within(evs2, cur + 1, since)
      PROVE  Within(evs, cur, since) /\ UnsaidOf(evs, td, since) \subseteq UnsaidOf(evs2, td2, since)
  <2>1. cur + 1 - Len(evs2) <= since
    BY <1>3 DEF Within
  <2>2. Within(evs, cur, since)
    BY <1>1, <1>2, <2>1 DEF Within
  <2>3. e.ip \in UnsaidOf(evs2, td2, since)
    BY <1>1 DEF UnsaidOf
  <2>4. ASSUME NEW i \in DOMAIN evs, evs[i].cursor > since
        PROVE  evs[i].ip \in UnsaidOf(evs2, td2, since)
    <3>1. evs[i].cursor > cur + 1 - Len(evs2)
      BY <1>2, <2>1, <2>4
    <3> QED
      BY <1>1, <2>4, <3>1 DEF UnsaidOf
  <2>5. ElementsOf(td2) \subseteq UnsaidOf(evs2, td2, since)
    BY DEF UnsaidOf
  <2> QED
    BY <2>2, <2>3, <2>4, <2>5 DEF UnsaidOf
<1> QED
  BY <1>2, <1>3 DEF Harmless, evs2

LEMMA EventKeepsNewest ==
  ASSUME NEW cur \in 0 .. MaxCursor, NEW evs \in Seq(Event), NEW td, NEW td2, NEW map,
         NEW st \in 0 .. Capacity - 1,
         RingOK(evs, st, cur), Len(evs) <= Capacity, NEW e \in Event, e.cursor = cur + 1,
         ElementsOf(td) \subseteq ElementsOf(td2) \cup {e.ip},
         e.peer = Entry(map, e.ip), NewestOK(evs, td, map)
  PROVE  NewestOK(RingWith(evs, st, e), td2, map)
<1> DEFINE evs2 == RingWith(evs, st, e)
           st2 == IF Len(evs) < Capacity THEN st ELSE IF st + 1 = Capacity THEN 0 ELSE st + 1
<1> USE FeedConstants
<1>1. /\ evs2 \in Seq(Event)
      /\ Len(evs2) = IF Len(evs) < Capacity THEN Len(evs) + 1 ELSE Len(evs)
      /\ RingOK(evs2, st2, cur + 1) /\ st2 \in 0 .. Capacity - 1 /\ Len(evs2) <= Capacity
      /\ \E i \in DOMAIN evs2 : evs2[i] = e
      /\ \A i \in DOMAIN evs2 : evs2[i] = e \/ (i \in DOMAIN evs /\ evs2[i] = evs[i])
      /\ \A i \in DOMAIN evs : evs[i].cursor > cur + 1 - Len(evs2) =>
                                i \in DOMAIN evs2 /\ evs2[i] = evs[i]
      /\ \A i \in DOMAIN evs : evs[i].cursor <= cur
  <2>1. st2 \in Int
    OBVIOUS
  <2> HIDE DEF evs2
  <2> QED
    BY <2>1, RingGrows DEF evs2
<1>2. /\ Len(evs) \in Nat /\ Len(evs2) \in Nat /\ cur \in Nat
      /\ \A i \in DOMAIN evs : evs[i].cursor \in Nat
  <2>1. \A i \in DOMAIN evs : evs[i] \in Event
    BY LenProperties, ElementOfSeq
  <2> QED
    BY <1>1, <2>1, LenProperties DEF Event
<1>3. \A i \in DOMAIN evs2 : evs2[i].cursor > cur + 1 - Len(evs2)
  <2> HIDE DEF evs2, st2
  <2>1. cur + 1 \in Nat
    BY <1>2
  <2>2. \A i \in DOMAIN evs2 : (cur + 1) - Len(evs2) < evs2[i].cursor /\ evs2[i].cursor <= cur + 1
    BY <1>1, <2>1, RingCursors
  <2>3. \A i \in DOMAIN evs2 : evs2[i] \in Event
    BY <1>1, LenProperties, ElementOfSeq
  <2> QED
    BY <1>2, <2>2, <2>3 DEF Event
<1> HIDE DEF evs2, st2
<1>4. SUFFICES ASSUME NEW i \in DOMAIN evs2,
                      \A j \in DOMAIN evs2 : evs2[j].ip = evs2[i].ip => evs2[j].cursor <= evs2[i].cursor
               PROVE  evs2[i].ip \in ElementsOf(td2) \/ evs2[i].peer = Entry(map, evs2[i].ip)
  BY DEF NewestOK, evs2
<1>5. CASE evs2[i] = e
  BY <1>5
<1>6. CASE evs2[i] # e
  <2>1. i \in DOMAIN evs /\ evs2[i] = evs[i] /\ evs[i].cursor <= cur
    BY <1>1, <1>6
  <2>2. e.ip # evs[i].ip
    BY <1>1, <1>2, <1>4, <2>1
  <2>3. ASSUME NEW j \in DOMAIN evs, evs[j].ip = evs[i].ip PROVE evs[j].cursor <= evs[i].cursor
    <3>1. CASE evs[j].cursor > cur + 1 - Len(evs2)
      BY <1>1, <1>4, <2>1, <2>3, <3>1
    <3>2. CASE ~(evs[j].cursor > cur + 1 - Len(evs2))
      BY <1>2, <1>3, <2>1, <3>2
    <3> QED
      BY <3>1, <3>2
  <2>4. evs[i].ip \in ElementsOf(td) \/ evs[i].peer = Entry(map, evs[i].ip)
    BY <2>1, <2>3 DEF NewestOK
  <2> QED
    BY <2>1, <2>2, <2>4
<1> QED
  BY <1>5, <1>6

\* Some events have a newest one.
LEMMA NewestExists ==
  ASSUME NEW evs \in Seq(Event), NEW cur \in Nat, \A i \in DOMAIN evs : evs[i].cursor <= cur,
         NEW K \in SUBSET DOMAIN evs, K # {}
  PROVE  \E i \in K : \A j \in K : evs[j].cursor <= evs[i].cursor
<1> DEFINE S == {cur - evs[i].cursor : i \in K}
<1>1. \A i \in DOMAIN evs : evs[i].cursor \in Nat
  <2>1. \A i \in DOMAIN evs : evs[i] \in Event
    BY LenProperties, ElementOfSeq
  <2> QED
    BY <2>1 DEF Event
<1>2. S \in SUBSET Nat /\ S # {}
  BY <1>1
<1>3. PICK n \in S : \A m \in S : n <= m
  <2> HIDE DEF S
  <2> QED
    BY <1>2, LeastExists
<1>4. PICK i \in K : n = cur - evs[i].cursor
  BY <1>3
<1>5. ASSUME NEW j \in K PROVE evs[j].cursor <= evs[i].cursor
  <2>1. n <= cur - evs[j].cursor
    BY <1>3
  <2> QED
    BY <1>1, <1>4, <2>1
<1> QED
  BY <1>5

LEMMA EventsAre ==
  ASSUME RingInv
  PROVE  /\ events \in Seq(Event) /\ Len(events) \in Nat /\ DOMAIN events = 1 .. Len(events)
         /\ cursor \in Nat /\ epoch \in 1 .. MaxEpoch
         /\ \A i \in DOMAIN events : /\ events[i] \in Event
                                    /\ cursor - Len(events) < events[i].cursor
                                    /\ events[i].cursor <= cursor
<1>1. /\ events \in Seq(Event) /\ start \in 0 .. Capacity - 1 /\ cursor \in 0 .. MaxCursor
      /\ RingOK(events, start, cursor) /\ Len(events) <= Capacity /\ epoch \in 1 .. MaxEpoch
  BY DEF RingInv, ListTypeOK
<1>2. \A i \in DOMAIN events : cursor - Len(events) < events[i].cursor /\ events[i].cursor <= cursor
  BY <1>1, FeedConstants, RingCursors
<1> QED
  BY <1>1, <1>2, FeedConstants, LenProperties, ElementOfSeq

\* What Delta finds of an IP is its newest event.
LaterThan(since) == {i \in DOMAIN events : events[i].cursor > since}

LastOf(since, ip) ==
  CHOOSE i \in LaterThan(since) : /\ events[i].ip = ip
                                  /\ \A j \in LaterThan(since) : events[j].ip = ip =>
                                         events[j].cursor <= events[i].cursor

LEMMA LastIsNewest ==
  ASSUME RingInv, NEW since \in Nat, NEW ip \in {events[i].ip : i \in LaterThan(since)}
  PROVE  /\ LastOf(since, ip) \in DOMAIN events /\ events[LastOf(since, ip)].ip = ip
         /\ \A j \in DOMAIN events : events[j].ip = ip =>
              events[j].cursor <= events[LastOf(since, ip)].cursor
<1> DEFINE later == LaterThan(since)
           K == {i \in later : events[i].ip = ip}
           last == LastOf(since, ip)
<1>1. K \in SUBSET DOMAIN events /\ K # {}
  BY DEF LaterThan
<1>2. \E i \in K : \A j \in K : events[j].cursor <= events[i].cursor
  <2> HIDE DEF K
  <2> QED
    BY <1>1, EventsAre, NewestExists
<1>3. \E i \in later : /\ events[i].ip = ip
                       /\ \A j \in later : events[j].ip = ip => events[j].cursor <= events[i].cursor
  BY <1>2
<1>4. /\ last \in later /\ events[last].ip = ip
      /\ \A j \in later : events[j].ip = ip => events[j].cursor <= events[last].cursor
  BY <1>3 DEF LastOf
<1>5. ASSUME NEW j \in DOMAIN events, events[j].ip = ip PROVE events[j].cursor <= events[last].cursor
  <2>1. events[j] \in Event /\ last \in DOMAIN events /\ events[last] \in Event
        /\ events[last].cursor > since
    BY <1>4, EventsAre DEF LaterThan
  <2>2. events[j].cursor \in Nat /\ events[last].cursor \in Nat
    BY <2>1 DEF Event
  <2> HIDE DEF last
  <2> QED
    BY <1>4, <1>5, <2>1, <2>2 DEF LaterThan
<1> HIDE DEF last
<1> QED
  BY <1>4, <1>5 DEF last, LaterThan

LEMMA DeltaIsSync ==
  ASSUME RingInv, NEW since \in Nat
  PROVE  Delta(since) \in Syncs /\ Delta(since).epoch = epoch /\ Delta(since).cursor = cursor
<1> DEFINE ips == {events[i].ip : i \in LaterThan(since)}
           banned == {ip \in ips : events[LastOf(since, ip)].peer # {}}
           upserts == [ip \in banned |-> CHOOSE info \in events[LastOf(since, ip)].peer : TRUE]
<1>1. Delta(since) = [epoch |-> epoch, cursor |-> cursor, reset |-> FALSE,
                     upserts |-> upserts, removed |-> ips \ banned]
  BY DEF Delta, LastOf, LaterThan
<1>2. ASSUME NEW ip \in ips PROVE LastOf(since, ip) \in DOMAIN events
  BY LastIsNewest
<1>3. ips \subseteq IP
  BY EventsAre DEF Event, LaterThan
<1>4. ASSUME NEW ip \in banned PROVE upserts[ip] \in Info
  <2>1. events[LastOf(since, ip)] \in Event
    BY <1>2, EventsAre
  <2>2. events[LastOf(since, ip)].peer \in SUBSET Info /\ events[LastOf(since, ip)].peer # {}
    BY <2>1 DEF Event
  <2> QED
    BY <2>2
<1>5. upserts \in Copies
  <2>1. DOMAIN upserts = banned /\ banned \subseteq IP
    BY <1>3
  <2>2. upserts \in [banned -> Info]
    BY <1>4
  <2> HIDE DEF upserts, banned
  <2> QED
    BY <2>1, <2>2, CopiesAre
<1>6. epoch \in 1 .. MaxEpoch /\ cursor \in 0 .. MaxCursor
  BY DEF RingInv, ListTypeOK
<1> HIDE DEF upserts, banned, ips
<1> QED
  BY <1>1, <1>3, <1>5, <1>6 DEF Syncs

\* A delta brings a copy that follows up to date.
LEMMA DeltaIsRight ==
  ASSUME RingInv, Live, NEW since \in Nat, NEW copy, Right(copy, since, events, todo, peers)
  PROVE  Right(Applied(copy, Delta(since)), cursor, events, todo, peers)
<1> DEFINE ips == {events[i].ip : i \in LaterThan(since)}
           banned == {ip \in ips : events[LastOf(since, ip)].peer # {}}
           upserts == [ip \in banned |-> CHOOSE info \in events[LastOf(since, ip)].peer : TRUE]
           new == Applied(copy, Delta(since))
<1>1. Delta(since) = [epoch |-> epoch, cursor |-> cursor, reset |-> FALSE,
                     upserts |-> upserts, removed |-> ips \ banned]
  BY DEF Delta, LastOf, LaterThan
<1>2. /\ DOMAIN new = (DOMAIN copy \ ips) \cup banned
      /\ \A ip \in banned : new[ip] = upserts[ip]
      /\ \A ip \in DOMAIN copy \ ips : new[ip] = copy[ip]
  <2>1. DOMAIN upserts = banned /\ banned \subseteq ips
    OBVIOUS
  <2> DEFINE a == [epoch |-> epoch, cursor |-> cursor, reset |-> FALSE,
                   upserts |-> upserts, removed |-> ips \ banned]
  <2> HIDE DEF upserts, banned, ips
  <2>2. Applied(copy, a) = [ip \in (DOMAIN copy \ (ips \ banned)) \cup banned |->
                              IF ip \in banned THEN upserts[ip] ELSE copy[ip]]
    BY <2>1 DEF Applied
  <2> HIDE DEF a
  <2>3. new = Applied(copy, a)
    BY <1>1 DEF a
  <2> QED
    BY <2>1, <2>2, <2>3
<1>3. ASSUME NEW ip \in IP, ip \notin ElementsOf(todo) PROVE Entry(new, ip) = Entry(peers, ip)
  <2>1. CASE ip \in ips
    <3> DEFINE i == LastOf(since, ip)
    <3>1. /\ i \in DOMAIN events /\ events[i].ip = ip
          /\ \A j \in DOMAIN events : events[j].ip = ip => events[j].cursor <= events[i].cursor
      BY <2>1, LastIsNewest
    <3> HIDE DEF i
    <3>2. events[i].peer = Entry(peers, ip)
      BY <1>3, <3>1 DEF RingInv, NewestOK
    <3>3. ip \in banned <=> events[i].peer # {}
      BY <2>1 DEF i
    <3>4. ip \in banned => upserts[ip] = CHOOSE info \in events[i].peer : TRUE
      BY DEF i
    <3> HIDE DEF upserts, banned, ips, new
    <3>5. CASE ip \in banned
      <4>1. events[i].peer = {peers[ip]}
        BY <3>2, <3>3, <3>5 DEF Entry
      <4>2. upserts[ip] = peers[ip]
        BY <3>4, <3>5, <4>1
      <4> QED
        BY <1>2, <3>2, <3>5, <4>1, <4>2 DEF Entry
    <3>6. CASE ip \notin banned
      BY <1>2, <2>1, <3>2, <3>3, <3>6 DEF Entry
    <3> QED
      BY <3>5, <3>6
  <2>2. CASE ip \notin ips
    <3>1. ip \notin UnsaidOf(events, todo, since)
      BY <1>3, <2>2 DEF UnsaidOf, LaterThan
    <3>2. Entry(copy, ip) = Entry(peers, ip)
      BY <3>1 DEF Right
    <3>3. ip \notin banned
      BY <2>2
    <3> HIDE DEF upserts, banned, ips, new
    <3> QED
      BY <1>2, <2>2, <3>2, <3>3 DEF Entry
  <2> QED
    BY <2>1, <2>2
<1> QED
  BY <1>3 DEF Right, UnsaidOf

LEMMA ListStepKeepsPollers ==
  ASSUME PollersInv, ListTypeOK, ListTypeOK', UNCHANGED readers,
         Harmless(Live, epoch, cursor, events, todo, peers,
                  Live', epoch', cursor', events', todo', peers'),
         poller' \in [Poller -> PollerRecord],
         \A p \in Poller : SamePoller(poller[p], poller'[p])
  PROVE  PollersInv'
<1>1. epoch \in Nat /\ cursor \in Nat /\ epoch' \in Nat /\ cursor' \in Nat
  BY FeedConstants DEF ListTypeOK
<1>2. ASSUME NEW p \in Poller
      PROVE  PollerOK(poller'[p], Live', epoch', cursor', events', todo', peers')
  <2>1. poller[p] \in PollerRecord /\ PollerOK(poller[p], Live, epoch, cursor, events, todo, peers)
    BY DEF PollersInv
  <2>2. SamePoller(poller[p], poller'[p])
    OBVIOUS
  <2> QED
    BY <1>1, <2>1, <2>2, PollerStays
<1>3. readers' = "browsers" => \A p \in Poller : poller'[p].epoch = 0
  BY DEF PollersInv, SamePoller
<1> QED
  BY <1>2, <1>3 DEF PollersInv

LEMMA SameIsSame == \A r : SamePoller(r, r)
BY DEF SamePoller

\* The list changes where changes are due.
LEMMA ListChangeKeeps ==
  ASSUME FeedInv, todo = <<>>, ListTypeOK', IsFiniteSet(DOMAIN peers'),
         UNCHANGED <<readers, enabled, loading, feedVars, poller>>,
         cursor + Len(todo') <= MaxCursor,
         readers = "browsers" => todo' = <<>>,
         readers # "browsers" =>
           \A ip \in IP \ ElementsOf(todo') : Entry(peers', ip) = Entry(peers, ip)
  PROVE  FeedInv'
<1> USE DEF feedVars
<1>1. RingInv /\ PollersInv /\ ListTypeOK
  BY DEF FeedInv, RingInv
<1>2. ElementsOf(todo) = {}
  BY DEF ElementsOf
<1>3. Live' = Live
  BY DEF Live
<1>4. Harmless(Live, epoch, cursor, events, todo, peers,
               Live', epoch', cursor', events', todo', peers')
  <2>1. CASE Live
    <3>1. \A ip \in IP \ ElementsOf(todo') : Entry(peers', ip) = Entry(peers, ip)
      BY <2>1 DEF Live
    <3>2. Harmless(Live, epoch, cursor, events, todo, peers,
                   Live, epoch, cursor, events, todo', peers')
      <4>1. epoch \in Nat /\ cursor \in Nat
        BY <1>1, FeedConstants DEF ListTypeOK
      <4> QED
        BY <1>2, <3>1, <4>1, ChangeIsHarmless
    <3> QED
      BY <1>3, <3>2
  <2>2. CASE ~Live
    BY <1>1, <1>3, <2>2, FeedConstants DEF Harmless, ListTypeOK
  <2> QED
    BY <2>1, <2>2
<1>5. Live' => NewestOK(events', todo', peers')
  <2> SUFFICES ASSUME Live PROVE NewestOK(events, todo', peers')
    BY <1>3
  <2>1. \A ip \in IP \ ElementsOf(todo') : Entry(peers', ip) = Entry(peers, ip)
    BY DEF Live
  <2>2. NewestOK(events, todo, peers)
    BY <1>1 DEF RingInv
  <2>3. \A i \in DOMAIN events : events[i].ip \in IP
    BY <1>1, EventsAre DEF Event
  <2> QED
    BY <1>2, <2>1, <2>2, <2>3, ChangeKeepsNewest
<1>6. RingInv'
  BY <1>1, <1>5 DEF RingInv
<1>7. PollersInv'
  <2>1. poller' \in [Poller -> PollerRecord] /\ \A p \in Poller : SamePoller(poller[p], poller'[p])
    BY <1>1, SameIsSame DEF PollersInv
  <2> QED
    BY <1>1, <1>4, <2>1, ListStepKeepsPollers
<1> QED
  BY <1>6, <1>7 DEF FeedInv

\* The ban list with an entry, or without some.
LEMMA ShowsType ==
  ASSUME peers \in Copies, IsFiniteSet(DOMAIN peers), NEW ip \in IP, NEW info \in Info, Shows(ip, info)
  PROVE  /\ peers' \in Copies /\ IsFiniteSet(DOMAIN peers') /\ todo = <<>>
         /\ \A i \in IP \ {ip} : Entry(peers', i) = Entry(peers, i)
<1>1. DOMAIN peers \subseteq IP /\ peers \in [DOMAIN peers -> Info]
  BY CopiesAre
<1>2. peers' = [p \in DOMAIN peers \cup {ip} |-> IF p = ip THEN info ELSE peers[p]]
  BY DEF Shows
<1>3. DOMAIN peers' = DOMAIN peers \cup {ip} /\ peers' \in [DOMAIN peers' -> Info]
  BY <1>1, <1>2
<1>4. IsFiniteSet(DOMAIN peers')
  BY <1>3, FS_AddElement
<1>5. peers' \in Copies
  BY <1>1, <1>3, CopiesAre
<1>6. \A i \in IP \ {ip} : Entry(peers', i) = Entry(peers, i)
  BY <1>2 DEF Entry
<1> QED
  BY <1>4, <1>5, <1>6 DEF Shows, MainLoopFree

LEMMA ExpireType ==
  ASSUME peers \in Copies, IsFiniteSet(DOMAIN peers), NEW ips \in SUBSET DOMAIN peers, Expire(ips)
  PROVE  /\ peers' \in Copies /\ IsFiniteSet(DOMAIN peers') /\ todo = <<>>
         /\ ips \subseteq IP /\ IsFiniteSet(ips)
         /\ \A i \in IP \ ips : Entry(peers', i) = Entry(peers, i)
<1>1. DOMAIN peers \subseteq IP /\ peers \in [DOMAIN peers -> Info]
  BY CopiesAre
<1>2. peers' = [p \in DOMAIN peers \ ips |-> peers[p]]
  BY DEF Expire
<1>3. DOMAIN peers' = DOMAIN peers \ ips /\ peers' \in [DOMAIN peers' -> Info]
  BY <1>1, <1>2
<1>4. IsFiniteSet(DOMAIN peers') /\ IsFiniteSet(ips)
  BY <1>3, FS_Subset
<1>5. peers' \in Copies
  BY <1>1, <1>3, CopiesAre
<1>6. \A i \in IP \ ips : Entry(peers', i) = Entry(peers, i)
  BY <1>2 DEF Entry
<1> QED
  BY <1>1, <1>4, <1>5, <1>6 DEF Expire, MainLoopFree

\* A sequence of a finite set has its elements, all of them.
LEMMA SequencesOf ==
  ASSUME NEW S, IsFiniteSet(S), NEW s \in SetToSeqs(S)
  PROVE  s \in Seq(S) /\ Len(s) = Cardinality(S) /\ Len(s) \in Nat /\ ElementsOf(s) = S
         /\ \A i, j \in DOMAIN s : i # j => s[i] # s[j]
<1> DEFINE n == Cardinality(S)
<1>1. n \in Nat
  BY FS_CardinalityType
<1>2. s \in [1 .. n -> S] /\ \A i, j \in 1 .. n : i # j => s[i] # s[j]
  BY DEF SetToSeqs
<1>3. s \in Injection(1 .. n, S)
  BY <1>2 DEF Injection, IsInjective
<1>4. IsFiniteSet(1 .. n) /\ Cardinality(1 .. n) = n
  BY <1>1, FS_Interval
<1>5. s \in Surjection(1 .. n, S)
  BY <1>3, <1>4, FS_Injection
<1>6. \A x \in S : \E i \in 1 .. n : s[i] = x
  BY <1>5 DEF Surjection
<1>7. s \in Seq(S) /\ Len(s) = n /\ DOMAIN s = 1 .. n
  <2> HIDE DEF n
  <2> QED
    BY <1>1, <1>2
<1> HIDE DEF n
<1> QED
  BY <1>1, <1>2, <1>6, <1>7 DEF ElementsOf, n

LEMMA FeedInvInit == Init => FeedInv
<1> SUFFICES ASSUME Init PROVE FeedInv
  OBVIOUS
<1> USE DEF Init, FeedInit
<1> USE FeedConstants
<1>1. peers \in Copies /\ IsFiniteSet(DOMAIN peers)
  <2>1. DOMAIN peers = {} /\ peers \in [DOMAIN peers -> Info]
    OBVIOUS
  <2> QED
    BY <2>1, CopiesAre, FS_EmptySet
<1>2. todo \in Seq(IP) /\ Len(todo) = 0 /\ events \in Seq(Event) /\ Len(events) = 0
      /\ DOMAIN events = {}
  OBVIOUS
<1>3. RingInv
  <2>1. ListTypeOK
    <3>1. enabled \in BOOLEAN /\ loading \in BOOLEAN
      OBVIOUS
    <3>2. /\ 1 \in 1 .. MaxEpoch /\ 0 \in 0 .. MaxCursor /\ 0 \in 0 .. Capacity - 1
          /\ 0 <= Capacity
      OBVIOUS
    <3> QED
      BY <1>1, <1>2, <3>1, <3>2, Zenon DEF ListTypeOK
  <2>2. RingOK(events, start, cursor)
    BY <1>2 DEF RingOK
  <2>3. NewestOK(events, todo, peers)
    BY <1>2 DEF NewestOK
  <2> QED
    BY <1>1, <1>2, <2>1, <2>2, <2>3 DEF RingInv
<1>4. ASSUME NEW p \in Poller
      PROVE  /\ poller[p] \in PollerRecord /\ poller[p].epoch = 0
             /\ PollerOK(poller[p], Live, epoch, cursor, events, todo, peers)
  <2>1. poller[p] = [copy |-> peers, epoch |-> 0, cursor |-> 0,
                     request |-> "none", answer |-> NoAnswer]
    OBVIOUS
  <2>2. poller[p] \in PollerRecord
    BY <1>1, <2>1 DEF PollerRecord
  <2> QED
    BY <2>1, <2>2 DEF PollerOK, Follows
<1>5. PollersInv
  BY <1>4 DEF PollersInv
<1> QED
  BY <1>3, <1>5 DEF FeedInv

LEMMA ChangeKeeps ==
  ASSUME FeedInv, UNCHANGED readers, readers # "browsers",
         NEW ip \in IP, NEW info \in Info, Change(ip, info)
  PROVE  FeedInv'
<1>1. ListTypeOK /\ IsFiniteSet(DOMAIN peers) /\ Shows(ip, info)
  BY DEF FeedInv, RingInv, Change
<1>2. /\ peers' \in Copies /\ IsFiniteSet(DOMAIN peers') /\ todo = <<>>
      /\ \A i \in IP \ {ip} : Entry(peers', i) = Entry(peers, i)
  BY <1>1, ShowsType DEF ListTypeOK
<1>3. todo' = <<ip>> /\ todo' \in Seq(IP) /\ Len(todo') = 1 /\ ElementsOf(todo') = {ip}
  BY DEF Change, ElementsOf
<1>4. cursor + 1 <= MaxCursor
  BY <1>1, FeedConstants DEF Change, RoomFor, ListTypeOK
<1>5. ListTypeOK'
  BY <1>1, <1>2, <1>3 DEF Change, ListTypeOK, feedVars
<1> QED
  BY <1>2, <1>3, <1>4, <1>5, ListChangeKeeps DEF Change

LEMMA ClearKeeps ==
  ASSUME FeedInv, UNCHANGED readers, readers # "browsers",
         NEW ips \in SUBSET DOMAIN peers, Clear(ips)
  PROVE  FeedInv'
<1>1. ListTypeOK /\ IsFiniteSet(DOMAIN peers) /\ Expire(ips)
  BY DEF FeedInv, RingInv, Clear
<1>2. /\ peers' \in Copies /\ IsFiniteSet(DOMAIN peers') /\ todo = <<>>
      /\ ips \subseteq IP /\ IsFiniteSet(ips)
      /\ \A i \in IP \ ips : Entry(peers', i) = Entry(peers, i)
  BY <1>1, ExpireType DEF ListTypeOK
<1>3. todo' \in Seq(IP) /\ Len(todo') = Cardinality(ips) /\ ElementsOf(todo') = ips
      /\ Len(todo') \in Nat
  <2>1. todo' \in SetToSeqs(ips)
    BY DEF Clear
  <2>2. todo' \in Seq(ips) /\ Len(todo') = Cardinality(ips) /\ ElementsOf(todo') = ips
        /\ Len(todo') \in Nat
    BY <1>2, <2>1, SequencesOf
  <2> QED
    BY <1>2, <2>2, SeqMonotonic
<1>4. cursor + Len(todo') <= MaxCursor
  BY <1>1, <1>3, FeedConstants DEF Clear, RoomFor, ListTypeOK
<1>5. ListTypeOK'
  BY <1>1, <1>2, <1>3 DEF Clear, ListTypeOK, feedVars
<1> QED
  BY <1>2, <1>3, <1>4, <1>5, ListChangeKeeps DEF Clear

LEMMA UnrecordedKeeps ==
  ASSUME FeedInv, UNCHANGED readers, readers = "browsers", UnrecordedChanges
  PROVE  FeedInv'
<1>1. ListTypeOK /\ IsFiniteSet(DOMAIN peers) /\ cursor + Len(todo) <= MaxCursor
  BY DEF FeedInv, RingInv
<1>2. peers' \in Copies /\ IsFiniteSet(DOMAIN peers') /\ todo = <<>>
  BY <1>1, ShowsType, ExpireType DEF UnrecordedChanges, ListTypeOK
<1>3. ListTypeOK'
  BY <1>1, <1>2 DEF UnrecordedChanges, ListTypeOK, feedVars
<1> QED
  BY <1>1, <1>2, <1>3, ListChangeKeeps DEF UnrecordedChanges

\* A change is recorded, or forgotten while the WebUI is disabled.
LEMMA RecordKeeps ==
  ASSUME FeedInv, UNCHANGED readers, Record
  PROVE  FeedInv'
<1>1. RingInv /\ PollersInv /\ ListTypeOK /\ RingOK(events, start, cursor)
      /\ cursor + Len(todo) <= MaxCursor
  BY DEF FeedInv, RingInv
<1>2. /\ todo \in Seq(IP) /\ todo # <<>> /\ todo' = Tail(todo)
      /\ UNCHANGED <<peers, enabled, loading, poller>>
  BY <1>1 DEF Record, ListTypeOK
<1>3. /\ Head(todo) \in IP /\ Tail(todo) \in Seq(IP) /\ Len(Tail(todo)) = Len(todo) - 1
      /\ Len(todo) \in Nat /\ Len(todo) >= 1 /\ Len(Tail(todo)) \in Nat
  BY <1>2, HeadTailProperties, EmptySeq, LenProperties
<1>4. ElementsOf(todo) \subseteq ElementsOf(Tail(todo)) \cup {Head(todo)}
  <2>1. \A i \in 1 .. Len(Tail(todo)) : Tail(todo)[i] = todo[i + 1]
    BY <1>2, HeadTailProperties
  <2>2. DOMAIN todo = 1 .. Len(todo) /\ DOMAIN Tail(todo) = 1 .. Len(Tail(todo))
    BY <1>2, <1>3, LenProperties
  <2>3. ASSUME NEW i \in 1 .. Len(todo), i # 1 PROVE todo[i] \in ElementsOf(Tail(todo))
    <3>1. i - 1 \in 1 .. Len(Tail(todo)) /\ (i - 1) + 1 = i
      BY <1>3, <2>3
    <3> QED
      BY <2>1, <2>2, <3>1 DEF ElementsOf
  <2>4. todo[1] = Head(todo)
    BY <1>2
  <2> QED
    BY <2>2, <2>3, <2>4 DEF ElementsOf
<1>5. readers # "browsers"
  BY <1>1, <1>2 DEF RingInv
<1>6. Live' = Live
  BY <1>2 DEF Live
<1>7. poller' \in [Poller -> PollerRecord] /\ \A p \in Poller : SamePoller(poller[p], poller'[p])
  BY <1>1, <1>2, SameIsSame DEF PollersInv
<1>8. CASE ~enabled
  <2>1. UNCHANGED feedVars /\ ~Live
    BY <1>8 DEF Record, Live
  <2>2. ListTypeOK'
    BY <1>1, <1>2, <1>3, <2>1 DEF ListTypeOK, feedVars
  <2>3. Harmless(Live, epoch, cursor, events, todo, peers,
                 Live', epoch', cursor', events', todo', peers')
    BY <1>1, <1>6, <2>1, FeedConstants DEF Harmless, ListTypeOK, feedVars
  <2>4. RingInv'
    BY <1>1, <1>2, <1>3, <1>5, <1>6, <2>1, <2>2, FeedConstants DEF RingInv, feedVars, ListTypeOK
  <2> QED
    BY <1>1, <1>7, <2>2, <2>3, <2>4, ListStepKeepsPollers DEF FeedInv
<1>9. CASE enabled
  <2> DEFINE e == [cursor |-> cursor + 1, ip |-> Head(todo), peer |-> Entry(peers, Head(todo))]
  <2>1. cursor' = cursor + 1 /\ epoch' = epoch
        /\ events' = RingWith(events, start, e)
        /\ start' = IF Len(events) < Capacity THEN start ELSE (start + 1) % Capacity
    BY <1>9 DEF Record, AppendEvent, BlockPeer, RingWith
  <2>2. e \in Event /\ e.cursor = cursor + 1 /\ e.ip = Head(todo) /\ e.peer = Entry(peers, Head(todo))
    <3>1. Entry(peers, Head(todo)) \in SUBSET Info
      <4>1. peers \in [DOMAIN peers -> Info]
        BY <1>1, CopiesAre DEF ListTypeOK
      <4> QED
        BY <4>1 DEF Entry
    <3>2. cursor + 1 \in 1 .. MaxCursor
      BY <1>1, <1>3, FeedConstants DEF ListTypeOK
    <3> QED
      BY <1>3, <3>1, <3>2 DEF Event
  <2> HIDE DEF e
  <2>3. start \in 0 .. Capacity - 1 /\ events \in Seq(Event) /\ Len(events) <= Capacity
        /\ cursor \in 0 .. MaxCursor /\ epoch \in Nat /\ cursor \in Nat
    BY <1>1, FeedConstants DEF ListTypeOK
  <2>4. start' = (IF Len(events) < Capacity THEN start
                  ELSE IF start + 1 = Capacity THEN 0 ELSE start + 1) /\ start' \in Int
    BY <2>1, <2>3, StartWraps, FeedConstants
  <2>5. /\ events' \in Seq(Event) /\ Len(events') <= Capacity
        /\ start' \in 0 .. Capacity - 1 /\ RingOK(events', start', cursor + 1)
    BY <1>1, <2>1, <2>2, <2>3, <2>4, RingGrows
  <2>6. ListTypeOK'
    BY <1>1, <1>2, <1>3, <2>1, <2>5, FeedConstants DEF ListTypeOK
  <2>7. Harmless(Live, epoch, cursor, events, todo, peers,
                 Live', epoch', cursor', events', todo', peers')
    <3>1. Harmless(Live, epoch, cursor, events, todo, peers,
                   Live, epoch, cursor + 1, RingWith(events, start, e), Tail(todo), peers)
      BY <1>1, <1>4, <2>2, <2>3, EventIsHarmless
    <3> QED
      BY <1>2, <1>6, <2>1, <3>1
  <2>8. Live' => NewestOK(events', todo', peers')
    <3>1. SUFFICES ASSUME Live PROVE NewestOK(RingWith(events, start, e), Tail(todo), peers)
      BY <1>2, <1>6, <2>1
    <3>2. NewestOK(events, todo, peers)
      BY <1>1, <3>1 DEF RingInv
    <3> QED
      BY <1>1, <1>4, <2>2, <2>3, <3>2, EventKeepsNewest
  <2>9. RingInv'
    <3>1. IsFiniteSet(DOMAIN peers')
      BY <1>1, <1>2 DEF RingInv
    <3>2. cursor' + Len(todo') <= MaxCursor
      BY <1>1, <1>2, <1>3, <2>1, <2>3, FeedConstants
    <3> QED
      BY <1>5, <2>1, <2>5, <2>6, <2>8, <3>1, <3>2 DEF RingInv
  <2> QED
    BY <1>1, <1>7, <2>6, <2>7, <2>9, ListStepKeepsPollers DEF FeedInv
<1> QED
  BY <1>8, <1>9

LEMMA ReplaceConfigKeeps ==
  ASSUME FeedInv, UNCHANGED readers, ReplaceConfig
  PROVE  FeedInv'
<1>1. RingInv /\ PollersInv /\ ListTypeOK
  BY DEF FeedInv, RingInv
<1>2. ~Live' /\ ListTypeOK'
  BY <1>1 DEF ReplaceConfig, Live, ListTypeOK, feedVars
<1>3. poller' \in [Poller -> PollerRecord] /\ \A p \in Poller : SamePoller(poller[p], poller'[p])
  BY <1>1, SameIsSame DEF PollersInv, ReplaceConfig
<1>4. Harmless(Live, epoch, cursor, events, todo, peers,
               Live', epoch', cursor', events', todo', peers')
  BY <1>1, <1>2, FeedConstants DEF Harmless, ListTypeOK, ReplaceConfig, feedVars
<1>5. RingInv'
  BY <1>1, <1>2 DEF RingInv, ReplaceConfig, feedVars
<1> QED
  BY <1>1, <1>2, <1>3, <1>4, <1>5, ListStepKeepsPollers DEF FeedInv

\* Another epoch: an empty ring, and nothing of before is compared with it.
LEMMA NewEpochKeeps ==
  ASSUME FeedInv, UNCHANGED readers, ResetWebUIPeerSync,
         peers' \in Copies, IsFiniteSet(DOMAIN peers'), todo' \in {todo, <<>>},
         enabled' \in BOOLEAN, loading' \in BOOLEAN,
         poller' \in [Poller -> PollerRecord],
         \A p \in Poller : SamePoller(poller[p], poller'[p])
  PROVE  FeedInv'
<1> USE FeedConstants
<1>1. RingInv /\ PollersInv /\ ListTypeOK
  BY DEF FeedInv, RingInv
<1>2. epoch' = epoch + 1 /\ epoch < MaxEpoch /\ cursor' = 0 /\ start' = 0 /\ events' = <<>>
  BY DEF ResetWebUIPeerSync
<1>3. todo' \in Seq(IP) /\ Len(todo') <= MaxCursor /\ Len(todo') \in Nat
  <2>1. Len(todo) \in Nat /\ cursor + Len(todo) <= MaxCursor /\ cursor \in Nat
    BY <1>1, LenProperties DEF RingInv, ListTypeOK
  <2>2. CASE todo' = todo
    BY <1>1, <2>1, <2>2 DEF ListTypeOK
  <2>3. CASE todo' = <<>>
    BY <2>3
  <2> QED
    BY <2>2, <2>3
<1>4. events' \in Seq(Event) /\ Len(events') = 0 /\ DOMAIN events' = {}
  BY <1>2
<1>5. ListTypeOK'
  BY <1>1, <1>2, <1>3, <1>4 DEF ListTypeOK
<1>6. epoch \in Nat /\ epoch' \in Nat /\ epoch < epoch'
  BY <1>1, <1>2 DEF ListTypeOK
<1>7. Harmless(Live, epoch, cursor, events, todo, peers,
               Live', epoch', cursor', events', todo', peers')
  BY <1>6 DEF Harmless
<1>8. RingInv'
  <2>1. RingOK(events', start', cursor')
    BY <1>2, <1>4 DEF RingOK
  <2>2. NewestOK(events', todo', peers')
    BY <1>4 DEF NewestOK
  <2>3. cursor' + Len(todo') <= MaxCursor
    BY <1>2, <1>3
  <2>4. readers' = "browsers" => todo' = <<>>
    BY <1>1 DEF RingInv
  <2> QED
    BY <1>5, <2>1, <2>2, <2>3, <2>4 DEF RingInv
<1> QED
  BY <1>1, <1>5, <1>7, <1>8, ListStepKeepsPollers DEF FeedInv

LEMMA InitConfigKeeps ==
  ASSUME FeedInv, UNCHANGED readers, InitConfig
  PROVE  FeedInv'
<1>1. RingInv /\ PollersInv /\ ListTypeOK
  BY DEF FeedInv, RingInv
<1>2. poller' \in [Poller -> PollerRecord] /\ \A p \in Poller : SamePoller(poller[p], poller'[p])
  BY <1>1, SameIsSame DEF PollersInv, InitConfig
<1>3. peers' \in Copies /\ IsFiniteSet(DOMAIN peers') /\ enabled' \in BOOLEAN /\ loading' \in BOOLEAN
  BY <1>1 DEF InitConfig, RingInv, ListTypeOK
<1> QED
  BY <1>2, <1>3, NewEpochKeeps DEF InitConfig

LEMMA RestartKeeps ==
  ASSUME FeedInv, UNCHANGED readers, Restart
  PROVE  FeedInv'
<1>1. PollersInv
  BY DEF FeedInv
<1>2. ASSUME NEW p \in Poller
      PROVE  poller'[p] \in PollerRecord /\ SamePoller(poller[p], poller'[p])
  <2> DEFINE r == poller[p]
             r2 == [r EXCEPT !.request = IF @ = "sent" THEN "none" ELSE @]
  <2>1. r \in PollerRecord
    BY <1>1 DEF PollersInv
  <2>2. poller'[p] = r2
    BY DEF Restart
  <2> HIDE DEF r
  <2>3. r2 \in PollerRecord /\ SamePoller(r, r2)
    BY <2>1 DEF PollerRecord, SamePoller
  <2> QED
    BY <2>2, <2>3 DEF r
<1>3. poller' \in [Poller -> PollerRecord]
  <2>1. poller' = [p \in Poller |-> poller'[p]]
    BY DEF Restart
  <2> QED
    BY <1>2, <2>1
<1>4. peers' \in Copies /\ IsFiniteSet(DOMAIN peers')
  <2>1. DOMAIN peers' = {} /\ peers' \in [DOMAIN peers' -> Info]
    BY DEF Restart
  <2> QED
    BY <2>1, CopiesAre, FS_EmptySet
<1> QED
  BY <1>2, <1>3, <1>4, NewEpochKeeps DEF Restart

-----------------------------------------------------------------------------
(* The pollers' steps: the feed stays as it is.                            *)

LEMMA PollerStepKeeps ==
  ASSUME FeedInv, NEW p \in Poller, NEW r,
         readers # "browsers", UNCHANGED <<readers, peers, todo, enabled, loading, feedVars>>,
         poller' = [poller EXCEPT ![p] = r], r \in PollerRecord,
         PollerOK(r, Live, epoch, cursor, events, todo, peers)
  PROVE  FeedInv'
<1>1. RingInv /\ PollersInv
  BY DEF FeedInv
<1>2. RingInv' /\ Live' = Live
  BY <1>1 DEF RingInv, ListTypeOK, Live, feedVars
<1>3. ASSUME NEW q \in Poller
      PROVE  PollerOK(poller'[q], Live, epoch, cursor, events, todo, peers)
  BY <1>1 DEF PollersInv
<1>4. poller' \in [Poller -> PollerRecord]
  BY <1>1 DEF PollersInv
<1>5. PollersInv'
  BY <1>2, <1>3, <1>4 DEF PollersInv, feedVars
<1> QED
  BY <1>2, <1>5 DEF FeedInv

\* A cursor that is good for a delta has all its later events in the ring.
LEMMA RetainedIsWithin ==
  ASSUME RingInv, NEW since \in Nat, since <= cursor, Retained(since)
  PROVE  Within(events, cursor, since)
<1>0. cursor \in Nat
  BY FeedConstants DEF RingInv, ListTypeOK
<1>1. CASE events = <<>>
  BY <1>0, <1>1 DEF Retained, Within
<1>2. CASE events # <<>>
  <2>1. Len(events) >= 1 /\ Len(events) \in Nat /\ events \in Seq(Event) /\ DOMAIN events = 1 .. Len(events)
    BY <1>2, EventsAre, EmptySeq
  <2>2. start \in 0 .. Len(events) - 1
    <3>1. start \in 0 .. Capacity - 1 /\ Len(events) <= Capacity
          /\ (Len(events) < Capacity => start = 0)
      BY DEF RingInv, ListTypeOK, RingOK
    <3> QED
      BY <2>1, <3>1, FeedConstants
  <2>3. (start + 0) % Len(events) = start
    BY <2>1, <2>2
  <2>4. EventAt(0) = events[start + 1] /\ start + 1 \in 1 .. Len(events)
    BY <2>1, <2>2, <2>3 DEF EventAt
  <2>5. events[start + 1].cursor > cursor - Len(events) /\ events[start + 1].cursor \in Nat
    BY <2>1, <2>4, EventsAre DEF Event
  <2>6. since + 1 >= events[start + 1].cursor
    BY <1>2, <2>4 DEF Retained
  <2> QED
    BY <1>0, <2>1, <2>5, <2>6 DEF Within
<1> QED
  BY <1>1, <1>2

\* The answer to a request: a delta for a copy that follows, else the list.
LEMMA SyncIsRight ==
  ASSUME RingInv, NEW r \in PollerRecord, PollerOK(r, Live, epoch, cursor, events, todo, peers)
  PROVE  LET a == BlockPeerSync(r.epoch, r.cursor)
         IN  a \in Syncs /\ Follows(Applied(r.copy, a), a.epoch, a.cursor,
                                     Live, epoch, cursor, events, todo, peers)
<1> DEFINE a == BlockPeerSync(r.epoch, r.cursor)
<1>1. r.cursor \in Nat /\ r.epoch \in Nat
  BY FeedConstants DEF PollerRecord
<1>2. ListTypeOK /\ epoch \in 1 .. MaxEpoch /\ epoch \in Nat /\ cursor \in 0 .. MaxCursor /\ cursor \in Nat
  BY FeedConstants DEF RingInv, ListTypeOK
<1>3. CASE r.epoch = epoch /\ r.cursor <= cursor /\ Retained(r.cursor)
  <2>1. a = Delta(r.cursor)
    BY <1>3 DEF BlockPeerSync
  <2>2. a \in Syncs /\ a.epoch = epoch /\ a.cursor = cursor
    BY <1>1, <2>1, DeltaIsSync
  <2>3. Within(events, cursor, r.cursor)
    BY <1>1, <1>3, RetainedIsWithin
  <2>4. ASSUME Live PROVE Right(Applied(r.copy, a), cursor, events, todo, peers)
    <3>1. Right(r.copy, r.cursor, events, todo, peers)
      BY <1>3, <2>3, <2>4 DEF PollerOK, Follows
    <3> QED
      BY <1>1, <2>1, <2>4, <3>1, DeltaIsRight
  <2> HIDE DEF a
  <2>5. Follows(Applied(r.copy, a), a.epoch, a.cursor, Live, epoch, cursor, events, todo, peers)
    BY <1>2, <2>2, <2>4 DEF Follows
  <2> QED
    BY <2>2, <2>5 DEF a
<1>4. CASE ~(r.epoch = epoch /\ r.cursor <= cursor /\ Retained(r.cursor))
  <2>1. a = [epoch |-> epoch, cursor |-> cursor, reset |-> TRUE, upserts |-> peers, removed |-> {}]
    BY <1>4, Zenon DEF BlockPeerSync, FullSync, BlockPeers
  <2>2. a \in Syncs /\ a.epoch = epoch /\ a.cursor = cursor
    BY <1>2, <2>1 DEF Syncs, ListTypeOK
  <2>3. Applied(r.copy, a) = peers
    <3>1. peers \in [DOMAIN peers -> Info]
      BY <1>2, CopiesAre DEF ListTypeOK
    <3>2. a.reset /\ a.upserts = peers
      BY <2>1
    <3> HIDE DEF a
    <3>3. Applied(r.copy, a) = [ip \in DOMAIN peers |-> peers[ip]]
      BY <3>2 DEF Applied
    <3> QED
      BY <3>1, <3>3
  <2> HIDE DEF a
  <2>4. Follows(Applied(r.copy, a), a.epoch, a.cursor, Live, epoch, cursor, events, todo, peers)
    BY <1>2, <2>2, <2>3 DEF Follows, Right
  <2> QED
    BY <2>2, <2>4 DEF a
<1> QED
  BY <1>3, <1>4

LEMMA RequestKeeps ==
  ASSUME FeedInv, UNCHANGED readers, readers # "browsers", NEW p \in Poller, Request(p)
  PROVE  FeedInv'
<1> DEFINE r == poller[p]
           r2 == [r EXCEPT !.request = "sent"]
<1>1. r \in PollerRecord /\ PollerOK(r, Live, epoch, cursor, events, todo, peers)
      /\ poller \in [Poller -> PollerRecord]
  BY DEF FeedInv, PollersInv
<1>2. poller' = [poller EXCEPT ![p] = r2]
  BY DEF Request
<1> HIDE DEF r
<1>3. r2 \in PollerRecord /\ PollerOK(r2, Live, epoch, cursor, events, todo, peers)
  <2>1. r2 \in PollerRecord /\ r2.copy = r.copy /\ r2.epoch = r.epoch /\ r2.cursor = r.cursor
        /\ r2.request = "sent"
    BY <1>1 DEF PollerRecord
  <2> HIDE DEF r2
  <2> QED
    BY <1>1, <2>1 DEF PollerOK
<1> HIDE DEF r2
<1> QED
  BY <1>2, <1>3, PollerStepKeeps DEF Request

LEMMA AnswerKeeps ==
  ASSUME FeedInv, UNCHANGED readers, readers # "browsers", NEW p \in Poller, Answer(p)
  PROVE  FeedInv'
<1> DEFINE r == poller[p]
           a == BlockPeerSync(r.epoch, r.cursor)
           r2 == [r EXCEPT !.request = "answered", !.answer = a]
<1>1. r \in PollerRecord /\ PollerOK(r, Live, epoch, cursor, events, todo, peers)
      /\ poller \in [Poller -> PollerRecord] /\ RingInv
  BY DEF FeedInv, PollersInv
<1>2. poller' = [poller EXCEPT ![p] = r2]
  BY <1>1 DEF Answer, PollerRecord
<1> HIDE DEF r
<1>3. a \in Syncs /\ Follows(Applied(r.copy, a), a.epoch, a.cursor,
                              Live, epoch, cursor, events, todo, peers)
  BY <1>1, SyncIsRight
<1> HIDE DEF a
<1>4. r2 \in PollerRecord /\ r2.copy = r.copy /\ r2.epoch = r.epoch /\ r2.cursor = r.cursor
      /\ r2.request = "answered" /\ r2.answer = a
  BY <1>1, <1>3 DEF PollerRecord
<1> HIDE DEF r2
<1>5. PollerOK(r2, Live, epoch, cursor, events, todo, peers)
  BY <1>1, <1>3, <1>4 DEF PollerOK
<1> QED
  BY <1>2, <1>4, <1>5, PollerStepKeeps DEF Answer

LEMMA AppliedType ==
  ASSUME NEW copy \in Copies, NEW a \in Syncs
  PROVE  Applied(copy, a) \in Copies
<1>1. DOMAIN copy \subseteq IP /\ copy \in [DOMAIN copy -> Info]
  BY CopiesAre
<1>2. DOMAIN a.upserts \subseteq IP /\ a.upserts \in [DOMAIN a.upserts -> Info]
  <2>1. a.upserts \in Copies
    BY DEF Syncs
  <2> QED
    BY <2>1, CopiesAre
<1> DEFINE kept == IF a.reset THEN {} ELSE DOMAIN copy \ a.removed
           new == [ip \in kept \cup DOMAIN a.upserts |->
                     IF ip \in DOMAIN a.upserts THEN a.upserts[ip] ELSE copy[ip]]
<1>3. Applied(copy, a) = new
  BY DEF Applied
<1>4. kept \subseteq DOMAIN copy
  OBVIOUS
<1> HIDE DEF kept
<1>5. DOMAIN new \subseteq IP /\ new \in [DOMAIN new -> Info]
  BY <1>1, <1>2, <1>4
<1> HIDE DEF new
<1> QED
  BY <1>3, <1>5, CopiesAre

LEMMA ReceiveKeeps ==
  ASSUME FeedInv, UNCHANGED readers, readers # "browsers", NEW p \in Poller, Receive(p)
  PROVE  FeedInv'
<1> DEFINE r == poller[p]
           a == r.answer
           r2 == [copy |-> Applied(r.copy, a), epoch |-> a.epoch, cursor |-> a.cursor,
                  request |-> "none", answer |-> NoAnswer]
<1>1. r \in PollerRecord /\ PollerOK(r, Live, epoch, cursor, events, todo, peers)
      /\ poller \in [Poller -> PollerRecord] /\ r.request = "answered"
  BY DEF FeedInv, PollersInv, Receive
<1>2. poller' = [poller EXCEPT ![p] = r2]
  BY <1>1 DEF Receive
<1> HIDE DEF r
<1>3. a \in Syncs /\ Follows(Applied(r.copy, a), a.epoch, a.cursor,
                              Live, epoch, cursor, events, todo, peers)
  BY <1>1 DEF PollerOK
<1>4. Applied(r.copy, a) \in Copies
  <2>1. r.copy \in Copies
    BY <1>1 DEF PollerRecord
  <2> HIDE DEF a
  <2> QED
    BY <1>3, <2>1, AppliedType
<1> HIDE DEF a
<1>5. r2 \in PollerRecord
  BY <1>3, <1>4, FeedConstants DEF PollerRecord, Syncs
<1>6. PollerOK(r2, Live, epoch, cursor, events, todo, peers)
  BY <1>3 DEF PollerOK
<1> HIDE DEF r2
<1> QED
  BY <1>2, <1>5, <1>6, PollerStepKeeps DEF Receive

LEMMA LoseKeeps ==
  ASSUME FeedInv, UNCHANGED readers, readers # "browsers", NEW p \in Poller, Lose(p)
  PROVE  FeedInv'
<1> DEFINE r == poller[p]
           r2 == [r EXCEPT !.request = "none", !.answer = NoAnswer]
<1>1. r \in PollerRecord /\ PollerOK(r, Live, epoch, cursor, events, todo, peers)
      /\ poller \in [Poller -> PollerRecord]
  BY DEF FeedInv, PollersInv
<1>2. poller' = [poller EXCEPT ![p] = r2]
  BY <1>1 DEF Lose, PollerRecord
<1> HIDE DEF r
<1>3. r2 \in PollerRecord /\ r2.copy = r.copy /\ r2.epoch = r.epoch /\ r2.cursor = r.cursor
      /\ r2.request = "none"
  BY <1>1 DEF PollerRecord
<1> HIDE DEF r2
<1>4. PollerOK(r2, Live, epoch, cursor, events, todo, peers)
  BY <1>1, <1>3 DEF PollerOK
<1> QED
  BY <1>2, <1>3, <1>4, PollerStepKeeps DEF Lose

\* What is not a step of the feed leaves all of it alone.
LEMMA FeedInvStays ==
  ASSUME FeedInv, UNCHANGED <<readers, banFeedVars>>
  PROVE  FeedInv'
<1>1. RingInv'
  BY DEF FeedInv, RingInv, ListTypeOK, Live, banFeedVars, feedVars
<1>2. PollersInv'
  BY DEF FeedInv, PollersInv, Live, banFeedVars, feedVars
<1> QED
  BY <1>1, <1>2 DEF FeedInv

LEMMA FeedInvNext == FeedInv /\ [Next]_vars => FeedInv'
<1> SUFFICES ASSUME FeedInv, [Next]_vars PROVE FeedInv'
  OBVIOUS
<1>1. CASE Changes
  <2>1. CASE readers = "browsers"
    BY <1>1, <2>1, UnrecordedKeeps DEF Changes, List
  <2>2. CASE readers # "browsers"
    BY <1>1, <2>2, ChangeKeeps, ClearKeeps DEF Changes, List, ListChanges
  <2> QED
    BY <2>1, <2>2
<1>2. CASE Records
  BY <1>2, RecordKeeps DEF Records, List
<1>3. CASE Reloads
  BY <1>3, ReplaceConfigKeeps DEF Reloads, List
<1>4. CASE Resets
  BY <1>4, InitConfigKeeps DEF Resets, List
<1>5. CASE Restarts
  BY <1>5, RestartKeeps DEF Restarts, List
<1>6. ASSUME NEW p \in Poller, Polls(p, PollerStep(p)) PROVE FeedInv'
  <2>1. UNCHANGED readers /\ readers # "browsers" /\ PollerStep(p)
    BY <1>6 DEF Polls, List
  <2> QED
    BY <2>1, RequestKeeps, AnswerKeeps, ReceiveKeeps, LoseKeeps DEF PollerStep
<1>7. CASE Browses
  BY <1>7, FeedInvStays DEF Browses, List
<1>8. CASE Logs
  BY <1>8, FeedInvStays DEF Logs
<1>9. CASE UNCHANGED vars
  BY <1>9, FeedInvStays DEF vars
<1> QED
  BY <1>1, <1>2, <1>3, <1>4, <1>5, <1>6, <1>7, <1>8, <1>9 DEF Next

LEMMA RingCopiesAreRight ==
  ASSUME FeedInv
  PROVE  CopyRightWhereSilent
<1> SUFFICES ASSUME enabled, ~loading, NEW p \in Poller,
                    poller[p].epoch = epoch, Retained(poller[p].cursor),
                    NEW ip \in IP \ Unsaid(poller[p].cursor)
             PROVE  Entry(poller[p].copy, ip) = Entry(peers, ip)
  BY DEF CopyRightWhereSilent
<1> DEFINE r == poller[p]
<1>1. r \in PollerRecord /\ PollerOK(r, Live, epoch, cursor, events, todo, peers) /\ RingInv
  BY DEF FeedInv, PollersInv
<1>2. Live
  BY EventsAre, <1>1 DEF Live, FeedInv, PollersInv
<1>3. r.cursor \in Nat /\ r.cursor <= cursor
  BY <1>1, FeedConstants DEF PollerRecord, PollerOK, Follows
<1>4. Within(events, cursor, r.cursor)
  BY <1>1, <1>3, RetainedIsWithin
<1>5. Right(r.copy, r.cursor, events, todo, peers)
  BY <1>1, <1>2, <1>4 DEF PollerOK, Follows
<1>6. Unsaid(r.cursor) = UnsaidOf(events, todo, r.cursor)
  BY DEF Unsaid, UnsaidOf, ElementsOf
<1> HIDE DEF r
<1> QED
  BY <1>5, <1>6 DEF Right, r

(***************************************************************************)
(* A poller's copy of the ban list agrees with the list wherever the feed  *)
(* has nothing more to say, for every capacity of the ring and however     *)
(* many events, reloads, restarts and lost answers there are (webui.go).   *)
(***************************************************************************)
THEOREM CopiesFollow == Spec => []CopyRightWhereSilent
<1>1. FeedInv => CopyRightWhereSilent
  BY RingCopiesAreRight
<1> QED
  BY <1>1, FeedInvInit, FeedInvNext, PTL DEF Spec

-----------------------------------------------------------------------------
(***************************************************************************)
(* The pages.  First the list they are cut from: a strict total order of a *)
(* finite set has exactly one way to list the set, and it exists.          *)
(***************************************************************************)
StrictOrder(R, S) ==
  /\ \A x \in S : <<x, x>> \notin R
  /\ \A x, y \in S : x # y => <<x, y>> \in R \/ <<y, x>> \in R
  /\ \A x, y, z \in S : <<x, y>> \in R /\ <<y, z>> \in R => <<x, z>> \in R

HasLast(R, T) == \E m \in T : \A y \in T \ {m} : <<y, m>> \in R

LEMMA FiniteHasLast ==
  ASSUME NEW S, IsFiniteSet(S), NEW R, StrictOrder(R, S), NEW T0 \in SUBSET S, T0 # {}
  PROVE  HasLast(R, T0)
<1> SUFFICES ASSUME ~HasLast(R, T0) PROVE FALSE
  OBVIOUS
<1> DEFINE bad == {n \in Nat : \E T \in SUBSET S : T # {} /\ Cardinality(T) = n /\ ~HasLast(R, T)}
<1>1. \A T \in SUBSET S : IsFiniteSet(T) /\ Cardinality(T) \in Nat
  BY FS_Subset, FS_CardinalityType
<1>2. Cardinality(T0) \in bad
  BY <1>1
<1>3. PICK n \in bad : \A m \in bad : n <= m
  <2>1. bad \in SUBSET Nat /\ bad # {}
    BY <1>2
  <2> HIDE DEF bad
  <2> QED
    BY <2>1, LeastExists
<1>4. PICK T \in SUBSET S : T # {} /\ Cardinality(T) = n /\ ~HasLast(R, T)
  BY <1>3
<1>5. PICK x \in T : TRUE
  BY <1>4
<1> DEFINE T1 == T \ {x}
<1>6. T1 \in SUBSET S /\ Cardinality(T1) = n - 1 /\ Cardinality(T1) \in Nat
  <2>1. IsFiniteSet(T)
    BY <1>1
  <2>2. Cardinality(T \ {x}) = Cardinality(T) - 1
    BY <1>5, <2>1, FS_RemoveElement
  <2> QED
    BY <1>1, <1>4, <2>2
<1>7. T1 # {}
  BY <1>4, <1>5 DEF HasLast
<1>8. HasLast(R, T1)
  <2>1. n - 1 \notin bad
    <3>1. n \in Nat
      BY <1>3
    <3> HIDE DEF bad
    <3> QED
      BY <1>3, <3>1
  <2> QED
    BY <1>6, <1>7, <2>1
<1>9. PICK m \in T1 : \A y \in T1 \ {m} : <<y, m>> \in R
  BY <1>8 DEF HasLast
<1>10. CASE <<x, m>> \in R
  <2>1. m \in T /\ \A y \in T \ {m} : <<y, m>> \in R
    BY <1>9, <1>10
  <2> QED
    BY <1>4, <2>1 DEF HasLast
<1>11. CASE <<x, m>> \notin R
  <2>1. <<m, x>> \in R
    BY <1>4, <1>5, <1>9, <1>11 DEF StrictOrder
  <2>2. ASSUME NEW y \in T \ {x} PROVE <<y, x>> \in R
    <3>1. CASE y = m
      BY <2>1, <3>1
    <3>2. CASE y # m
      <4>1. <<y, m>> \in R
        BY <1>9, <3>2
      <4>2. y \in S /\ m \in S /\ x \in S
        BY <1>4, <1>5, <1>9
      <4> QED
        BY <2>1, <4>1, <4>2 DEF StrictOrder
    <3> QED
      BY <3>1, <3>2
  <2> QED
    BY <1>4, <1>5, <2>2 DEF HasLast
<1> QED
  BY <1>10, <1>11

InOrder(R, s) == \A i, j \in DOMAIN s : i < j => <<s[i], s[j]>> \in R

HasOrdered(R, T) == \E s \in SetToSeqs(T) : InOrder(R, s)

LEMMA FiniteHasOrdered ==
  ASSUME NEW S, IsFiniteSet(S), NEW R, StrictOrder(R, S)
  PROVE  HasOrdered(R, S)
<1> SUFFICES ASSUME ~HasOrdered(R, S) PROVE FALSE
  OBVIOUS
<1> DEFINE bad == {n \in Nat : \E T \in SUBSET S : Cardinality(T) = n /\ ~HasOrdered(R, T)}
<1>1. \A T \in SUBSET S : IsFiniteSet(T) /\ Cardinality(T) \in Nat
  BY FS_Subset, FS_CardinalityType
<1>2. PICK n \in bad : \A m \in bad : n <= m
  <2>1. Cardinality(S) \in bad
    BY <1>1
  <2>2. bad \in SUBSET Nat /\ bad # {}
    BY <2>1
  <2> HIDE DEF bad
  <2> QED
    BY <2>2, LeastExists
<1>3. PICK T \in SUBSET S : Cardinality(T) = n /\ ~HasOrdered(R, T)
  BY <1>2
<1>4. T # {}
  <2> SUFFICES ASSUME T = {} PROVE FALSE
    OBVIOUS
  <2>1. Cardinality({}) = 0
    BY FS_EmptySet
  <2>2. <<>> \in SetToSeqs({})
    BY <2>1 DEF SetToSeqs
  <2>3. InOrder(R, <<>>)
    BY DEF InOrder
  <2> QED
    BY <1>3, <2>2, <2>3 DEF HasOrdered
<1>5. PICK m \in T : \A y \in T \ {m} : <<y, m>> \in R
  BY <1>4, FiniteHasLast DEF HasLast
<1> DEFINE T1 == T \ {m}
<1>6. T1 \in SUBSET S /\ Cardinality(T1) = n - 1 /\ Cardinality(T1) \in Nat /\ IsFiniteSet(T1) /\ n \in Nat
  <2>1. IsFiniteSet(T)
    BY <1>1
  <2>2. Cardinality(T \ {m}) = Cardinality(T) - 1
    BY <1>5, <2>1, FS_RemoveElement
  <2> QED
    BY <1>1, <1>3, <2>2
<1>7. HasOrdered(R, T1)
  <2>1. n - 1 \notin bad
    <3> HIDE DEF bad
    <3> QED
      BY <1>2, <1>6
  <2> QED
    BY <1>6, <2>1
<1>8. PICK s \in SetToSeqs(T1) : InOrder(R, s)
  BY <1>7 DEF HasOrdered
<1>9. s \in [1 .. n - 1 -> T1] /\ \A i, j \in 1 .. n - 1 : i # j => s[i] # s[j]
  <2> HIDE DEF T1
  <2> QED
    BY <1>6, <1>8 DEF SetToSeqs
<1> DEFINE s2 == [i \in 1 .. n |-> IF i = n THEN m ELSE s[i]]
<1>10. \A i \in 1 .. n : i # n => i \in 1 .. n - 1
  BY <1>6
<1>11. s2 \in [1 .. n -> T] /\ \A i, j \in 1 .. n : i # j => s2[i] # s2[j]
  BY <1>5, <1>9, <1>10
<1>12. s2 \in SetToSeqs(T)
  <2> HIDE DEF s2
  <2> QED
    BY <1>3, <1>11 DEF SetToSeqs
<1>13. InOrder(R, s2)
  <2> SUFFICES ASSUME NEW i \in 1 .. n, NEW j \in 1 .. n, i < j PROVE <<s2[i], s2[j]>> \in R
    BY DEF InOrder
  <2>1. i \in 1 .. n - 1 /\ s2[i] = s[i] /\ s[i] \in T \ {m}
    BY <1>6, <1>9
  <2>2. CASE j = n
    BY <1>5, <2>1, <2>2
  <2>3. CASE j # n
    <3>1. j \in 1 .. n - 1 /\ s2[j] = s[j]
      BY <1>10, <2>3
    <3>2. DOMAIN s = 1 .. n - 1
      BY <1>9
    <3> QED
      BY <1>8, <2>1, <3>1, <3>2 DEF InOrder
  <2> QED
    BY <2>2, <2>3
<1> QED
  BY <1>3, <1>12, <1>13 DEF HasOrdered

\* The order of a query, as a relation of the entries it selects.
OrderOf(q, map) ==
  {p \in Selected(q, map) \X Selected(q, map) : Before(q, map, p[1], p[2])}

LEMMA QueryOrders ==
  ASSUME NEW q \in Query, NEW map \in Copies
  PROVE  StrictOrder(OrderOf(q, map), Selected(q, map))
<1>1. IP \subseteq Nat /\ Info \subseteq Nat /\ q.order \in {"ip", "-ip", "uploaded", "-uploaded"}
  BY PagesAssumption
<1>2. DOMAIN map \subseteq IP /\ map \in [DOMAIN map -> Info]
  BY CopiesAre
<1>3. \A i \in Selected(q, map) : i \in Nat /\ map[i] \in Nat
  BY <1>1, <1>2 DEF Selected
<1> DEFINE S == Selected(q, map)
           R == OrderOf(q, map)
<1>4. \A i, j \in S : <<i, j>> \in R <=> Before(q, map, i, j)
  BY DEF OrderOf
<1> HIDE DEF S, R
<1>5. CASE q.order = "ip"
  <2>1. \A i, j \in S : <<i, j>> \in R <=> i < j
    BY <1>4, <1>5 DEF Before
  <2> QED
    BY <1>3, <2>1 DEF StrictOrder, S, R
<1>6. CASE q.order = "-ip"
  <2>1. \A i, j \in S : <<i, j>> \in R <=> i > j
    BY <1>4, <1>6 DEF Before
  <2> QED
    BY <1>3, <2>1 DEF StrictOrder, S, R
<1>7. CASE q.order = "uploaded"
  <2>1. \A i, j \in S : <<i, j>> \in R <=> (map[i] < map[j] \/ (map[i] = map[j] /\ i < j))
    <3> SUFFICES ASSUME NEW i \in S, NEW j \in S
                 PROVE  Before(q, map, i, j) <=> (map[i] < map[j] \/ (map[i] = map[j] /\ i < j))
      BY <1>4
    <3>1. CASE map[i] # map[j]
      <4>1. Before(q, map, i, j) <=> map[i] < map[j]
        BY <1>7, <3>1 DEF Before
      <4> QED
        BY <3>1, <4>1
    <3>2. CASE map[i] = map[j]
      <4>1. Before(q, map, i, j) <=> i < j
        BY <1>7, <3>2 DEF Before
      <4>2. map[i] \in Nat
        BY <1>3 DEF S
      <4> QED
        BY <3>2, <4>1, <4>2
    <3> QED
      BY <3>1, <3>2
  <2> QED
    BY <1>3, <2>1 DEF StrictOrder, S, R
<1>8. CASE q.order = "-uploaded"
  <2>1. \A i, j \in S : <<i, j>> \in R <=> (map[i] > map[j] \/ (map[i] = map[j] /\ i < j))
    <3> SUFFICES ASSUME NEW i \in S, NEW j \in S
                 PROVE  Before(q, map, i, j) <=> (map[i] > map[j] \/ (map[i] = map[j] /\ i < j))
      BY <1>4
    <3>1. CASE map[i] # map[j]
      <4>1. Before(q, map, i, j) <=> map[i] > map[j]
        BY <1>8, <3>1 DEF Before
      <4> QED
        BY <3>1, <4>1
    <3>2. CASE map[i] = map[j]
      <4>1. Before(q, map, i, j) <=> i < j
        BY <1>8, <3>2 DEF Before
      <4>2. map[i] \in Nat
        BY <1>3 DEF S
      <4> QED
        BY <3>2, <4>1, <4>2
    <3> QED
      BY <3>1, <3>2
  <2> QED
    BY <1>3, <2>1 DEF StrictOrder, S, R
<1> QED
  BY <1>1, <1>5, <1>6, <1>7, <1>8

(***************************************************************************)
(* What a query lists, for every query and every ban list: a sequence of   *)
(* exactly the entries it selects, each once and in the order asked for    *)
(* (the filter and the sort of WebUI_GetBans).                             *)
(***************************************************************************)
THEOREM ListedInOrder ==
  ASSUME NEW q \in Query, NEW map \in Copies
  PROVE  /\ Listed(q, map) \in Seq(IP \X Info)
         /\ Len(Listed(q, map)) = Cardinality(Selected(q, map))
         /\ ElementsOf(Listed(q, map)) = {<<ip, map[ip]>> : ip \in Selected(q, map)}
         /\ \A m, n \in DOMAIN Listed(q, map) : m < n =>
              Before(q, map, Listed(q, map)[m][1], Listed(q, map)[n][1])
<1> DEFINE S == Selected(q, map)
           R == OrderOf(q, map)
           P(s) == \A m, n \in DOMAIN s : m < n => Before(q, map, s[m], s[n])
           ips == CHOOSE s \in SetToSeqs(S) : P(s)
           list == [n \in DOMAIN ips |-> <<ips[n], map[ips[n]]>>]
<1>1. list = Listed(q, map)
  BY DEF Listed
<1>2. DOMAIN map \subseteq IP /\ map \in [DOMAIN map -> Info] /\ S \subseteq DOMAIN map
  BY CopiesAre DEF Selected
<1>3. IsFiniteSet(S)
  BY <1>2, PagesAssumption, FS_Subset
<1>4. PICK s0 \in SetToSeqs(S) : InOrder(R, s0)
  BY <1>3, QueryOrders, FiniteHasOrdered DEF HasOrdered
<1>5. P(s0)
  <2>1. s0 \in Seq(S)
    BY <1>3, <1>4, SequencesOf
  <2> QED
    BY <1>4, <2>1 DEF InOrder, OrderOf
<1>6. ips \in SetToSeqs(S) /\ P(ips)
  <2> HIDE DEF S
  <2> QED
    BY <1>4, <1>5
<1> HIDE DEF ips
<1>7. /\ ips \in Seq(S) /\ Len(ips) = Cardinality(S) /\ Len(ips) \in Nat /\ ElementsOf(ips) = S
      /\ DOMAIN ips = 1 .. Len(ips)
  BY <1>3, <1>6, SequencesOf, LenProperties
<1>8. \A n \in 1 .. Len(ips) : ips[n] \in S
  BY <1>7 DEF ElementsOf
<1>9. list \in Seq(IP \X Info) /\ Len(list) = Len(ips) /\ DOMAIN list = 1 .. Len(ips)
  <2>1. list \in [1 .. Len(ips) -> IP \X Info]
    BY <1>2, <1>7, <1>8
  <2> HIDE DEF list
  <2> QED
    BY <1>7, <2>1
<1>10. ElementsOf(list) = {<<ip, map[ip]>> : ip \in S}
  <2>1. \A n \in 1 .. Len(ips) : list[n] = <<ips[n], map[ips[n]]>>
    BY <1>7
  <2>2. S = {ips[n] : n \in 1 .. Len(ips)}
    BY <1>7 DEF ElementsOf
  <2>3. ElementsOf(list) = {list[n] : n \in 1 .. Len(ips)}
    BY <1>9 DEF ElementsOf
  <2> HIDE DEF list, S
  <2>4. \A n \in 1 .. Len(ips) : list[n] \in {<<ip, map[ip]>> : ip \in S}
    BY <2>1, <2>2
  <2>5. ASSUME NEW ip \in S PROVE <<ip, map[ip]>> \in ElementsOf(list)
    <3>1. PICK n \in 1 .. Len(ips) : ip = ips[n]
      BY <2>2
    <3>2. list[n] = <<ip, map[ip]>>
      BY <2>1, <3>1
    <3> QED
      BY <2>3, <3>2
  <2> QED
    BY <2>3, <2>4, <2>5
<1>11. \A m, n \in DOMAIN list : m < n => Before(q, map, list[m][1], list[n][1])
  BY <1>6, <1>7
<1> HIDE DEF list
<1> QED
  BY <1>1, <1>7, <1>9, <1>10, <1>11

-----------------------------------------------------------------------------
(***************************************************************************)
(* A cursor names the snapshot its pages were cut from: no two snapshots   *)
(* have one ID, so what is still there under that ID is the same list.     *)
(***************************************************************************)
Entries == Seq(IP \X Info)

Cursors == {NoCursor} \cup [snapshot : 1 .. MaxSnapshot, query : Query, offset : 0 .. Cardinality(IP)]

BrowserRecord ==
  [request : {"none", "sent", "epochRead"}, query : Query, cursor : Cursors,
   epoch : 0 .. MaxEpoch, pages : Entries, list : Entries, done : BOOLEAN]

Snapshots == [id : 0 .. MaxSnapshot, epoch : 0 .. MaxEpoch, peers : Copies, old : BOOLEAN]

\* What a browser has got, with a snapshot and the number of snapshots so far.
BrowserOK(r, snap, last) ==
  /\ Len(r.pages) <= Len(r.list)
  /\ r.pages = SubSeq(r.list, 1, Len(r.pages))
  /\ r.done => r.pages = r.list
  /\ r.cursor # NoCursor =>
       /\ r.cursor.offset = Len(r.pages)
       /\ r.cursor.snapshot <= last
       /\ r.cursor.snapshot = snap.id => r.list = Listed(r.cursor.query, snap.peers)
       /\ r.request = "epochRead" => r.cursor.query = r.query
  /\ r.cursor = NoCursor /\ r.request # "none" => r.pages = <<>>

PagesInv ==
  /\ snapshot \in Snapshots
  /\ snapshots \in 0 .. MaxSnapshot
  /\ snapshot.id <= snapshots
  /\ browser \in [Browser -> BrowserRecord]
  /\ \A b \in Browser : BrowserOK(browser[b], snapshot, snapshots)

LEMMA PageConstants ==
  /\ MaxSnapshot \in Nat \ {0} /\ PageLimit \in Nat \ {0} /\ Cardinality(IP) \in Nat
  /\ (CHOOSE q \in Query : TRUE) \in Query
<1>1. Query # {} /\ IsFiniteSet(IP) /\ MaxSnapshot \in Nat \ {0} /\ PageLimit \in Nat \ {0}
  BY PagesAssumption
<1>2. Cardinality(IP) \in Nat
  BY <1>1, FS_CardinalityType
<1> QED
  BY <1>1, <1>2

LEMMA IdleIs ==
  /\ Idle \in BrowserRecord /\ Idle.cursor = NoCursor /\ Idle.pages = <<>> /\ Idle.list = <<>>
  /\ Idle.done = FALSE
<1>1. <<>> \in Entries
  BY DEF Entries
<1>2. NoCursor \in Cursors
  BY DEF Cursors
<1> QED
  BY <1>1, <1>2, PageConstants, FeedConstants DEF Idle, BrowserRecord

\* Whoever has nothing yet is right.
LEMMA NothingIsOK ==
  ASSUME NEW r, r.cursor = NoCursor, r.pages = <<>>, r.list = <<>>, r.done = FALSE, NEW snap, NEW last
  PROVE  BrowserOK(r, snap, last)
<1>1. Len(<<>>) = 0 /\ SubSeq(<<>>, 1, 0) = <<>>
  BY SubSeqEmpty
<1> QED
  BY <1>1 DEF BrowserOK

LEMMA PagesInvInit == Init => PagesInv
<1> SUFFICES ASSUME PagesInit PROVE PagesInv
  BY DEF Init
<1>1. snapshot \in Snapshots /\ snapshot.id = 0
  <2>1. DOMAIN snapshot.peers = {} /\ snapshot.peers \in [DOMAIN snapshot.peers -> Info]
    BY DEF PagesInit, NoSnapshot
  <2>2. snapshot.peers \in Copies
    BY <2>1, CopiesAre
  <2> QED
    BY <2>2, PageConstants, FeedConstants DEF PagesInit, NoSnapshot, Snapshots
<1>2. \A b \in Browser : browser[b] = Idle
  BY DEF PagesInit
<1>3. \A b \in Browser : browser[b] \in BrowserRecord /\ BrowserOK(browser[b], snapshot, snapshots)
  BY <1>2, IdleIs, NothingIsOK
<1>4. browser \in [Browser -> BrowserRecord]
  BY <1>2, <1>3 DEF PagesInit
<1>5. snapshots = 0 /\ snapshots \in 0 .. MaxSnapshot
  BY PageConstants DEF PagesInit
<1> QED
  BY <1>1, <1>3, <1>4, <1>5 DEF PagesInv

\* A step of one browser, with the snapshot as it is or a new one.
NextSnapshot(snap, last) ==
  /\ snap \in Snapshots /\ last \in 0 .. MaxSnapshot
  /\ \/ last = snapshots /\ snap.id = snapshot.id /\ snap.peers = snapshot.peers
     \/ last = snapshots /\ snap.id = 0
     \/ last = snapshots + 1 /\ snap.id = snapshots + 1

LEMMA OtherStaysOK ==
  ASSUME PagesInv, NEW b \in Browser, NEW snap, NEW last, NextSnapshot(snap, last)
  PROVE  BrowserOK(browser[b], snap, last)
<1> DEFINE r == browser[b]
<1>1. r \in BrowserRecord /\ BrowserOK(r, snapshot, snapshots) /\ snapshots \in 0 .. MaxSnapshot
      /\ snapshots \in Nat /\ snapshots <= last /\ snap.id \in Nat
  BY PageConstants DEF PagesInv, NextSnapshot, Snapshots
<1> HIDE DEF r
<1>2. ASSUME r.cursor # NoCursor
      PROVE  /\ r.cursor.snapshot <= last
             /\ r.cursor.snapshot = snap.id => r.list = Listed(r.cursor.query, snap.peers)
  <2>1. r.cursor \in [snapshot : 1 .. MaxSnapshot, query : Query, offset : 0 .. Cardinality(IP)]
    BY <1>1, <1>2 DEF BrowserRecord, Cursors
  <2>2. r.cursor.snapshot \in Nat /\ r.cursor.snapshot >= 1 /\ r.cursor.snapshot <= snapshots
    BY <1>1, <1>2, <2>1, PageConstants DEF BrowserOK
  <2>3. last \in Nat
    BY PageConstants DEF NextSnapshot
  <2>4. r.cursor.snapshot = snapshot.id => r.list = Listed(r.cursor.query, snapshot.peers)
    BY <1>1, <1>2 DEF BrowserOK
  <2>5. r.cursor.snapshot = snap.id => snap.id = snapshot.id /\ snap.peers = snapshot.peers
    BY <1>1, <2>2 DEF NextSnapshot
  <2> QED
    BY <1>1, <2>2, <2>3, <2>4, <2>5
<1> QED
  BY <1>1, <1>2 DEF BrowserOK, r

LEMMA PageStepKeeps ==
  ASSUME PagesInv, NEW b \in Browser, NEW r, r \in BrowserRecord,
         NextSnapshot(snapshot', snapshots'), BrowserOK(r, snapshot', snapshots'),
         browser' = [browser EXCEPT ![b] = r]
  PROVE  PagesInv'
<1>1. browser' \in [Browser -> BrowserRecord]
  BY DEF PagesInv
<1>2. ASSUME NEW c \in Browser PROVE BrowserOK(browser'[c], snapshot', snapshots')
  <2>1. CASE c = b
    BY <2>1 DEF PagesInv
  <2>2. CASE c # b
    <3>1. browser'[c] = browser[c]
      BY <2>2 DEF PagesInv
    <3> QED
      BY <3>1, OtherStaysOK
  <2> QED
    BY <2>1, <2>2
<1>3. snapshot' \in Snapshots /\ snapshots' \in 0 .. MaxSnapshot /\ snapshot'.id <= snapshots'
  BY PageConstants DEF PagesInv, NextSnapshot
<1> QED
  BY <1>1, <1>2, <1>3 DEF PagesInv

\* A list has no more entries than there are IPs.
LEMMA ListedType ==
  ASSUME NEW q \in Query, NEW map \in Copies
  PROVE  /\ Listed(q, map) \in Entries
         /\ Len(Listed(q, map)) \in Nat
         /\ Len(Listed(q, map)) <= Cardinality(IP)
<1>1. Selected(q, map) \subseteq IP
  BY CopiesAre DEF Selected
<1>2. Cardinality(Selected(q, map)) <= Cardinality(IP)
  BY <1>1, PagesAssumption, FS_Subset
<1>3. Listed(q, map) \in Seq(IP \X Info) /\ Len(Listed(q, map)) = Cardinality(Selected(q, map))
  BY ListedInOrder
<1> QED
  BY <1>2, <1>3, LenProperties DEF Entries

\* The next page continues what the browser has got.
LEMMA PageContinues ==
  ASSUME NEW b \in Browser, browser[b] \in BrowserRecord, browser[b].request = "epochRead",
         NEW snap \in Snapshots, snap.id # 0, NEW last \in 0 .. MaxSnapshot, snap.id <= last,
         BrowserOK(browser[b], snap, last),
         GoodFor(browser[b].cursor, snap),
         browser[b].cursor.offset <= Len(Listed(browser[b].query, snap.peers))
  PROVE  Page(b, snap) \in BrowserRecord /\ BrowserOK(Page(b, snap), snap, last)
<1> DEFINE r == browser[b]
           list == Listed(r.query, snap.peers)
           end == IF r.cursor.offset + PageLimit > Len(list) THEN Len(list)
                  ELSE r.cursor.offset + PageLimit
           pages == r.pages \o SubSeq(list, r.cursor.offset + 1, end)
           full == IF r.cursor = NoCursor THEN list ELSE r.list
           cur == IF end = Len(list) THEN NoCursor
                  ELSE [snapshot |-> snap.id, query |-> r.query, offset |-> end]
           next == [r EXCEPT !.request = "none", !.epoch = 0, !.pages = pages, !.list = full,
                             !.done = (end = Len(list)), !.cursor = cur]
<1>1. next = Page(b, snap)
  BY DEF Page
<1>2. r \in BrowserRecord /\ r.query \in Query /\ snap.peers \in Copies /\ snap.id \in 1 .. MaxSnapshot
  BY PageConstants DEF BrowserRecord, Snapshots
<1>3. list \in Entries /\ Len(list) \in Nat /\ Len(list) <= Cardinality(IP)
  BY <1>2, ListedType
<1>4. r.cursor.offset \in 0 .. Len(list) /\ Len(r.pages) = r.cursor.offset
      /\ r.pages = SubSeq(list, 1, r.cursor.offset) /\ full = list
  <2>1. CASE r.cursor = NoCursor
    <3>1. r.cursor.offset = 0 /\ r.pages = <<>> /\ full = list
      BY <2>1 DEF BrowserOK, NoCursor
    <3>2. SubSeq(list, 1, 0) = <<>> /\ Len(<<>>) = 0
      BY SubSeqEmpty
    <3> HIDE DEF list, full
    <3> QED
      BY <1>3, <3>1, <3>2
  <2>2. CASE r.cursor # NoCursor
    <3>1. r.cursor \in [snapshot : 1 .. MaxSnapshot, query : Query, offset : 0 .. Cardinality(IP)]
      BY <1>2, <2>2 DEF BrowserRecord, Cursors
    <3>2. r.cursor.snapshot = snap.id
      BY <3>1, PageConstants DEF GoodFor
    <3>3. r.list = list /\ r.cursor.offset = Len(r.pages) /\ r.pages = SubSeq(r.list, 1, Len(r.pages))
      BY <2>2, <3>2 DEF BrowserOK
    <3>4. r.cursor.offset \in Nat
      BY <3>1, PageConstants
    <3> QED
      BY <1>3, <2>2, <3>3, <3>4
  <2> QED
    BY <2>1, <2>2
<1> HIDE DEF list
<1>5. end \in r.cursor.offset .. Len(list) /\ end \in Nat
  BY <1>3, <1>4, PageConstants
<1> HIDE DEF end, full
<1>6. pages = SubSeq(list, 1, end)
  <2> DEFINE offset == r.cursor.offset
  <2>1. list \in Seq(IP \X Info) /\ 1 \in 1 .. Len(list) + 1
    BY <1>3 DEF Entries
  <2>2. offset \in 1 - 1 .. Len(list) /\ end \in offset .. Len(list)
    BY <1>3, <1>4, <1>5
  <2>3. r.pages = SubSeq(list, 1, offset)
    BY <1>4
  <2> HIDE DEF offset
  <2>4. SubSeq(list, 1, offset) \o SubSeq(list, offset + 1, end) = SubSeq(list, 1, end)
    BY <2>1, <2>2, ConcatAdjacentSubSeq
  <2> QED
    BY <2>3, <2>4 DEF offset
<1> HIDE DEF pages
<1>7. pages \in Entries /\ Len(pages) = end
  <2>1. \A i \in 1 .. end : list[i] \in IP \X Info
    BY <1>3, <1>5, ElementOfSeq DEF Entries
  <2>2. SubSeq(list, 1, end) \in Seq(IP \X Info) /\ Len(SubSeq(list, 1, end)) = end
    BY <1>5, <2>1, SubSeqProperties
  <2> QED
    BY <1>6, <2>2 DEF Entries
<1>8. end = Len(list) => pages = list
  <2>1. list \in Seq(IP \X Info)
    BY <1>3 DEF Entries
  <2>2. SubSeq(list, 1, Len(list)) = list
    BY <2>1, SubSeqFull
  <2> QED
    BY <1>6, <2>2
<1>9. cur \in Cursors
  <2>1. CASE end = Len(list)
    BY <2>1 DEF Cursors
  <2>2. CASE end # Len(list)
    <3>1. end \in 0 .. Cardinality(IP)
      BY <1>3, <1>5, PageConstants
    <3> QED
      BY <1>2, <2>2, <3>1 DEF Cursors
  <2> QED
    BY <2>1, <2>2
<1>10. /\ next.request = "none" /\ next.pages = pages /\ next.list = full /\ next.epoch = 0
       /\ next.done = (end = Len(list)) /\ next.cursor = cur /\ next.query = r.query
  BY <1>2 DEF BrowserRecord
<1>11. next \in BrowserRecord
  <2>1. 0 \in 0 .. MaxEpoch
    BY FeedConstants
  <2>2. full \in Entries /\ (end = Len(list)) \in BOOLEAN
    BY <1>3, <1>4
  <2> HIDE DEF cur
  <2> QED
    BY <1>2, <1>7, <1>9, <2>1, <2>2 DEF BrowserRecord
<1>12. cur # NoCursor => cur = [snapshot |-> snap.id, query |-> r.query, offset |-> end]
  OBVIOUS
<1> HIDE DEF next, cur
<1>13. next.cursor # NoCursor =>
         /\ next.cursor.offset = end /\ next.cursor.snapshot = snap.id /\ next.cursor.query = r.query
  BY <1>10, <1>12
<1>14. BrowserOK(next, snap, last)
  <2>1. Len(next.pages) <= Len(next.list)
    BY <1>3, <1>4, <1>5, <1>7, <1>10
  <2>2. next.pages = SubSeq(next.list, 1, Len(next.pages))
    BY <1>4, <1>6, <1>7, <1>10
  <2>3. next.done => next.pages = next.list
    BY <1>4, <1>8, <1>10
  <2>4. list = Listed(r.query, snap.peers)
    BY DEF list
  <2> HIDE DEF r
  <2>5. next.cursor # NoCursor =>
          /\ next.cursor.offset = Len(next.pages)
          /\ next.cursor.snapshot <= last
          /\ next.list = Listed(next.cursor.query, snap.peers)
    BY <1>4, <1>7, <1>10, <1>13, <2>4
  <2> QED
    BY <1>10, <2>1, <2>2, <2>3, <2>5 DEF BrowserOK
<1> QED
  BY <1>1, <1>11, <1>14

LEMMA AskKeeps ==
  ASSUME PagesInv, NEW b \in Browser, Ask(b)
  PROVE  PagesInv'
<1> DEFINE r == browser[b]
<1>1. r \in BrowserRecord /\ BrowserOK(r, snapshot, snapshots)
  BY DEF PagesInv
<1>2. NextSnapshot(snapshot', snapshots') /\ snapshot' = snapshot /\ snapshots' = snapshots
  BY DEF Ask, PagesInv, NextSnapshot
<1>3. ASSUME NEW q \in Query, r.cursor # NoCursor,
             browser' = [browser EXCEPT ![b].request = "sent", ![b].query = q]
      PROVE  PagesInv'
  <2> DEFINE r2 == [r EXCEPT !.request = "sent", !.query = q]
  <2>1. browser' = [browser EXCEPT ![b] = r2]
    BY <1>1, <1>3 DEF PagesInv, BrowserRecord
  <2>2. r2 \in BrowserRecord /\ r2.request = "sent" /\ r2.cursor = r.cursor /\ r2.pages = r.pages
        /\ r2.list = r.list /\ r2.done = r.done
    BY <1>1 DEF BrowserRecord
  <2> HIDE DEF r2, r
  <2>3. BrowserOK(r2, snapshot, snapshots)
    BY <1>1, <1>3, <2>2 DEF BrowserOK
  <2> QED
    BY <1>2, <2>1, <2>2, <2>3, PageStepKeeps
<1>4. ASSUME NEW q \in Query, browser' = [browser EXCEPT ![b] = [Idle EXCEPT !.request = "sent", !.query = q]]
      PROVE  PagesInv'
  <2> DEFINE r2 == [Idle EXCEPT !.request = "sent", !.query = q]
  <2>1. r2 \in BrowserRecord /\ r2.cursor = NoCursor /\ r2.pages = <<>> /\ r2.list = <<>> /\ r2.done = FALSE
    BY IdleIs DEF BrowserRecord
  <2>2. browser' = [browser EXCEPT ![b] = r2]
    BY <1>4
  <2> HIDE DEF r2
  <2>3. BrowserOK(r2, snapshot', snapshots')
    BY <2>1, NothingIsOK
  <2> QED
    BY <1>2, <2>1, <2>2, <2>3, PageStepKeeps
<1> QED
  BY <1>3, <1>4 DEF Ask

\* A refused browser starts over.
LEMMA RefusalKeeps ==
  ASSUME PagesInv, NEW b \in Browser, NextSnapshot(snapshot', snapshots'),
         browser' = [browser EXCEPT ![b] = Idle]
  PROVE  PagesInv'
BY IdleIs, NothingIsOK, PageStepKeeps

LEMMA ReadEpochKeeps ==
  ASSUME RingInv, PagesInv, NEW b \in Browser, ReadEpoch(b)
  PROVE  PagesInv'
<1> DEFINE r == browser[b]
<1>1. r \in BrowserRecord /\ BrowserOK(r, snapshot, snapshots)
  BY DEF PagesInv
<1>2. NextSnapshot(snapshot', snapshots') /\ snapshot' = snapshot /\ snapshots' = snapshots
  BY DEF ReadEpoch, PagesInv, NextSnapshot
<1>3. CASE r.cursor # NoCursor /\ r.cursor.query # r.query
  BY <1>2, <1>3, RefusalKeeps DEF ReadEpoch
<1>4. CASE r.cursor = NoCursor \/ r.cursor.query = r.query
  <2> DEFINE r2 == [r EXCEPT !.request = "epochRead", !.epoch = epoch]
  <2>1. browser' = [browser EXCEPT ![b] = r2]
    BY <1>1, <1>4 DEF PagesInv, BrowserRecord, ReadEpoch
  <2>2. epoch \in 0 .. MaxEpoch
    BY FeedConstants DEF RingInv, ListTypeOK
  <2>3. r2 \in BrowserRecord /\ r2.request = "epochRead" /\ r2.cursor = r.cursor /\ r2.pages = r.pages
        /\ r2.list = r.list /\ r2.done = r.done /\ r2.query = r.query /\ r.request = "sent"
    BY <1>1, <2>2 DEF BrowserRecord, ReadEpoch
  <2> HIDE DEF r2, r
  <2>4. BrowserOK(r2, snapshot, snapshots)
    BY <1>1, <1>4, <2>3 DEF BrowserOK
  <2> QED
    BY <1>2, <2>1, <2>3, <2>4, PageStepKeeps
<1> QED
  BY <1>3, <1>4

\* The handlers' snapshot: the one there is, or a new one of the list as it is.
LEMMA RenewedIsNext ==
  ASSUME RingInv, PagesInv, NEW e \in 0 .. MaxEpoch, NEW snap, snap = RenewedSnapshot(e),
         snap.id <= MaxSnapshot, NEW last, last = IF snap.id > snapshots THEN snap.id ELSE snapshots
  PROVE  NextSnapshot(snap, last) /\ snap.id # 0 /\ snap.id <= last
<1>1. snapshot \in Snapshots /\ snapshots \in 0 .. MaxSnapshot /\ snapshot.id <= snapshots /\ peers \in Copies
      /\ snapshots \in Nat /\ snapshot.id \in Nat
  BY PageConstants DEF PagesInv, RingInv, ListTypeOK, Snapshots
<1>2. CASE snap = snapshot /\ snapshot.id # 0
  <2>1. last = snapshots
    BY <1>1, <1>2
  <2> QED
    BY <1>1, <1>2, <2>1 DEF NextSnapshot
<1>3. CASE snap = [id |-> snapshots + 1, epoch |-> e, peers |-> BlockPeers, old |-> FALSE]
  <2>1. snap.id = snapshots + 1 /\ last = snapshots + 1
    BY <1>1, <1>3
  <2>2. last \in 0 .. MaxSnapshot
    BY <1>1, <2>1, PageConstants
  <2>3. snap \in Snapshots
    BY <1>1, <1>3, <2>1, <2>2 DEF Snapshots, BlockPeers
  <2> QED
    BY <1>1, <2>1, <2>2, <2>3 DEF NextSnapshot
<1> QED
  BY <1>2, <1>3 DEF RenewedSnapshot

LEMMA AnswerPageKeeps ==
  ASSUME RingInv, PagesInv, NEW b \in Browser, AnswerPage(b)
  PROVE  PagesInv'
<1> DEFINE r == browser[b]
           snap == RenewedSnapshot(r.epoch)
<1>1. r \in BrowserRecord /\ r.epoch \in 0 .. MaxEpoch /\ r.request = "epochRead"
  BY DEF PagesInv, BrowserRecord, AnswerPage
<1>2. /\ snapshot' = snap /\ snap.id <= MaxSnapshot
      /\ snapshots' = IF snap.id > snapshots THEN snap.id ELSE snapshots
      /\ browser' = [browser EXCEPT ![b] =
           IF GoodFor(r.cursor, snap) /\ r.cursor.offset <= Len(Listed(r.query, snap.peers))
           THEN Page(b, snap) ELSE Idle]
  BY DEF AnswerPage
<1>3. NextSnapshot(snap, snapshots') /\ snap.id # 0 /\ snap.id <= snapshots'
  BY <1>1, <1>2, RenewedIsNext
<1> HIDE DEF snap
<1>4. CASE GoodFor(r.cursor, snap) /\ r.cursor.offset <= Len(Listed(r.query, snap.peers))
  <2>1. BrowserOK(r, snap, snapshots')
    BY <1>3, OtherStaysOK
  <2>2. snap \in Snapshots /\ snapshots' \in 0 .. MaxSnapshot
    BY <1>3 DEF NextSnapshot
  <2>3. Page(b, snap) \in BrowserRecord /\ BrowserOK(Page(b, snap), snap, snapshots')
    BY <1>1, <1>3, <1>4, <2>1, <2>2, PageContinues
  <2>4. browser' = [browser EXCEPT ![b] = Page(b, snap)]
    BY <1>2, <1>4
  <2> QED
    BY <1>2, <1>3, <2>3, <2>4, PageStepKeeps
<1>5. CASE ~(GoodFor(r.cursor, snap) /\ r.cursor.offset <= Len(Listed(r.query, snap.peers)))
  BY <1>2, <1>3, <1>5, RefusalKeeps
<1> QED
  BY <1>4, <1>5

\* What leaves the browsers alone, as far as the pages go.
LEMMA SnapshotStepKeeps ==
  ASSUME PagesInv, NextSnapshot(snapshot', snapshots'), UNCHANGED browser
  PROVE  PagesInv'
<1>1. \A b \in Browser : BrowserOK(browser[b], snapshot', snapshots')
  BY OtherStaysOK
<1>2. snapshot' \in Snapshots /\ snapshots' \in 0 .. MaxSnapshot /\ snapshot'.id <= snapshots'
  BY PageConstants DEF PagesInv, NextSnapshot
<1> QED
  BY <1>1, <1>2 DEF PagesInv

LEMMA SnapshotAgesKeeps ==
  ASSUME PagesInv, SnapshotAges
  PROVE  PagesInv'
<1>1. snapshot' \in Snapshots /\ snapshot'.id = snapshot.id /\ snapshot'.peers = snapshot.peers
  BY DEF SnapshotAges, PagesInv, Snapshots
<1> QED
  BY <1>1, SnapshotStepKeeps DEF SnapshotAges, NextSnapshot, PagesInv

LEMMA OthersAskKeeps ==
  ASSUME RingInv, PagesInv, OthersAsk
  PROVE  PagesInv'
<1> DEFINE snap == RenewedSnapshot(epoch)
<1>1. snapshots < snap.id /\ snap.id <= MaxSnapshot /\ snapshot' = snap /\ snapshots' = snap.id
  BY DEF OthersAsk
<1>2. epoch \in 0 .. MaxEpoch
  BY FeedConstants DEF RingInv, ListTypeOK
<1>3. snapshots \in Nat /\ snapshot.id \in Nat
  BY PageConstants DEF PagesInv, Snapshots
<1>4. snap.id \in Nat
  BY <1>3 DEF RenewedSnapshot
<1> HIDE DEF snap
<1>5. snapshots' = IF snap.id > snapshots THEN snap.id ELSE snapshots
  BY <1>1, <1>3, <1>4
<1>6. NextSnapshot(snap, snapshots')
  BY <1>1, <1>2, <1>5, RenewedIsNext DEF snap
<1> QED
  BY <1>1, <1>6, SnapshotStepKeeps DEF OthersAsk

LEMMA PagesRestartKeeps ==
  ASSUME PagesInv, PagesRestart
  PROVE  PagesInv'
<1>1. NextSnapshot(snapshot', snapshots') /\ snapshots' = snapshots /\ snapshot'.id = 0
  <2>1. DOMAIN NoSnapshot.peers = {} /\ NoSnapshot.peers \in [DOMAIN NoSnapshot.peers -> Info]
    BY DEF NoSnapshot
  <2>2. NoSnapshot.peers \in Copies
    BY <2>1, CopiesAre
  <2>3. NoSnapshot \in Snapshots /\ NoSnapshot.id = 0
    BY <2>2, PageConstants, FeedConstants DEF NoSnapshot, Snapshots
  <2> QED
    BY <2>3 DEF PagesRestart, NextSnapshot, PagesInv
<1>2. ASSUME NEW b \in Browser
      PROVE  browser'[b] \in BrowserRecord /\ BrowserOK(browser'[b], snapshot', snapshots')
  <2> DEFINE r == browser[b]
             r2 == [r EXCEPT !.request = "none", !.epoch = 0]
  <2>1. r \in BrowserRecord /\ BrowserOK(r, snapshot', snapshots')
    BY <1>1, OtherStaysOK DEF PagesInv
  <2>2. r2 \in BrowserRecord /\ r2.request = "none" /\ r2.cursor = r.cursor /\ r2.pages = r.pages
        /\ r2.list = r.list /\ r2.done = r.done
    <3>1. 0 \in 0 .. MaxEpoch
      BY FeedConstants
    <3> QED
      BY <2>1, <3>1 DEF BrowserRecord
  <2>3. browser'[b] = r2
    BY DEF PagesRestart
  <2> HIDE DEF r2, r
  <2>4. BrowserOK(r2, snapshot', snapshots')
    BY <2>1, <2>2 DEF BrowserOK
  <2> QED
    BY <2>2, <2>3, <2>4
<1>3. browser' \in [Browser -> BrowserRecord]
  BY <1>2 DEF PagesRestart
<1>4. snapshot' \in Snapshots /\ snapshots' \in 0 .. MaxSnapshot /\ snapshot'.id <= snapshots'
  BY <1>1, PageConstants DEF NextSnapshot
<1> QED
  BY <1>2, <1>3, <1>4 DEF PagesInv

LEMMA PagesInvNext == FeedInv /\ PagesInv /\ [Next]_vars => PagesInv'
<1> SUFFICES ASSUME FeedInv, PagesInv, [Next]_vars PROVE PagesInv'
  OBVIOUS
<1>0. RingInv
  BY DEF FeedInv
<1>1. CASE UNCHANGED pageVars
  BY <1>1 DEF pageVars, PagesInv
<1>2. CASE Restarts
  BY <1>2, PagesRestartKeeps DEF Restarts
<1>3. CASE Browses
  BY <1>0, <1>3, SnapshotAgesKeeps, OthersAskKeeps, AskKeeps, ReadEpochKeeps, AnswerPageKeeps
  DEF Browses, BrowserStep
<1>4. Restarts \/ Browses \/ UNCHANGED pageVars
  BY DEF Next, vars, Changes, Records, Reloads, Resets, Polls, Logs
<1> QED
  BY <1>1, <1>2, <1>3, <1>4

(***************************************************************************)
(* The pages a browser follows to the end show the ban list as it was at   *)
(* one moment, each entry once and in order, for every list, every page    *)
(* limit and any number of browsers, however the snapshot is renewed       *)
(* (webui_bans.go).                                                        *)
(***************************************************************************)
THEOREM BansPaged == Spec => []BansPages
<1>1. PagesInv => BansPages
  BY DEF PagesInv, BrowserOK, BansPages
<1> QED
  BY <1>1, FeedInvInit, FeedInvNext, PagesInvInit, PagesInvNext, PTL DEF Spec

-----------------------------------------------------------------------------
(***************************************************************************)
(* The types of the whole, from the three invariants.                      *)
(***************************************************************************)
LEMMA TypesOfParts == FeedInv /\ PagesInv /\ LogInv => FeedTypeOK /\ PagesTypeOK /\ LogsTypeOK
<1> SUFFICES ASSUME FeedInv, PagesInv, LogInv PROVE FeedTypeOK /\ PagesTypeOK /\ LogsTypeOK
  OBVIOUS
<1>1. FeedTypeOK
  <2>1. ListTypeOK
    BY DEF FeedInv, RingInv
  <2>2. \A p \in Poller : poller[p] \in PollerRecord
    BY DEF FeedInv, PollersInv
  <2> QED
    BY <2>1, <2>2 DEF FeedTypeOK, ListTypeOK, PollerRecord
<1>2. PagesTypeOK
  <2>1. snapshot \in Snapshots /\ snapshots \in 0 .. MaxSnapshot
    BY DEF PagesInv
  <2>2. ASSUME NEW b \in Browser
        PROVE  /\ browser[b].request \in {"none", "sent", "epochRead"}
               /\ browser[b].query \in Query
               /\ browser[b].cursor \in Cursors
               /\ browser[b].pages \in Seq(IP \X Info)
    <3>1. browser[b] \in BrowserRecord
      BY DEF PagesInv
    <3> QED
      BY <3>1 DEF BrowserRecord, Entries
  <2>3. \A c \in Cursors : c.snapshot \in 0 .. MaxSnapshot /\ c.offset \in 0 .. Cardinality(IP)
    BY PageConstants DEF Cursors, NoCursor
  <2> QED
    BY <2>1, <2>2, <2>3 DEF PagesTypeOK, Snapshots
<1> QED
  BY <1>1, <1>2 DEF LogInv

(***************************************************************************)
(* The ring of events never outgrows its capacity nor its start leaves it, *)
(* every event, copy and page is of IPs that can be banned, and no page's  *)
(* cursor counts more entries than there are IPs (webui.go, webui_bans.go, *)
(* webui_logs.go).                                                         *)
(***************************************************************************)
THEOREM Types == Spec => []TypeOK
<1> DEFINE Kind == readers \in {"pollers", "browsers", "logs"}
<1>1. Init => Kind
  BY DEF Init
<1>2. Kind /\ [Next]_vars => Kind'
  <2> SUFFICES ASSUME Kind, [Next]_vars PROVE Kind'
    OBVIOUS
  <2>1. UNCHANGED readers
    BY DEF Next, vars, Changes, Records, Reloads, Resets, Restarts, Polls, Browses, Logs, List
  <2> QED
    BY <2>1
<1>3. Kind /\ FeedInv /\ PagesInv /\ LogInv => TypeOK
  BY TypesOfParts DEF TypeOK
<1> HIDE DEF Kind
<1> QED
  BY <1>1, <1>2, <1>3, FeedInvInit, FeedInvNext, PagesInvInit, PagesInvNext, LogInvInit, LogInvNext, PTL
  DEF Spec
=============================================================================
