--------------------------- MODULE ScanTaskProofs ---------------------------
(***************************************************************************)
(* Proofs about the main loop, for every set of clients, peers,            *)
(* configurations and observations.                                        *)
(***************************************************************************)
EXTENDS ScanTask, BanListProofs

(***************************************************************************)
(* The main loop uses the ban list as BanSpec says: every step of it is an *)
(* operation of the ban list or leaves it alone.                           *)
(***************************************************************************)
LEMMA StepUsesBanList == [Next]_vars => [BanNext]_banListVars
<1> SUFFICES ASSUME [Next]_vars PROVE [BanNext]_banListVars
  OBVIOUS
<1> USE DEF banListVars, banVars
<1>1. ASSUME NEW d \in Pauses, Tick(d) PROVE BanNext
  BY <1>1 DEF Tick, BanNext
<1>2. ASSUME NEW c, LoadInitConfig(c) PROVE BanNext
  <2>1. config' \in Configs /\ UNCHANGED banVars
    BY <1>2 DEF LoadInitConfig, KeepClient, DetectFails, LoginFails, Connect, Reload
  <2> QED
    BY <2>1 DEF BanNext
<1>3. CASE FetchSucceeds \/ FetchFails
  BY <1>3 DEF FetchSucceeds, FetchFails
<1>4. CASE Clear
  BY <1>4 DEF Clear, BanNext
<1>5. ASSUME NEW ip \in IP, NEW o \in Sample, ProcessBannedPeer(ip, o) PROVE BanNext
  BY <1>5 DEF ProcessBannedPeer, BanNext
<1>6. ASSUME NEW ip \in IP, NEW o \in Sample, ProcessBadPeer(ip, o) PROVE BanNext
  BY <1>6 DEF ProcessBadPeer, BanNext
<1>7. CASE EndScan \/ AbortScan \/ EndTask
  BY <1>7 DEF EndScan, AbortScan, EndTask
<1>8. ASSUME NEW ip \in IP, StatisticsBan(ip) PROVE BanNext
  BY <1>8 DEF StatisticsBan, BanNext
<1>9. CASE NoSubmission \/ SubmitSucceeds \/ SubmitFails
  BY <1>9 DEF NoSubmission, SubmitSucceeds, SubmitFails
<1>10. CASE ReqStop \/ Stop \/ Stopped \/ UNCHANGED vars
  BY <1>10 DEF ReqStop, Stop, Stopped, vars
<1> QED
  BY <1>1, <1>2, <1>3, <1>4, <1>5, <1>6, <1>7, <1>8, <1>9, <1>10 DEF Next, Scan

(***************************************************************************)
(* The main loop implements the ban list by itself, so that whatever is    *)
(* proved of BanSpec holds of the program: the two maps agree and every    *)
(* clean-up is complete.                                                   *)
(***************************************************************************)
THEOREM LoopImplementsBanList == Spec => BanSpec
<1>1. Init => BanInit
  BY DEF Init
<1> QED
  BY <1>1, StepUsesBanList, PTL DEF Spec, BanSpec

(***************************************************************************)
(* So bans are leases in the whole program: no scan, reload, retry or stop *)
(* request lifts a ban whose lease lasts, or lets a clean-up spare another.*)
(***************************************************************************)
THEOREM LoopKeepsLeases == Spec => LeasesKept
BY LoopImplementsBanList, BansAreLeases

-----------------------------------------------------------------------------
\* What the loop adds to the types of the ban list.
LoopTypeOK ==
  /\ client \in ClientConfig
  /\ phase \in Phase
  /\ lastURL \in URL \cup {NoURL}
  /\ driver \in Kind \cup {NoClient}
  /\ changed \in BOOLEAN
  /\ submission \in [pending : BOOLEAN, delay : 0 .. MaxDelay, wait : 0 .. MaxDelay]
  /\ stopping \in BOOLEAN
  /\ clientBans \in [URL -> SUBSET IP]
  /\ confirmed \in BOOLEAN

LEMMA IdleType == Idle \in [pending : BOOLEAN, delay : 0 .. MaxDelay, wait : 0 .. MaxDelay]
BY MaxDelayAssumption DEF Idle

LEMMA LoopTypeInit == Init => LoopTypeOK
BY ClientAssumption, IdleType DEF Init, LoopTypeOK, Phase

\* A new configuration is well typed, and a URL that is not the one last
\* connected to is the URL of some client.
LEMMA ReloadType ==
  ASSUME LoopTypeOK, NEW c \in ClientConfigs \cup {client}, Reload(c)
  PROVE  /\ client' \in ClientConfig
         /\ client'.url # lastURL => client'.url \in URL /\ KindOf[client'.url] \in Kind
BY ClientAssumption DEF LoopTypeOK, Reload, ClientConfig, Kind

LEMMA NextDelayType ==
  ASSUME LoopTypeOK
  PROVE  NextDelay \in 1 .. MaxDelay
BY MaxDelayAssumption DEF LoopTypeOK, NextDelay

LEMMA LoopTypeNext == LoopTypeOK /\ BanInv /\ [Next]_vars => LoopTypeOK'
<1> SUFFICES ASSUME LoopTypeOK, BanInv, [Next]_vars PROVE LoopTypeOK'
  OBVIOUS
<1> USE DEF clientVars, Goto
<1>1. ASSUME NEW d \in Pauses, Tick(d) PROVE LoopTypeOK'
  <2>1. submission' \in [pending : BOOLEAN, delay : 0 .. MaxDelay, wait : 0 .. MaxDelay]
    BY <1>1, PausesAssumption, MaxAgeAssumption, MaxDelayAssumption DEF Tick, LoopTypeOK
  <2> QED
    BY <1>1, <2>1 DEF Tick, LoopTypeOK, Phase
<1>2. ASSUME NEW c \in ClientConfigs \cup {client}, LoadInitConfig(c) PROVE LoopTypeOK'
  <2>1. Reload(c)
    BY <1>2 DEF LoadInitConfig, KeepClient, DetectFails, LoginFails, Connect
  <2>2. CASE KeepClient(c)
    BY <2>1, <2>2, ReloadType DEF KeepClient, Proceed, LoopTypeOK, Phase
  <2>3. CASE DetectFails(c)
    BY <2>1, <2>3, ReloadType DEF DetectFails, GiveUp, LoopTypeOK, Phase
  <2>4. CASE LoginFails(c)
    BY <2>1, <2>4, ReloadType DEF LoginFails, GiveUp, LoopTypeOK, Phase
  <2>5. CASE Connect(c)
    <3>1. submission' \in [pending : BOOLEAN, delay : 0 .. MaxDelay, wait : 0 .. MaxDelay]
      BY <2>5, MaxDelayAssumption DEF Connect, LoopTypeOK
    <3> QED
      BY <2>1, <2>5, <3>1, ReloadType DEF Connect, Proceed, LoopTypeOK, Phase
  <2> QED
    BY <1>2, <2>2, <2>3, <2>4, <2>5 DEF LoadInitConfig
<1>3. CASE FetchSucceeds
  BY <1>3 DEF FetchSucceeds, LoopTypeOK, Phase
<1>4. CASE FetchFails
  BY <1>4 DEF FetchFails, LoopTypeOK, Phase
<1>5. CASE Clear
  BY <1>5 DEF Clear, LoopTypeOK, Phase
<1>6. CASE Scan
  <2>1. ASSUME NEW ip \in IP, NEW o \in Sample,
               ProcessBannedPeer(ip, o) \/ ProcessBadPeer(ip, o)
        PROVE  LoopTypeOK'
    BY <2>1 DEF ProcessBannedPeer, ProcessBadPeer, LoopTypeOK, Phase
  <2>2. CASE EndScan \/ AbortScan
    BY <2>2 DEF EndScan, AbortScan, LoopTypeOK, Phase
  <2>3. ASSUME NEW ip \in IP, StatisticsBan(ip) PROVE LoopTypeOK'
    BY <2>3 DEF StatisticsBan, LoopTypeOK, Phase
  <2>4. CASE EndTask
    BY <2>4 DEF EndTask, LoopTypeOK, Phase
  <2> QED
    BY <1>6, <2>1, <2>2, <2>3, <2>4 DEF Scan
<1>7. CASE NoSubmission
  BY <1>7 DEF NoSubmission, LoopTypeOK, Phase
<1>8. CASE SubmitSucceeds
  <2>1. clientBans' \in [URL -> SUBSET IP]
    BY <1>8, BanInvSplit DEF SubmitSucceeds, LoopTypeOK
  <2> QED
    BY <1>8, <2>1, MaxDelayAssumption DEF SubmitSucceeds, LoopTypeOK, Phase, Idle
<1>9. CASE SubmitFails
  <2>1. submission' \in [pending : BOOLEAN, delay : 0 .. MaxDelay, wait : 0 .. MaxDelay]
    <3>1. NextDelay \in 0 .. MaxDelay
      BY NextDelayType, MaxDelayAssumption
    <3>2. submission' = [submission EXCEPT !.delay = NextDelay, !.wait = NextDelay]
      BY <1>9 DEF SubmitFails
    <3> QED
      BY <3>1, <3>2 DEF LoopTypeOK
  <2>2. clientBans' \in [URL -> SUBSET IP]
    <3>1. PICK applied \in SUBSET (Banned \cup clientBans[lastURL]) :
            clientBans' = [clientBans EXCEPT ![lastURL] = applied]
      BY <1>9 DEF SubmitFails
    <3>2. CASE lastURL \in URL
      BY <3>1, <3>2, BanInvSplit DEF LoopTypeOK
    <3>3. CASE lastURL \notin URL
      BY <3>1, <3>3 DEF LoopTypeOK
    <3> QED
      BY <3>2, <3>3
  <2> QED
    BY <1>9, <2>1, <2>2 DEF SubmitFails, LoopTypeOK, Phase
<1>10. CASE ReqStop \/ Stop \/ Stopped \/ UNCHANGED vars
  BY <1>10 DEF ReqStop, Stop, Stopped, vars, LoopTypeOK, Phase
<1> QED
  BY <1>1, <1>2, <1>3, <1>4, <1>5, <1>6, <1>7, <1>8, <1>9, <1>10 DEF Next

(***************************************************************************)
(* Every variable of the program keeps its type.                           *)
(***************************************************************************)
THEOREM TypesKept == Spec => []TypeOK
<1>1. Init => BanInv /\ LoopTypeOK
  BY BanInvInit, LoopTypeInit DEF Init
<1>2. BanInv /\ LoopTypeOK /\ [Next]_vars => (BanInv /\ LoopTypeOK)'
  BY StepUsesBanList, BanInvNext, LoopTypeNext
<1>3. BanInv /\ LoopTypeOK => TypeOK
  BY DEF BanInv, LoopTypeOK, TypeOK
<1> QED
  BY <1>1, <1>2, <1>3, PTL DEF Spec

-----------------------------------------------------------------------------
\* Delays are numbers, so that they can be compared.
LEMMA DelaysAreNumbers ==
  ASSUME LoopTypeOK
  PROVE  submission.delay \in Nat /\ submission.wait \in Nat
BY MaxDelayAssumption DEF LoopTypeOK

LEMMA BackoffNext ==
  BanInv /\ LoopTypeOK /\ BackoffBelongsToPending /\ [Next]_vars => BackoffBelongsToPending'
<1> SUFFICES ASSUME BanInv, LoopTypeOK, BackoffBelongsToPending, [Next]_vars
             PROVE  BackoffBelongsToPending'
  OBVIOUS
<1>0. submission \in [pending : BOOLEAN, delay : Nat, wait : Nat]
  BY MaxDelayAssumption DEF LoopTypeOK
<1>1. CASE UNCHANGED submission
  BY <1>1 DEF BackoffBelongsToPending
<1>2. ASSUME NEW d \in Pauses, Tick(d) PROVE BackoffBelongsToPending'
  <2>1. d \in Nat
    BY PausesAssumption, MaxAgeAssumption
  <2>2. submission' = [submission EXCEPT !.wait = IF submission.wait > d
                                                  THEN submission.wait - d ELSE 0]
    BY <1>2 DEF Tick
  <2> QED
    BY <1>0, <2>1, <2>2 DEF BackoffBelongsToPending
<1>3. ASSUME NEW c, Connect(c) PROVE BackoffBelongsToPending'
  BY <1>0, <1>3 DEF Connect, BackoffBelongsToPending
<1>4. ASSUME NEW more \in BOOLEAN,
             submission' = [submission EXCEPT !.pending = submission.pending \/ more]
      PROVE  BackoffBelongsToPending'
  BY <1>0, <1>4 DEF BackoffBelongsToPending
<1>5. CASE SubmitSucceeds
  BY <1>5 DEF SubmitSucceeds, Idle, BackoffBelongsToPending
<1>6. CASE SubmitFails
  <2>1. NextDelay \in Nat /\ submission.pending
    BY <1>6, NextDelayType, MaxDelayAssumption DEF SubmitFails, SubmissionDue
  <2>2. submission'.delay = NextDelay /\ submission'.wait = NextDelay
        /\ submission'.pending = submission.pending
    BY <1>0, <1>6 DEF SubmitFails
  <2> QED
    BY <2>1, <2>2 DEF BackoffBelongsToPending
<1>7. ASSUME NEW c, LoadInitConfig(c) PROVE UNCHANGED submission \/ Connect(c)
  BY <1>7 DEF LoadInitConfig, KeepClient, DetectFails, LoginFails
<1>8. CASE Scan
  <2>1. UNCHANGED submission \/ EndTask
    BY <1>8 DEF Scan, ProcessBannedPeer, ProcessBadPeer, EndScan, AbortScan, StatisticsBan
  <2>2. CASE EndTask
    BY <1>4, <2>2 DEF EndTask, LoopTypeOK
  <2> QED
    BY <1>1, <2>1, <2>2
<1>9. CASE FetchFails
  BY <1>4, <1>9 DEF FetchFails
<1>10. CASE FetchSucceeds \/ Clear \/ NoSubmission \/ ReqStop \/ Stop \/ Stopped \/ UNCHANGED vars
  BY <1>1, <1>10 DEF FetchSucceeds, Clear, NoSubmission, ReqStop, Stop, Stopped, vars
<1> QED
  BY <1>1, <1>2, <1>3, <1>5, <1>6, <1>7, <1>8, <1>9, <1>10 DEF Next

(***************************************************************************)
(* A retry delay always belongs to a pending submission, and no wait       *)
(* outlasts its delay.                                                     *)
(***************************************************************************)
THEOREM BackoffIsPending == Spec => []BackoffBelongsToPending
<1>1. Init => BanInv /\ LoopTypeOK /\ BackoffBelongsToPending
  BY BanInvInit, LoopTypeInit DEF Init, Idle, BackoffBelongsToPending
<1>2. BanInv /\ LoopTypeOK /\ BackoffBelongsToPending /\ [Next]_vars =>
        (BanInv /\ LoopTypeOK /\ BackoffBelongsToPending)'
  BY StepUsesBanList, BanInvNext, LoopTypeNext, BackoffNext
<1> QED
  BY <1>1, <1>2, PTL DEF Spec

-----------------------------------------------------------------------------
(***************************************************************************)
(* ClientUpToDate speaks of the moments between two scans.  It holds there *)
(* because it holds all the time, except after a scan has changed the ban  *)
(* list and before the change is recorded as pending.                      *)
(***************************************************************************)
Synced ==
  ~stopping /\ ~submission.pending /\ lastURL # NoURL =>
    IF confirmed THEN clientBans[lastURL] = Banned ELSE Banned = {}

SyncInv == Synced \/ (phase \in {"scan", "statistics"} /\ changed)

LEMMA SyncNext == LoopTypeOK /\ SyncInv /\ [Next]_vars => SyncInv'
<1> SUFFICES ASSUME LoopTypeOK, SyncInv, [Next]_vars PROVE SyncInv'
  OBVIOUS
<1> USE DEF clientVars, banVars, Goto
<1>0. submission.pending \in BOOLEAN /\ changed \in BOOLEAN
  BY DEF LoopTypeOK
<1>1. ASSUME NEW d \in Pauses, Tick(d) PROVE SyncInv'
  BY <1>1 DEF Tick, BanTimePasses, SyncInv, Synced, Banned, LoopTypeOK
<1>2. ASSUME NEW c \in ClientConfigs \cup {client}, LoadInitConfig(c) PROVE SyncInv'
  <2>1. CASE KeepClient(c)
    BY <2>1 DEF KeepClient, Proceed, SyncInv, Synced, Banned
  <2>2. CASE DetectFails(c) \/ LoginFails(c)
    BY <2>2 DEF DetectFails, LoginFails, GiveUp, SyncInv, Synced, Banned
  <2>3. CASE Connect(c)
    BY <2>3 DEF Connect, SyncInv, Synced, Banned
  <2> QED
    BY <1>2, <2>1, <2>2, <2>3 DEF LoadInitConfig
<1>3. CASE FetchSucceeds
  BY <1>3 DEF FetchSucceeds, SyncInv, Synced, Banned
<1>4. CASE FetchFails
  <2>1. Synced
    BY <1>4 DEF FetchFails, SyncInv
  <2>2. submission'.pending <=> submission.pending \/ Banned # {}
    BY <1>0, <1>4 DEF FetchFails, LoopTypeOK
  <2>3. ASSUME lastURL # NoURL, Banned = {}, confirmed, clientBans[lastURL] = {}
        PROVE  clientBans'[lastURL] = {}
    BY <1>4, <2>3 DEF FetchFails, LoopTypeOK
  <2>4. Banned' = Banned
    BY <1>4 DEF FetchFails, Banned
  <2> QED
    BY <1>4, <2>1, <2>2, <2>3, <2>4 DEF FetchFails, SyncInv, Synced
<1>5. CASE Clear
  BY <1>5 DEF Clear, SyncInv, Synced
<1>6. CASE Scan
  <2>1. ASSUME NEW ip \in IP, NEW o \in Sample, ProcessBannedPeer(ip, o) PROVE SyncInv'
    BY <2>1 DEF ProcessBannedPeer, RefreshBlockedPeer, SyncInv, Synced, Banned
  <2>2. ASSUME NEW ip \in IP, NEW o \in Sample, ProcessBadPeer(ip, o) PROVE SyncInv'
    BY <2>2 DEF ProcessBadPeer, SyncInv
  <2>3. CASE EndScan
    BY <2>3 DEF EndScan, SyncInv, Synced, Banned
  <2>4. CASE AbortScan
    BY <2>4 DEF AbortScan, SyncInv, Synced
  <2>5. ASSUME NEW ip \in IP, StatisticsBan(ip) PROVE SyncInv'
    BY <2>5 DEF StatisticsBan, SyncInv
  <2>6. CASE EndTask
    <3>1. submission'.pending <=> submission.pending \/ changed
      BY <1>0, <2>6 DEF EndTask, LoopTypeOK
    <3> QED
      BY <2>6, <3>1 DEF EndTask, SyncInv, Synced, Banned
  <2> QED
    BY <1>6, <2>1, <2>2, <2>3, <2>4, <2>5, <2>6 DEF Scan
<1>7. CASE NoSubmission
  BY <1>7 DEF NoSubmission, SyncInv, Synced, Banned
<1>8. CASE SubmitSucceeds
  <2>1. lastURL # NoURL => clientBans'[lastURL] = Banned
    BY <1>8 DEF SubmitSucceeds, LoopTypeOK
  <2>2. Banned' = Banned /\ lastURL' = lastURL /\ confirmed'
    BY <1>8 DEF SubmitSucceeds, Banned
  <2> QED
    BY <2>1, <2>2 DEF SyncInv, Synced
<1>9. CASE SubmitFails
  <2>1. submission'.pending
    BY <1>9 DEF SubmitFails, SubmissionDue, LoopTypeOK
  <2> QED
    BY <2>1 DEF SyncInv, Synced
<1>10. CASE ReqStop \/ Stop \/ Stopped \/ UNCHANGED vars
  BY <1>10 DEF ReqStop, Stop, Stopped, vars, SyncInv, Synced, Banned
<1> QED
  BY <1>1, <1>2, <1>3, <1>4, <1>5, <1>6, <1>7, <1>8, <1>9, <1>10 DEF Next

(***************************************************************************)
(* Between two scans, no submission pending means that the client enforces *)
(* exactly the bans in force, whichever requests failed, whenever the      *)
(* client restarted and however the configuration was edited.              *)
(***************************************************************************)
THEOREM ClientIsUpToDate == Spec => []ClientUpToDate
<1>1. Init => BanInv /\ LoopTypeOK /\ SyncInv
  BY BanInvInit, LoopTypeInit DEF Init, SyncInv, Synced
<1>2. BanInv /\ LoopTypeOK /\ SyncInv /\ [Next]_vars => (BanInv /\ LoopTypeOK /\ SyncInv)'
  BY StepUsesBanList, BanInvNext, LoopTypeNext, SyncNext
<1>3. SyncInv => ClientUpToDate
  BY DEF SyncInv, Synced, ClientUpToDate
<1> QED
  BY <1>1, <1>2, <1>3, PTL DEF Spec
=============================================================================
