------------------------------ MODULE BanFeed ------------------------------
(***************************************************************************)
(* The incremental feed of the ban list, /api/peers?sync of                *)
(* internal/webui/webui.go: the main loop records an event after every     *)
(* change of the list, in a ring of the newest Capacity events, and HTTP   *)
(* handlers answer a poller either with the events after its cursor or,    *)
(* when those are gone, with the whole list.                               *)
(*                                                                         *)
(* The list changes under one lock and the event is recorded later under   *)
(* another, so handlers run in between.  A poller is a program outside     *)
(* src/ that follows the protocol: it sends back the epoch and the cursor  *)
(* of the last answer, and applies answers to its own copy of the list.    *)
(*                                                                         *)
(* Info is what an entry shows apart from its timestamp, which             *)
(* IsBlockedPeer and ClearBlockPeer refresh without an event.              *)
(***************************************************************************)
EXTENDS Naturals, Sequences, SequencesExt

CONSTANTS
  IP, Info,
  Capacity,   \* webUIMaxPeerEvents
  Poller,
  MaxCursor,  \* bound: the events of the first epoch; a later one has fewer
  MaxEpoch    \* bound: the resets and restarts

ASSUME CapacityAssumption == Capacity \in Nat \ {0}
ASSUME BoundAssumption == MaxCursor \in Nat /\ MaxEpoch \in Nat \ {0}

VARIABLES
  peers,    \* blockPeerMap: [banned IP -> Info]
  todo,     \* the IPs whose change the main loop has yet to record
  enabled,  \* the configuration's webUI
  loading,  \* a new configuration is in force and InitConfig is yet to run
  epoch,    \* webUIPeerSyncEpoch: its UnixNano only ever grows
  cursor,   \* webUIPeerSyncCursor
  events,   \* webUIPeerSyncEvents, a ring once it is full
  start,    \* webUIPeerSyncEventStart
  poller    \* external: each poller's copy of the list and its request

feedVars == <<epoch, cursor, events, start>>
banFeedVars == <<peers, todo, enabled, loading, feedVars, poller>>

Event == [cursor : 1 .. MaxCursor, ip : IP, peer : SUBSET Info]

\* Infos are kept in sets of at most one, the empty set being a removal.
Entry(map, ip) == IF ip \in DOMAIN map THEN {map[ip]} ELSE {}

\* BlockPeers and BlockPeer, which the WebUI is given to read the list with.
BlockPeers == peers
BlockPeer(ip) == Entry(peers, ip)

Copies == UNION {[ips -> Info] : ips \in SUBSET IP}
NoAnswer == [none |-> TRUE]

FeedTypeOK ==
  /\ peers \in Copies
  /\ todo \in Seq(IP)
  /\ enabled \in BOOLEAN /\ loading \in BOOLEAN
  /\ epoch \in 1 .. MaxEpoch
  /\ cursor \in 0 .. MaxCursor
  /\ events \in Seq(Event) /\ Len(events) <= Capacity
  /\ start \in 0 .. Capacity - 1
  /\ \A p \in Poller :
       /\ poller[p].copy \in Copies
       /\ poller[p].epoch \in 0 .. MaxEpoch
       /\ poller[p].cursor \in 0 .. MaxCursor
       /\ poller[p].request \in {"none", "sent", "answered"}

\* A poller has no epoch at first, which asks for the whole list.
FeedInit ==
  /\ peers = [ip \in {} |-> {}]
  /\ todo = <<>>
  /\ enabled \in BOOLEAN
  /\ loading = FALSE
  /\ epoch = 1 /\ cursor = 0 /\ events = <<>> /\ start = 0
  /\ poller = [p \in Poller |-> [copy |-> [ip \in {} |-> {}], epoch |-> 0, cursor |-> 0,
                                 request |-> "none", answer |-> NoAnswer]]

-----------------------------------------------------------------------------
(* The main loop.                                                          *)

RoomFor(n) == cursor + n + 2 * (epoch - 1) <= MaxCursor

MainLoopFree == todo = <<>> /\ ~loading

\* AddBlockPeer bans a peer or changes what its entry shows;
\* UpdateBlockedPeerTraffic changes the entry of a banned peer.
Shows(ip, info) ==
  /\ MainLoopFree
  /\ Entry(peers, ip) # {info}
  /\ peers' = [p \in DOMAIN peers \cup {ip} |-> IF p = ip THEN info ELSE peers[p]]

Change(ip, info) ==
  /\ RoomFor(1)
  /\ Shows(ip, info)
  /\ todo' = <<ip>>
  /\ UNCHANGED <<enabled, loading, feedVars, poller>>

\* ClearBlockPeer removes expired bans together, and records each in turn.
Expire(ips) ==
  /\ MainLoopFree
  /\ peers' = [p \in DOMAIN peers \ ips |-> peers[p]]

Clear(ips) ==
  /\ RoomFor(Cardinality(ips))
  /\ Expire(ips)
  /\ todo' \in SetToSeqs(ips)
  /\ UNCHANGED <<enabled, loading, feedVars, poller>>

\* Mutant: the start of the ring does not wrap.
AppendEvent_NoWrap(ip) ==
  LET event == [cursor |-> cursor + 1, ip |-> ip, peer |-> BlockPeer(ip)]
  IN  /\ cursor' = cursor + 1
      /\ IF Len(events) < Capacity
         THEN events' = Append(events, event) /\ UNCHANGED start
         ELSE /\ events' = [events EXCEPT ![(start % Capacity) + 1] = event]
              /\ start' = start + 1

\* AppendWebUIBlockPeerEvent, of the peer's entry or of its removal: the
\* newest event takes the place of the oldest once the ring is full.
AppendEvent(ip) ==
  LET event == [cursor |-> cursor + 1, ip |-> ip, peer |-> BlockPeer(ip)]
  IN  /\ cursor' = cursor + 1
      /\ IF Len(events) < Capacity
         THEN events' = Append(events, event) /\ UNCHANGED start
         ELSE /\ events' = [events EXCEPT ![start + 1] = event]
              /\ start' = (start + 1) % Capacity

\* WebUI_RecordBlockPeerAdded and WebUI_RecordBlockPeerRemoved: nothing is
\* recorded while the WebUI is disabled.
Record ==
  /\ todo # <<>>
  /\ IF enabled THEN AppendEvent(Head(todo)) /\ UNCHANGED epoch
                ELSE UNCHANGED feedVars
  /\ todo' = Tail(todo)
  /\ UNCHANGED <<peers, enabled, loading, poller>>

\* Mutant: a reset keeps the epoch.
ResetWebUIPeerSync_KeepsEpoch ==
  /\ epoch < MaxEpoch
  /\ cursor' = 0 /\ start' = 0 /\ events' = <<>>
  /\ UNCHANGED epoch

ResetWebUIPeerSync ==
  /\ epoch < MaxEpoch
  /\ epoch' = epoch + 1
  /\ cursor' = 0 /\ start' = 0 /\ events' = <<>>

\* LoadInitConfig replaces the configuration, then calls InitConfig.
ReplaceConfig ==
  /\ MainLoopFree
  /\ epoch < MaxEpoch
  /\ enabled' \in BOOLEAN
  /\ loading' = TRUE
  /\ UNCHANGED <<peers, todo, feedVars, poller>>

InitConfig ==
  /\ loading
  /\ ResetWebUIPeerSync
  /\ loading' = FALSE
  /\ UNCHANGED <<peers, todo, enabled, poller>>

\* The process ends at any point and starts again with an empty ban list.
\* Answers that are on their way still arrive.
Restart ==
  /\ ResetWebUIPeerSync
  /\ peers' = [ip \in {} |-> {}]
  /\ todo' = <<>>
  /\ enabled' \in BOOLEAN
  /\ loading' = FALSE
  /\ poller' = [p \in Poller |->
                  [poller[p] EXCEPT !.request = IF @ = "sent" THEN "none" ELSE @]]

-----------------------------------------------------------------------------
(* The handlers.                                                           *)

\* WebUIBlockPeerEventAt: the ring from its oldest event.
EventAt(index) == events[((start + index) % Len(events)) + 1]

\* FullWebUIBlockPeerSyncLocked.
FullSync == [epoch |-> epoch, cursor |-> cursor, reset |-> TRUE,
             upserts |-> BlockPeers, removed |-> {}]

\* The events after a cursor come down to the last one of each IP.
Delta(since) ==
  LET later == {i \in DOMAIN events : events[i].cursor > since}
      last(ip) == CHOOSE i \in later : /\ events[i].ip = ip
                                       /\ \A j \in later : events[j].ip = ip =>
                                                           events[j].cursor <= events[i].cursor
      ips == {events[i].ip : i \in later}
      banned == {ip \in ips : events[last(ip)].peer # {}}
  IN  [epoch |-> epoch, cursor |-> cursor, reset |-> FALSE,
       upserts |-> [ip \in banned |-> CHOOSE info \in events[last(ip)].peer : TRUE],
       removed |-> ips \ banned]

\* Mutant: a cursor just behind the oldest event is taken to be in the ring.
Retained_OffByOne(since) ==
  IF events = <<>> THEN since = cursor ELSE since + 2 >= EventAt(0).cursor

\* Every event after the cursor is still in the ring.
Retained(since) ==
  IF events = <<>> THEN since = cursor ELSE since + 1 >= EventAt(0).cursor

\* GetWebUIBlockPeerSync, under webUIPeerSyncMutex.
BlockPeerSync(theirEpoch, since) ==
  IF theirEpoch = epoch /\ since <= cursor /\ Retained(since) THEN Delta(since) ELSE FullSync

\* The request arrives, and the handler finds the WebUI enabled.
Request(p) ==
  /\ enabled
  /\ poller[p].request = "none"
  /\ poller' = [poller EXCEPT ![p].request = "sent"]
  /\ UNCHANGED <<peers, todo, enabled, loading, feedVars>>

Answer(p) ==
  /\ poller[p].request = "sent"
  /\ poller' = [poller EXCEPT ![p].request = "answered",
                              ![p].answer = BlockPeerSync(poller[p].epoch, poller[p].cursor)]
  /\ UNCHANGED <<peers, todo, enabled, loading, feedVars>>

-----------------------------------------------------------------------------
(* The pollers.                                                            *)

Applied(copy, a) ==
  LET kept == IF a.reset THEN {} ELSE DOMAIN copy \ a.removed
  IN  [ip \in kept \cup DOMAIN a.upserts |->
         IF ip \in DOMAIN a.upserts THEN a.upserts[ip] ELSE copy[ip]]

Receive(p) ==
  /\ poller[p].request = "answered"
  /\ LET a == poller[p].answer
     IN  poller' = [poller EXCEPT ![p] =
           [copy |-> Applied(@.copy, a), epoch |-> a.epoch, cursor |-> a.cursor,
            request |-> "none", answer |-> NoAnswer]]
  /\ UNCHANGED <<peers, todo, enabled, loading, feedVars>>

\* The request or its answer is lost; the poller asks again as before.
Lose(p) ==
  /\ poller[p].request # "none"
  /\ poller' = [poller EXCEPT ![p].request = "none", ![p].answer = NoAnswer]
  /\ UNCHANGED <<peers, todo, enabled, loading, feedVars>>

-----------------------------------------------------------------------------
ListChanges ==
  \/ \E ip \in IP, info \in Info : Change(ip, info)
  \/ \E ips \in SUBSET DOMAIN peers \ {{}} : Clear(ips)

\* The same to a reader that the recorded events are nothing to.
UnrecordedChanges ==
  /\ \/ \E ip \in IP, info \in Info : Shows(ip, info)
     \/ \E ips \in SUBSET DOMAIN peers \ {{}} : Expire(ips)
  /\ UNCHANGED <<todo, enabled, loading, feedVars, poller>>

PollerStep(p) == Request(p) \/ Answer(p) \/ Receive(p) \/ Lose(p)

-----------------------------------------------------------------------------
(***************************************************************************)
(* A poller's copy is right wherever the feed has nothing more to say: if  *)
(* its cursor is good for a delta, its copy agrees with the ban list on    *)
(* every IP that no later event and no unrecorded change is about.  A      *)
(* change that were recorded twice, out of order or never, an event that   *)
(* left the ring unnoticed, or a cursor of another epoch would break it.   *)
(***************************************************************************)
Unsaid(since) ==
  {events[i].ip : i \in {j \in DOMAIN events : events[j].cursor > since}} \cup
  {todo[i] : i \in DOMAIN todo}

CopyRightWhereSilent ==
  enabled /\ ~loading =>
    \A p \in Poller :
      poller[p].epoch = epoch /\ Retained(poller[p].cursor) =>
        \A ip \in IP \ Unsaid(poller[p].cursor) :
          Entry(poller[p].copy, ip) = Entry(peers, ip)

=============================================================================
