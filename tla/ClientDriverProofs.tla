------------------------- MODULE ClientDriverProofs -------------------------
(***************************************************************************)
(* Proofs about the drivers, for every set of addresses, torrents, peers   *)
(* and fields, and for every bound on the answers of a session.            *)
(***************************************************************************)
EXTENDS ClientDriver, TLAPS

-----------------------------------------------------------------------------
(* Differences between sets of peers, and their application.               *)

LEMMA PeerMapParts ==
  ASSUME NEW p \in PeerMap
  PROVE  /\ DOMAIN p \subseteq Peer
         /\ p = [k \in DOMAIN p |-> p[k]]
         /\ \A k \in DOMAIN p : p[k] \in Records /\ p[k] = [f \in Field |-> p[k][f]]
BY PeerSyncAssumption DEF PeerMap

LEMMA NoPeersIsPeerMap == NoPeers \in PeerMap /\ DOMAIN NoPeers = {}
<1>1. NoPeers \in [{} -> Records] /\ {} \in SUBSET Peer
  BY DEF NoPeers
<1> QED
  BY <1>1 DEF PeerMap, NoPeers

LEMMA ChangesParts ==
  ASSUME NEW base \in PeerMap, NEW p \in PeerMap
  PROVE  /\ \A k : k \in DOMAIN Changes(base, p)
                  <=> k \in DOMAIN p /\ \E f \in Field : Differs(base, p, k, f)
         /\ \A k \in DOMAIN Changes(base, p) :
              Changes(base, p)[k] = [f \in {f \in Field : Differs(base, p, k, f)} |-> p[k][f]]
BY DEF Changes

\* Overlaying what changed on what was gives what is.
LEMMA OverlayRestores ==
  ASSUME NEW base \in PeerMap, NEW p \in PeerMap,
         NEW k \in DOMAIN Changes(base, p),
         NEW record, k \in DOMAIN base => record = base[k]
  PROVE  Overlay(record, Changes(base, p)[k]) = p[k]
<1> DEFINE changed == Changes(base, p)[k]
<1>1. k \in DOMAIN p /\ changed = [f \in {f \in Field : Differs(base, p, k, f)} |-> p[k][f]]
  BY ChangesParts
<1>2. ASSUME NEW f \in Field
      PROVE  (IF f \in DOMAIN changed THEN changed[f] ELSE record[f]) = p[k][f]
  <2>1. f \in DOMAIN changed <=> Differs(base, p, k, f)
    BY <1>1
  <2>2. CASE Differs(base, p, k, f)
    BY <2>1, <2>2, <1>1
  <2>3. CASE ~Differs(base, p, k, f)
    BY <2>1, <2>3 DEF Differs
  <2> QED
    BY <2>2, <2>3
<1>3. p[k] = [f \in Field |-> p[k][f]]
  BY <1>1, PeerMapParts
<1> HIDE DEF changed
<1>4. Overlay(record, changed) = [f \in Field |-> p[k][f]]
  BY <1>2 DEF Overlay
<1> QED
  BY <1>3, <1>4 DEF changed

\* A peer that is not among the changes is as it was.
LEMMA UnchangedPeers ==
  ASSUME NEW base \in PeerMap, NEW p \in PeerMap,
         NEW k \in DOMAIN p, k \notin DOMAIN Changes(base, p)
  PROVE  k \in DOMAIN base /\ base[k] = p[k]
<1>1. \A f \in Field : ~Differs(base, p, k, f)
  BY ChangesParts
<1>2. k \in DOMAIN base /\ \A f \in Field : base[k][f] = p[k][f]
  BY <1>1, PeerSyncAssumption DEF Differs
<1>3. base[k] = [f \in Field |-> base[k][f]] /\ p[k] = [f \in Field |-> p[k][f]]
  BY <1>2, PeerMapParts
<1> QED
  BY <1>2, <1>3

\* All changes since there were no peers are the peers.
LEMMA AllChanges ==
  ASSUME NEW p \in PeerMap
  PROVE  Changes(NoPeers, p) = p
<1>1. \A k, f : Differs(NoPeers, p, k, f)
  BY NoPeersIsPeerMap DEF Differs
<1>2. DOMAIN Changes(NoPeers, p) = DOMAIN p
  <2>1. \A k : k \in DOMAIN Changes(NoPeers, p) <=> k \in DOMAIN p
    BY <1>1, ChangesParts, NoPeersIsPeerMap, PeerSyncAssumption
  <2> QED
    BY <2>1
<1>3. ASSUME NEW k \in DOMAIN p PROVE Changes(NoPeers, p)[k] = p[k]
  <2>1. Changes(NoPeers, p)[k] = [f \in {f \in Field : Differs(NoPeers, p, k, f)} |-> p[k][f]]
    BY <1>1, PeerSyncAssumption DEF Changes
  <2>2. {f \in Field : Differs(NoPeers, p, k, f)} = Field
    BY <1>1
  <2>3. p[k] = [f \in Field |-> p[k][f]]
    BY PeerMapParts
  <2> QED
    BY <2>1, <2>2, <2>3
<1>4. Changes(NoPeers, p) = [k \in DOMAIN p |-> Changes(NoPeers, p)[k]]
  BY <1>2 DEF Changes
<1> QED
  BY <1>3, <1>4, PeerMapParts

(***************************************************************************)
(* Merging an answer gives the torrent's peers, when the answer builds on  *)
(* the copy or is full.                                                    *)
(***************************************************************************)
LEMMA MergeRestores ==
  ASSUME NEW base \in PeerMap, NEW p \in PeerMap, NEW answer,
         answer.full \in BOOLEAN,
         answer.full => base = NoPeers,
         ~answer.full => base = peerCache,
         answer.peers = Changes(base, p),
         answer.removed = DOMAIN base \ DOMAIN p
  PROVE  Merged(answer) = p
<1> DEFINE known == IF answer.full THEN {} ELSE DOMAIN peerCache
           old(k) == IF k \in known THEN peerCache[k] ELSE ZeroRecord
           keys == (known \ answer.removed) \cup DOMAIN answer.peers
           entry(k) == IF k \in DOMAIN answer.peers THEN Overlay(old(k), answer.peers[k])
                                                    ELSE peerCache[k]
<1>1. known = DOMAIN base
  BY NoPeersIsPeerMap
<1>2. keys = DOMAIN p
  <2>1. DOMAIN answer.peers \subseteq DOMAIN p
    BY ChangesParts
  <2>2. \A k \in DOMAIN p : k \in DOMAIN answer.peers \/ k \in DOMAIN base
    BY UnchangedPeers
  <2> QED
    BY <1>1, <2>1, <2>2
<1>3. ASSUME NEW k \in DOMAIN p PROVE entry(k) = p[k]
  <2>1. k \in DOMAIN base => ~answer.full /\ old(k) = base[k]
    BY <1>1, NoPeersIsPeerMap
  <2>2. CASE k \in DOMAIN answer.peers
    <3> HIDE DEF old
    <3>1. Overlay(old(k), Changes(base, p)[k]) = p[k]
      BY <2>1, <2>2, OverlayRestores
    <3> QED
      BY <3>1, <2>2
  <2>3. CASE k \notin DOMAIN answer.peers
    BY <2>1, <2>3, UnchangedPeers
  <2> QED
    BY <2>2, <2>3
<1>4. Merged(answer) = [k \in keys |-> entry(k)]
  BY DEF Merged
<1> HIDE DEF keys, entry
<1>5. Merged(answer) = [k \in DOMAIN p |-> p[k]]
  BY <1>2, <1>3, <1>4
<1> QED
  BY <1>5, PeerMapParts

-----------------------------------------------------------------------------
(* What an answer builds on.                                               *)

Session == [rid : 0 .. MaxRid, last : PeerMap, acceptedRid : 0 .. MaxRid, accepted : PeerMap]

Known(s, r) == r # 0 /\ (r = s.rid \/ r = s.acceptedRid)
Base(s, r) == IF ~Known(s, r) THEN NoPeers ELSE IF r = s.rid THEN s.last ELSE s.accepted

LEMMA BaseIsPeerMap ==
  ASSUME NEW s, s.last \in PeerMap, s.accepted \in PeerMap, NEW r
  PROVE  Base(s, r) \in PeerMap
BY NoPeersIsPeerMap DEF Base

AnswerIs(answer, s, r, t) ==
  /\ answer.full \in BOOLEAN /\ (answer.full <=> ~Known(s, r))
  /\ answer.peers = Changes(Base(s, r), peersOf[t])
  /\ answer.removed = DOMAIN Base(s, r) \ DOMAIN peersOf[t]
  /\ answer.rid = IF r = 0 THEN 1 ELSE s.rid + 1
  /\ answer.session = [rid |-> answer.rid, last |-> peersOf[t],
                       acceptedRid |-> IF Known(s, r) THEN r ELSE 0, accepted |-> Base(s, r)]

LEMMA AnswerParts ==
  ASSUME NEW s, NEW r \in Nat, NEW t
  PROVE  AnswerIs(Answer(s, r, t), s, r, t)
<1> DEFINE accepted == IF r > 0 /\ r = s.rid THEN [rid |-> s.rid, peers |-> s.last]
                       ELSE [rid |-> s.acceptedRid, peers |-> s.accepted]
           full == r = 0 \/ r # accepted.rid
           next == IF r = 0 THEN 1 ELSE s.rid + 1
           base == IF full THEN [rid |-> 0, peers |-> NoPeers] ELSE accepted
<1>1. full \in BOOLEAN /\ (full <=> ~Known(s, r))
  BY DEF Known
<1>2. base.peers = Base(s, r) /\ base.rid = IF Known(s, r) THEN r ELSE 0
  BY <1>1 DEF Base, Known
<1>3. Answer(s, r, t) =
        [session |-> [rid |-> next, last |-> peersOf[t],
                      acceptedRid |-> base.rid, accepted |-> base.peers],
         full |-> full, rid |-> next,
         peers |-> Changes(base.peers, peersOf[t]),
         removed |-> DOMAIN base.peers \ DOMAIN peersOf[t]]
  BY DEF Answer
<1>4. next = IF r = 0 THEN 1 ELSE s.rid + 1
  OBVIOUS
<1> HIDE DEF full, next, base
<1> QED
  BY <1>1, <1>2, <1>3, <1>4 DEF AnswerIs

(***************************************************************************)
(* The driver's copy is the answer its session remembers as the last, if   *)
(* the session has answered and the copy is in use.                        *)
(***************************************************************************)
CopyInv ==
  /\ session.rid = 0 => session = NoSession
  /\ peerRID # 0 => peerCache \in PeerMap
  /\ peerRID # 0 /\ session.rid # 0 => peerRID = session.rid /\ peerCache = session.last

PeersInv == PeersTypeOK /\ CopyInv /\ PeersAreCurrent

LEMMA NoSessionTypeOK == NoSession \in Session /\ NoSession.rid = 0
BY NoPeersIsPeerMap, PeerSyncAssumption DEF NoSession, Session

\* The session after an answer has the types of a session.
LEMMA AnswerSession ==
  ASSUME NEW s, s.rid \in Nat, s.acceptedRid \in Nat, s.last \in PeerMap, s.accepted \in PeerMap,
         NEW r \in 0 .. MaxRid, NEW t \in Torrent, peersOf[t] \in PeerMap,
         Answer(s, r, t).rid <= MaxRid
  PROVE  /\ Answer(s, r, t).session \in Session
         /\ Answer(s, r, t).rid \in 1 .. MaxRid
<1> DEFINE answer == Answer(s, r, t)
<1>0. AnswerIs(answer, s, r, t)
  BY AnswerParts, PeerSyncAssumption
<1>1. answer.rid \in 1 .. MaxRid
  BY <1>0, PeerSyncAssumption DEF AnswerIs
<1>2. Base(s, r) \in PeerMap
  BY BaseIsPeerMap
<1>3. answer.session = [rid |-> answer.rid, last |-> peersOf[t],
                        acceptedRid |-> IF Known(s, r) THEN r ELSE 0, accepted |-> Base(s, r)]
  BY <1>0 DEF AnswerIs
<1>4. (IF Known(s, r) THEN r ELSE 0) \in 0 .. MaxRid /\ answer.rid \in 0 .. MaxRid
  BY <1>1, PeerSyncAssumption
<1> HIDE DEF answer
<1> QED
  BY <1>1, <1>2, <1>3, <1>4 DEF Session, answer

\* An answer, repeated or not, builds on the driver's copy or is full.
LEMMA AnsweredParts ==
  ASSUME PeersTypeOK, CopyInv, NEW t \in Torrent, NEW r \in {0, peerRID}, NEW repeated \in BOOLEAN,
         Answered(r, t, repeated).rid <= MaxRid
  PROVE  LET answer == Answered(r, t, repeated) IN
         /\ answer.session \in Session
         /\ answer.session.rid = answer.rid /\ answer.session.last = peersOf[t]
         /\ answer.rid \in 1 .. MaxRid
         /\ answer.full \in BOOLEAN
         /\ r = 0 => answer.full
         /\ \E base \in PeerMap :
              /\ answer.full => base = NoPeers
              /\ ~answer.full => base = peerCache
              /\ answer.peers = Changes(base, peersOf[t])
              /\ answer.removed = DOMAIN base \ DOMAIN peersOf[t]
<1> DEFINE first == Answer(session, r, t)
           second == Answer(first.session, r, t)
<1>0. /\ session \in Session /\ r \in 0 .. MaxRid /\ r \in Nat /\ peersOf[t] \in PeerMap
      /\ session.rid \in Nat /\ session.acceptedRid \in Nat
      /\ session.last \in PeerMap /\ session.accepted \in PeerMap
  BY PeerSyncAssumption DEF PeersTypeOK, Session
<1>1. CASE ~(repeated /\ session # NoSession)
  <2>1. Answered(r, t, repeated) = first
    BY <1>1 DEF Answered
  <2>2. Known(session, r) => Base(session, r) = peerCache
    BY <1>0 DEF Known, Base, CopyInv, NoSession
  <2>3. first.rid <= MaxRid
    BY <2>1
  <2>4. first.session \in Session /\ first.rid \in 1 .. MaxRid
    BY <2>3, <1>0, AnswerSession
  <2>5. Base(session, r) \in PeerMap
    BY <1>0, BaseIsPeerMap
  <2>6. ~Known(session, r) => Base(session, r) = NoPeers
    BY DEF Base
  <2>7. r = 0 => ~Known(session, r)
    BY DEF Known
  <2>8. /\ first.full \in BOOLEAN /\ (first.full <=> ~Known(session, r))
        /\ first.peers = Changes(Base(session, r), peersOf[t])
        /\ first.removed = DOMAIN Base(session, r) \ DOMAIN peersOf[t]
        /\ first.session.rid = first.rid /\ first.session.last = peersOf[t]
    <3>1. AnswerIs(first, session, r, t)
      BY <1>0, AnswerParts
    <3> HIDE DEF first
    <3> QED
      BY <3>1 DEF AnswerIs
  <2> HIDE DEF first
  <2> QED
    BY <2>1, <2>2, <2>4, <2>5, <2>6, <2>7, <2>8
<1>2. CASE repeated /\ session # NoSession
  <2> DEFINE s == first.session
  <2>1. Answered(r, t, repeated) = second
    BY <1>2 DEF Answered
  <2>2. session.rid # 0
    BY <1>2 DEF CopyInv
  <2>3. /\ s.rid = IF r = 0 THEN 1 ELSE session.rid + 1
        /\ s.last = peersOf[t]
        /\ s.acceptedRid = IF Known(session, r) THEN r ELSE 0
        /\ s.accepted = Base(session, r)
    <3>1. AnswerIs(first, session, r, t)
      BY <1>0, AnswerParts
    <3> HIDE DEF first
    <3> QED
      BY <3>1 DEF AnswerIs
  <2>4. r # 0 => /\ r = session.rid /\ Known(session, r) /\ Base(session, r) = peerCache
                 /\ Known(s, r) /\ Base(s, r) = peerCache
    BY <1>0, <2>2, <2>3 DEF CopyInv, Known, Base
  <2>5. r = 0 => ~Known(s, r) /\ Base(s, r) = NoPeers
    BY DEF Known, Base
  <2>6. s.rid \in Nat /\ s.acceptedRid \in Nat /\ s.last \in PeerMap /\ s.accepted \in PeerMap
    BY <1>0, <2>3, BaseIsPeerMap
  <2>7. Base(s, r) \in PeerMap
    BY <2>6, BaseIsPeerMap
  <2> HIDE DEF s
  <2>8. second = Answer(s, r, t)
    BY DEF s
  <2>9. second.rid <= MaxRid
    BY <2>1
  <2>10. second.session \in Session /\ second.rid \in 1 .. MaxRid
    BY <1>0, <2>6, <2>8, <2>9, AnswerSession
  <2>11. /\ second.full \in BOOLEAN /\ (second.full <=> ~Known(s, r))
         /\ second.peers = Changes(Base(s, r), peersOf[t])
         /\ second.removed = DOMAIN Base(s, r) \ DOMAIN peersOf[t]
         /\ second.session.rid = second.rid /\ second.session.last = peersOf[t]
    <3>1. AnswerIs(second, s, r, t)
      BY <1>0, <2>8, AnswerParts
    <3> HIDE DEF second
    <3> QED
      BY <3>1 DEF AnswerIs
  <2> HIDE DEF second
  <2> QED
    BY <2>1, <2>4, <2>5, <2>7, <2>10, <2>11
<1> QED
  BY <1>1, <1>2

-----------------------------------------------------------------------------
(* Steps that concern the peers.                                           *)

LEMMA FetchPeersKeeps ==
  ASSUME PeersInv, NEW t \in Torrent, NEW overdue \in BOOLEAN, NEW repeated \in BOOLEAN,
         FetchPeers(t, overdue, repeated)
  PROVE  PeersInv'
<1> DEFINE r == IF overdue THEN 0 ELSE peerRID
           answer == Answered(r, t, repeated)
<1> USE DEF PeersInv
<1>0. PeersTypeOK /\ CopyInv /\ r \in {0, peerRID} /\ peersOf[t] \in PeerMap
  BY DEF PeersTypeOK
<1>1. /\ answer.rid <= MaxRid
      /\ session' = answer.session /\ peerRID' = answer.rid
      /\ peerCache' = IF r = 0 THEN answer.peers ELSE Merged(answer)
      /\ got' = [task |-> t, peers |-> peerCache']
      /\ peersOf' = peersOf
  BY DEF FetchPeers
<1> HIDE DEF r
<1>2. /\ answer.session \in Session
      /\ answer.session.rid = answer.rid /\ answer.session.last = peersOf[t]
      /\ answer.rid \in 1 .. MaxRid
      /\ answer.full \in BOOLEAN
      /\ r = 0 => answer.full
  BY <1>0, <1>1, AnsweredParts
<1>3. PICK base \in PeerMap :
        /\ answer.full => base = NoPeers
        /\ ~answer.full => base = peerCache
        /\ answer.peers = Changes(base, peersOf[t])
        /\ answer.removed = DOMAIN base \ DOMAIN peersOf[t]
  BY <1>0, <1>1, AnsweredParts
<1> HIDE DEF answer
<1>4. r = 0 => answer.peers = peersOf[t]
  BY <1>0, <1>2, <1>3, AllChanges
<1>5. Merged(answer) = peersOf[t]
  BY <1>0, <1>2, <1>3, MergeRestores
<1>6. peerCache' = peersOf[t]
  BY <1>1, <1>4, <1>5
<1>7. session'.rid = peerRID' /\ session'.last = peerCache' /\ peerRID' \in 1 .. MaxRid
  BY <1>1, <1>2, <1>6
<1>8. PeersTypeOK'
  <2>1. peerRID' \in 0 .. MaxRid
    BY <1>7, PeerSyncAssumption
  <2>2. got' \in [task : Torrent, peers : PeerMap]
    BY <1>0, <1>1, <1>6
  <2>3. session' \in Session /\ peerCache' \in PeerMap
    BY <1>0, <1>1, <1>2, <1>6
  <2> QED
    BY <1>1, <2>1, <2>2, <2>3 DEF PeersTypeOK, Session
<1>9. CopyInv'
  BY <1>0, <1>6, <1>7, PeerSyncAssumption DEF CopyInv
<1>10. PeersAreCurrent'
  BY <1>1, <1>6 DEF PeersAreCurrent
<1> QED
  BY <1>8, <1>9, <1>10

LEMMA FetchPeersFailsKeeps ==
  ASSUME PeersInv, NEW t \in Torrent, NEW overdue \in BOOLEAN, FetchPeersFails(t, overdue)
  PROVE  PeersInv'
<1> DEFINE r == IF overdue THEN 0 ELSE peerRID
           answer == Answer(session, r, t)
<1> USE DEF PeersInv
<1>0. /\ r \in 0 .. MaxRid /\ peersOf[t] \in PeerMap /\ session \in Session
      /\ session.rid \in Nat /\ session.acceptedRid \in Nat
      /\ session.last \in PeerMap /\ session.accepted \in PeerMap
  BY PeerSyncAssumption DEF PeersTypeOK, Session
<1>1. \/ answer.rid <= MaxRid /\ session' = answer.session
      \/ session' = session
  BY DEF FetchPeersFails
<1>2. session' \in Session /\ (session'.rid = 0 => session' = NoSession)
  <2>1. CASE answer.rid <= MaxRid /\ session' = answer.session
    <3> HIDE DEF r
    <3>1. answer.session \in Session /\ answer.rid \in 1 .. MaxRid
      BY <1>0, <2>1, AnswerSession
    <3>2. answer.session.rid = answer.rid
      <4>1. AnswerIs(answer, session, r, t)
        BY <1>0, AnswerParts, PeerSyncAssumption
      <4> HIDE DEF answer
      <4> QED
        BY <4>1 DEF AnswerIs
    <3> HIDE DEF answer
    <3> QED
      BY <2>1, <3>1, <3>2
  <2>2. CASE session' = session
    BY <1>0, <2>2 DEF CopyInv, NoSession
  <2> QED
    BY <1>1, <2>1, <2>2
<1>3. peerRID' = 0 /\ peerCache' = Nil /\ got' = Nil /\ peersOf' = peersOf
  BY DEF FetchPeersFails, DropPeers
<1> QED
  BY <1>2, <1>3, PeerSyncAssumption DEF PeersTypeOK, Session, CopyInv, PeersAreCurrent

LEMMA PeersChangeKeeps ==
  ASSUME PeersInv, NEW t \in Torrent, NEW p \in PeerMap, PeersChange(t, p)
  PROVE  PeersInv'
BY DEF PeersInv, PeersChange, PeersTypeOK, CopyInv, NoSession, PeersAreCurrent

\* Sessions begin and end, and the driver forgets its copy; a request for
\* changes that a new session gets is answered in full.
LEMMA QuietKeeps ==
  ASSUME PeersInv, Quiet,
         session' = session \/ session' = NoSession,
         DropPeers \/ UNCHANGED <<peerRID, peerCache>>
  PROVE  PeersInv'
<1>1. session' \in Session /\ (session'.rid = 0 => session' = NoSession)
  BY NoSessionTypeOK DEF PeersInv, PeersTypeOK, Session, CopyInv, NoSession
<1>2. peerRID' \in 0 .. MaxRid /\ peerCache' \in PeerMap \cup {Nil}
  BY PeerSyncAssumption DEF PeersInv, PeersTypeOK, DropPeers
<1>3. got' = Nil /\ peersOf' = peersOf
  BY DEF Quiet
<1>4. CopyInv'
  BY <1>1, NoSessionTypeOK DEF PeersInv, CopyInv, DropPeers, NoSession
<1> QED
  BY <1>1, <1>2, <1>3, <1>4 DEF PeersInv, PeersTypeOK, Session, PeersAreCurrent

-----------------------------------------------------------------------------
(* What the drivers remember of the bans.                                  *)

(***************************************************************************)
(* What the driver remembers is what the client enforces, except where it  *)
(* is unsure.                                                              *)
(***************************************************************************)
RecordInv ==
  /\ kind = "qBittorrent" /\ banCache # NotSubmitted =>
       SymDiff(enforced, banCache \X Task) \subseteq unsure
  /\ kind = "BitComet" => SymDiff(enforced, bannedTaskIPs) \subseteq unsure

BansInv == BansTypeOK /\ RecordInv /\ ExactWhereAnswered

LEMMA NewDriverKeeps ==
  ASSUME BansInv, NewDriver
  PROVE  BansInv'
<1>1. /\ enforced \subseteq Ban /\ unsure' = (IF kind = "BitComet" THEN enforced ELSE {})
      /\ outcome' = "none" /\ banCache' = NotSubmitted /\ bannedTaskIPs' = {} /\ ipfilter' = {}
      /\ UNCHANGED <<kind, shadow, list, tasksOf, enforced>>
  BY DEF BansInv, BansTypeOK, NewDriver
<1>2. unsure' \subseteq Ban
  BY <1>1
<1>3. BansTypeOK'
  BY <1>1, <1>2 DEF BansInv, BansTypeOK
<1>4. RecordInv'
  BY <1>1 DEF RecordInv, SymDiff, Supported
<1> QED
  BY <1>1, <1>3, <1>4 DEF BansInv, ExactWhereAnswered

LEMMA ForgetSubmittedKeeps ==
  ASSUME BansInv, kind = "qBittorrent", BansQuiet,
         ForgetSubmitted \/ UNCHANGED <<banCache, unsure>>
  PROVE  BansInv'
<1>1. BansTypeOK'
  BY DEF BansInv, BansTypeOK, BansQuiet, ForgetSubmitted
<1>2. RecordInv'
  BY DEF BansInv, RecordInv, BansQuiet, ForgetSubmitted
<1> QED
  BY <1>1, <1>2 DEF BansInv, ExactWhereAnswered, BansQuiet

LEMMA NoBanActivityKeeps ==
  ASSUME BansInv, NoBanActivity
  PROVE  BansInv'
BY DEF BansInv, NoBanActivity, records, BansTypeOK, RecordInv, ExactWhereAnswered

LEMMA ListChangesKeeps ==
  ASSUME BansInv, NEW l \in SUBSET IP, ListChanges(l)
  PROVE  BansInv'
BY DEF BansInv, ListChanges, records, BansTypeOK, RecordInv, ExactWhereAnswered

LEMMA TasksChangeKeeps ==
  ASSUME BansInv, NEW ip \in IP, NEW tasks \in SUBSET Task, TasksChange(ip, tasks)
  PROVE  BansInv'
BY DEF BansInv, TasksChange, records, BansTypeOK, RecordInv, ExactWhereAnswered

LEMMA ToggleShadowBanKeeps ==
  ASSUME BansInv, ToggleShadowBan
  PROVE  BansInv'
BY DEF BansInv, ToggleShadowBan, records, BansTypeOK, RecordInv, ExactWhereAnswered

LEMMA DownloadKeeps ==
  ASSUME BansInv, Download
  PROVE  BansInv'
<1>1. enforced' \subseteq Ban
  BY DEF BansInv, BansTypeOK, Download, Ban
<1> QED
  BY <1>1 DEF BansInv, Download, records, BansTypeOK, RecordInv, ExactWhereAnswered, Supported

LEMMA ClientRestartsKeeps ==
  ASSUME BansInv, NEW lost \in BOOLEAN, ClientRestarts(lost)
  PROVE  BansInv'
<1>1. enforced' \subseteq enforced /\ unsure' = unsure \cup (enforced \ enforced')
  BY DEF ClientRestarts
<1>2. /\ outcome' = "none" /\ UNCHANGED <<kind, shadow, list, tasksOf>>
      /\ UNCHANGED <<banCache, bannedTaskIPs, ipfilter>>
  BY DEF ClientRestarts, records
<1>3. BansTypeOK'
  BY <1>1, <1>2 DEF BansInv, BansTypeOK
<1>4. RecordInv'
  BY <1>1, <1>2 DEF BansInv, RecordInv, SymDiff
<1> QED
  BY <1>2, <1>3, <1>4 DEF BansInv, ExactWhereAnswered

LEMMA SubmitUnchangedKeeps ==
  ASSUME BansInv, SubmitUnchanged
  PROVE  BansInv'
<1>1. /\ kind = "qBittorrent" /\ banCache = list /\ list \in SUBSET IP
      /\ UNCHANGED <<kind, shadow, list, tasksOf, enforced, unsure>>
      /\ UNCHANGED <<banCache, bannedTaskIPs, ipfilter>>
      /\ outcome' = "succeeded"
  BY DEF BansInv, BansTypeOK, SubmitUnchanged, records
<1>2. SymDiff(enforced, list \X Task) \subseteq unsure
  BY <1>1, KindsAssumption DEF BansInv, RecordInv
<1>3. Must \subseteq list \X Task
  BY DEF Must, Ban
<1>4. Must \ enforced \subseteq unsure /\ enforced \ May \subseteq unsure
  BY <1>2, <1>3 DEF SymDiff, May
<1>5. Must' = Must /\ May' = May
  BY <1>1 DEF Must, May
<1>6. ExactWhereAnswered'
  BY <1>1, <1>4, <1>5 DEF ExactWhereAnswered
<1> QED
  BY <1>1, <1>6 DEF BansInv, BansTypeOK, RecordInv

LEMMA SubmitPreferencesKeeps ==
  ASSUME BansInv, SubmitPreferences
  PROVE  BansInv'
<1>1. /\ kind = "qBittorrent" /\ list \in SUBSET IP
      /\ enforced' = list \X Task /\ banCache' = list /\ unsure' = {}
      /\ UNCHANGED <<kind, shadow, list, tasksOf>>
      /\ UNCHANGED <<bannedTaskIPs, ipfilter>>
      /\ outcome' = "succeeded"
  BY DEF BansInv, BansTypeOK, SubmitPreferences
<1>2. Must' \subseteq enforced' /\ enforced' \subseteq May'
  BY <1>1 DEF Must, May, Ban
<1>3. BansTypeOK'
  BY <1>1 DEF BansInv, BansTypeOK, Ban
<1>4. RecordInv'
  BY <1>1 DEF RecordInv, SymDiff
<1> QED
  BY <1>2, <1>3, <1>4 DEF BansInv, ExactWhereAnswered

LEMMA SubmitPreferencesFailsKeeps ==
  ASSUME BansInv, NEW applied \in BOOLEAN, SubmitPreferencesFails(applied)
  PROVE  BansInv'
<1>1. /\ kind = "qBittorrent" /\ list \in SUBSET IP
      /\ enforced' \in {list \X Task, enforced}
      /\ unsure' = unsure \cup SymDiff(enforced, enforced')
      /\ UNCHANGED <<kind, shadow, list, tasksOf>>
      /\ UNCHANGED <<banCache, bannedTaskIPs, ipfilter>>
      /\ outcome' = "failed"
  BY DEF BansInv, BansTypeOK, SubmitPreferencesFails, records
<1>2. enforced' \subseteq Ban /\ unsure' \subseteq Ban
  BY <1>1 DEF BansInv, BansTypeOK, Ban, SymDiff
<1>3. BansTypeOK'
  BY <1>1, <1>2 DEF BansInv, BansTypeOK
<1>4. RecordInv'
  BY <1>1 DEF BansInv, RecordInv, SymDiff
<1> QED
  BY <1>1, <1>3, <1>4 DEF BansInv, ExactWhereAnswered

LEMMA SubmitShadowBanKeeps ==
  ASSUME BansInv, NEW answered \in BOOLEAN, SubmitShadowBan(answered)
  PROVE  BansInv'
BY DEF BansInv, SubmitShadowBan, records, BansTypeOK, RecordInv, ExactWhereAnswered

LEMMA SubmitBlocklistKeeps ==
  ASSUME BansInv, NEW downloaded \in BOOLEAN, SubmitBlocklist(downloaded)
  PROVE  BansInv'
<1>1. /\ kind = "Transmission" /\ list \in SUBSET IP /\ enforced \subseteq Ban
      /\ ipfilter' = list
      /\ enforced' = (IF downloaded THEN list \X Task ELSE enforced)
      /\ unsure' = (IF downloaded THEN {} ELSE Ban)
      /\ UNCHANGED <<kind, shadow, list, tasksOf, banCache, bannedTaskIPs>>
      /\ outcome' = "succeeded"
  BY DEF BansInv, BansTypeOK, SubmitBlocklist
<1>2. enforced' \subseteq Ban /\ unsure' \subseteq Ban
  BY <1>1 DEF Ban
<1>3. Must' \subseteq Ban /\ (downloaded => Must' \subseteq enforced' /\ enforced' \subseteq May')
  BY <1>1 DEF Must, May, Ban
<1>4. ExactWhereAnswered'
  BY <1>1, <1>2, <1>3 DEF ExactWhereAnswered
<1> QED
  BY <1>1, <1>2, <1>4 DEF BansInv, BansTypeOK, RecordInv

\* A ban that BitComet enforces differently from the driver's record was made
\* or lifted by a request whose answer was lost.
LEMMA SubmitTasksKeeps ==
  ASSUME BansInv, NEW unbanned \in SUBSET Task, NEW banned \in SUBSET Task,
         NEW unbanApplied \in SUBSET Task, NEW banApplied \in SUBSET Task,
         SubmitTasks(unbanned, banned, unbanApplied, banApplied)
  PROVE  BansInv'
<1> DEFINE toLift == Lifted(Task)
           lifted == Lifted(unbanned)
           made == {b \in Missing : b[2] \in banned}
           unseenLifted == {b \in toLift \ lifted : b[2] \in unbanApplied}
           unseenMade == {b \in Missing \ made : b[2] \in banApplied}
<1>1. /\ kind = "BitComet"
      /\ bannedTaskIPs' = (bannedTaskIPs \ lifted) \cup made
      /\ enforced' = (enforced \ (lifted \cup unseenLifted)) \cup made \cup unseenMade
      /\ unsure' = (unsure \ (lifted \cup made)) \cup unseenLifted \cup unseenMade
      /\ outcome' = (IF lifted = toLift /\ made = Missing THEN "succeeded" ELSE "failed")
      /\ UNCHANGED <<kind, shadow, list, tasksOf, banCache, ipfilter>>
  BY DEF SubmitTasks
<1>2. /\ lifted \subseteq toLift /\ toLift \subseteq bannedTaskIPs
      /\ made \subseteq Missing /\ Missing \subseteq Must
      /\ Must \subseteq Ban /\ Missing \cap bannedTaskIPs = {}
      /\ unseenLifted \subseteq toLift \ lifted /\ unseenMade \subseteq Missing \ made
  BY DEF BansInv, BansTypeOK, Lifted, Missing, Must, Ban
<1>3. \A b \in Ban : (b \in Must => b[1] \in list) /\ (b[1] \in list => b \in May)
  BY DEF Must, May, Ban
<1>4. \A b \in bannedTaskIPs : b \in toLift <=> b[1] \notin list
  BY DEF BansInv, BansTypeOK, Lifted, Ban
<1>5. enforced \subseteq Ban /\ bannedTaskIPs \subseteq Ban /\ unsure \subseteq Ban
  BY DEF BansInv, BansTypeOK
<1>6. SymDiff(enforced, bannedTaskIPs) \subseteq unsure
  BY <1>1 DEF BansInv, RecordInv
<1>7. Must' = Must /\ May' = May
  BY <1>1 DEF Must, May
<1> HIDE DEF toLift, lifted, made, unseenLifted, unseenMade
<1>8. BansTypeOK'
  <2>1. enforced' \subseteq Ban /\ bannedTaskIPs' \subseteq Ban /\ unsure' \subseteq Ban
    BY <1>1, <1>2, <1>5
  <2> QED
    BY <1>1, <2>1 DEF BansInv, BansTypeOK
<1>9. RecordInv'
  <2>1. SymDiff(enforced', bannedTaskIPs') \subseteq unsure'
    BY <1>1, <1>2, <1>6 DEF SymDiff
  <2> QED
    BY <1>1, <2>1 DEF RecordInv
<1>10. ExactWhereAnswered'
  <2> SUFFICES ASSUME outcome' = "succeeded"
               PROVE  Must \ enforced' \subseteq unsure' /\ enforced' \ May \subseteq unsure'
    BY <1>7 DEF ExactWhereAnswered
  <2>1. lifted = toLift /\ made = Missing
    BY <1>1
  <2>2. unseenLifted = {} /\ unseenMade = {}
    BY <1>2, <2>1
  <2>3. enforced' = (enforced \ toLift) \cup Missing /\ unsure' = unsure \ (toLift \cup Missing)
    BY <1>1, <2>1, <2>2
  <2>4. ASSUME NEW b \in Must \ enforced' PROVE b \in unsure'
    <3>1. b \in bannedTaskIPs /\ b \notin toLift /\ b \notin Missing
      BY <1>2, <1>3, <1>4, <2>3 DEF Missing
    <3> QED
      BY <1>6, <2>3, <3>1 DEF SymDiff
  <2>5. ASSUME NEW b \in enforced' \ May PROVE b \in unsure'
    <3>1. b \in Ban /\ b[1] \notin list
      BY <1>2, <1>3, <1>5, <2>3
    <3>2. b \in enforced /\ b \notin toLift /\ b \notin Missing
      BY <1>2, <1>3, <2>3, <3>1
    <3>3. b \notin bannedTaskIPs
      BY <1>4, <3>1, <3>2
    <3> QED
      BY <1>6, <2>3, <3>2, <3>3 DEF SymDiff
  <2> QED
    BY <2>4, <2>5
<1> QED
  BY <1>8, <1>9, <1>10 DEF BansInv

-----------------------------------------------------------------------------
(* The drivers.                                                            *)

DriverInv == TypeOK /\ PeersInv /\ BansInv

LEMMA InitInv == Init => DriverInv
<1> SUFFICES ASSUME Init PROVE DriverInv
  OBVIOUS
<1>1. PeersInv
  BY NoSessionTypeOK, NoPeersIsPeerMap, PeerSyncAssumption
     DEF Init, PeersInit, PeersInv, PeersTypeOK, Session, CopyInv, PeersAreCurrent
<1>2. BansInv
  <2>1. enforced \subseteq Ban /\ unsure \subseteq Ban
    BY DEF Init, BansInit, Ban
  <2>2. BansTypeOK
    BY <2>1, KindsAssumption DEF Init, BansInit, BansTypeOK
  <2>3. RecordInv
    BY DEF Init, BansInit, RecordInv, SymDiff
  <2> QED
    BY <2>2, <2>3 DEF BansInv, ExactWhereAnswered, Init, BansInit
<1> QED
  BY <1>1, <1>2 DEF DriverInv, TypeOK, PeersInv, BansInv, Init

LEMMA StepInv == DriverInv /\ [Next]_vars => DriverInv'
<1> SUFFICES ASSUME DriverInv, [Next]_vars PROVE DriverInv'
  OBVIOUS
<1>0. PeersInv /\ BansInv /\ loggedIn \in BOOLEAN
  BY DEF DriverInv, TypeOK
<1> SUFFICES PeersInv' /\ BansInv' /\ loggedIn' \in BOOLEAN
  BY DEF DriverInv, TypeOK, PeersInv, BansInv
<1>1. CASE Connect
  <2>1. PeersInv'
    BY <1>0, <1>1, QuietKeeps DEF Connect, LoginRequest
  <2> QED
    BY <1>0, <1>1, <2>1, NewDriverKeeps DEF Connect, LoginRequest
<1>2. ASSUME NEW answer \in {"torrents", "none", "failed", "forbidden"}, FetchTorrents(answer)
      PROVE  PeersInv' /\ BansInv' /\ loggedIn' \in BOOLEAN
  <2>1. /\ kind = "qBittorrent" /\ Quiet /\ BansQuiet
        /\ session' = session \/ session' = NoSession
        /\ DropPeers \/ UNCHANGED <<peerRID, peerCache>>
        /\ ForgetSubmitted \/ UNCHANGED <<banCache, unsure>>
        /\ loggedIn' \in {TRUE, loggedIn}
    BY <1>2 DEF FetchTorrents, LoginAgain, LoginRequest
  <2> QED
    BY <1>0, <2>1, QuietKeeps, ForgetSubmittedKeeps
<1>3. ASSUME NEW t \in Torrent, NEW overdue \in BOOLEAN, NEW repeated \in BOOLEAN,
             FetchTorrentPeers(t, overdue, repeated)
      PROVE  PeersInv' /\ BansInv' /\ loggedIn' \in BOOLEAN
  BY <1>0, <1>3, FetchPeersKeeps, NoBanActivityKeeps DEF FetchTorrentPeers
<1>4. ASSUME NEW t \in Torrent, NEW overdue \in BOOLEAN, FetchTorrentPeersFails(t, overdue)
      PROVE  PeersInv' /\ BansInv' /\ loggedIn' \in BOOLEAN
  BY <1>0, <1>4, FetchPeersFailsKeeps, NoBanActivityKeeps DEF FetchTorrentPeersFails
<1>5. CASE Forbidden
  <2>1. /\ kind = "qBittorrent" /\ Quiet /\ BansQuiet /\ DropPeers /\ ForgetSubmitted
        /\ session' = session \/ session' = NoSession
        /\ loggedIn' \in {TRUE, loggedIn}
    BY <1>5 DEF Forbidden, LoginAgain, LoginRequest
  <2> QED
    BY <1>0, <2>1, QuietKeeps, ForgetSubmittedKeeps
<1>6. CASE SubmitBlockPeer
  <2>1. Quiet /\ UNCHANGED <<peerRID, peerCache, session, loggedIn>>
    BY <1>6 DEF SubmitBlockPeer
  <2>2. PeersInv'
    BY <1>0, <2>1, QuietKeeps
  <2>3. BansInv'
    BY <1>0, <1>6, SubmitUnchangedKeeps, SubmitPreferencesKeeps, SubmitPreferencesFailsKeeps,
       SubmitShadowBanKeeps, SubmitTasksKeeps, SubmitBlocklistKeeps DEF SubmitBlockPeer
  <2> QED
    BY <1>0, <2>1, <2>2, <2>3
<1>7. CASE Restart
  <2>1. PICK lost \in BOOLEAN : ClientRestarts(lost)
    <3>1. PICK lost \in {FALSE, MayForget} : ClientRestarts(lost)
      BY <1>7 DEF Restart
    <3> QED
      BY <3>1, MayForgetAssumption
  <2>2. Quiet /\ session' = NoSession /\ UNCHANGED <<peerRID, peerCache>> /\ loggedIn' \in BOOLEAN
    BY <1>0, <1>7 DEF Restart
  <2> QED
    BY <1>0, <2>1, <2>2, QuietKeeps, ClientRestartsKeeps
<1>8. CASE BanListChanges
  <2>1. Quiet /\ UNCHANGED <<peerRID, peerCache, session, loggedIn>>
    BY <1>8 DEF BanListChanges
  <2>2. PeersInv'
    BY <1>0, <2>1, QuietKeeps
  <2>3. BansInv'
    BY <1>0, <1>8, ListChangesKeeps, TasksChangeKeeps, ToggleShadowBanKeeps, DownloadKeeps
       DEF BanListChanges
  <2> QED
    BY <1>0, <2>1, <2>2, <2>3
<1>9. CASE TorrentsChange
  BY <1>0, <1>9, PeersChangeKeeps, NoBanActivityKeeps DEF TorrentsChange
<1>10. CASE UNCHANGED vars
  <2>1. UNCHANGED peerVars /\ UNCHANGED banVars /\ loggedIn' = loggedIn
    BY <1>10 DEF vars
  <2>2. PeersInv'
    BY <1>0, <2>1 DEF peerVars, PeersInv, PeersTypeOK, CopyInv, NoSession, PeersAreCurrent
  <2>3. BansInv'
    BY <1>0, <2>1 DEF banVars, BansInv, BansTypeOK, RecordInv, ExactWhereAnswered, Must, May
  <2> QED
    BY <1>0, <2>1, <2>2, <2>3
<1> QED
  BY <1>1, <1>2, <1>3, <1>4, <1>5, <1>6, <1>7, <1>8, <1>9, <1>10 DEF Next

LEMMA InvHolds == Spec => []DriverInv
BY InitInv, StepInv, PTL DEF Spec

(***************************************************************************)
(* The variables keep their types, for any number of answers to a session. *)
(***************************************************************************)
THEOREM DriverTypes == Spec => []TypeOK
<1>1. DriverInv => TypeOK
  BY DEF DriverInv
<1> QED
  BY <1>1, InvHolds, PTL

(***************************************************************************)
(* However many answers are lost, asked for twice or given by a new        *)
(* session, the peers the scanner gets are those of the torrent.           *)
(***************************************************************************)
THEOREM PeersGivenAreCurrent == Spec => []PeersAreCurrent
<1>1. DriverInv => PeersAreCurrent
  BY DEF DriverInv, PeersInv
<1> QED
  BY <1>1, InvHolds, PTL

(***************************************************************************)
(* Changes are only asked for on top of a copy.                            *)
(***************************************************************************)
THEOREM NeverMergesIntoNothing == Spec => []CursorHasCache
<1>1. DriverInv => CursorHasCache
  BY PeerSyncAssumption DEF DriverInv, PeersInv, CopyInv, CursorHasCache
<1> QED
  BY <1>1, InvHolds, PTL

(***************************************************************************)
(* A submission that reports success left the client enforcing the list,   *)
(* except where it is unsure: for every kind of client, and every order of *)
(* changes to the list, lost answers, logins and restarts.                 *)
(***************************************************************************)
THEOREM SuccessIsExactWhereAnswered == Spec => []ExactWhereAnswered
<1>1. DriverInv => ExactWhereAnswered
  BY DEF DriverInv, BansInv
<1> QED
  BY <1>1, InvHolds, PTL
=============================================================================
