--------------------------- MODULE BanListProofs ---------------------------
(***************************************************************************)
(* Proofs about BanList, for every set of peers, subnets, configurations   *)
(* and times, and that it implements BanLease: with whatever masks,        *)
(* subnets, times and order of Go's maps, a ban lasts exactly as long as   *)
(* its lease, although leases are only brought up to date by clean-ups.    *)
(***************************************************************************)
EXTENDS BanList, TLAPS, WellFoundedInduction

\* Ages stay in range as they grow.
LEMMA OlderIsAge ==
  ASSUME NEW age \in Age, NEW d \in Pauses
  PROVE  Older(age, d) \in Age
BY MaxAgeAssumption, PausesAssumption DEF Older, Age

\* A fresh entry has an age.
LEMMA ZeroIsAge == 0 \in Age
BY MaxAgeAssumption DEF Age

CIDREntry == [age : Age, ips : SUBSET IP]

\* The part of the invariant that speaks of blockCIDR, of any map and any
\* set of banned peers.
CIDRsOK(cidrs, banned) ==
  /\ cidrs \in [DOMAIN cidrs -> CIDREntry]
  /\ DOMAIN cidrs \subseteq Net
  /\ \A n \in DOMAIN cidrs : cidrs[n].ips # {} /\ cidrs[n].ips \subseteq banned

\* Entering a banned peer under a subnet, or under none, keeps the map sound.
LEMMA AddBlockCIDRSound ==
  ASSUME NEW cidrs, NEW banned \in SUBSET IP, NEW ip \in banned,
         NEW net \in Net \cup {NoNet}, CIDRsOK(cidrs, banned)
  PROVE  CIDRsOK(AddBlockCIDR(cidrs, ip, net), banned)
<1>1. CASE net = NoNet
  BY <1>1 DEF AddBlockCIDR
<1>2. CASE net # NoNet
  <2> DEFINE members == IF net \in DOMAIN cidrs THEN cidrs[net].ips ELSE {}
             entry == [age |-> 0, ips |-> members \cup {ip}]
  <2>1. net \in Net
    BY <1>2
  <2>2. members \subseteq banned
    BY DEF CIDRsOK
  <2>3. entry \in CIDREntry /\ entry.ips # {} /\ entry.ips \subseteq banned
    BY <2>2, ZeroIsAge DEF CIDREntry
  <2>4. cidrs \in [DOMAIN cidrs -> CIDREntry]
    BY DEF CIDRsOK
  <2> HIDE DEF members, entry
  <2>5. /\ With(cidrs, net, entry) \in [DOMAIN cidrs \cup {net} -> CIDREntry]
        /\ DOMAIN With(cidrs, net, entry) = DOMAIN cidrs \cup {net}
        /\ With(cidrs, net, entry)[net] = entry
        /\ \A k \in DOMAIN cidrs \ {net} : With(cidrs, net, entry)[k] = cidrs[k]
    BY <2>3, <2>4 DEF With
  <2>6. CIDRsOK(With(cidrs, net, entry), banned)
    BY <2>1, <2>3, <2>5 DEF CIDRsOK
  <2> QED
    BY <1>2, <2>6 DEF AddBlockCIDR, members, entry
<1> QED
  BY <1>1, <1>2

\* The invariant of the two maps: it is inductive as it stands.
BanInv == BanTypeOK /\ SubnetsBanned

LEMMA BanInvSplit ==
  BanInv <=> /\ config \in Configs
             /\ blockPeer \in [Banned -> Age]
             /\ Banned \subseteq IP
             /\ CIDRsOK(blockCIDR, Banned)
             /\ cleanAge \in Age
BY DEF BanInv, BanTypeOK, SubnetsBanned, CIDRsOK, CIDREntry

LEMMA BanInvSplitNext ==
  BanInv' <=> /\ config' \in Configs
              /\ blockPeer' \in [Banned' -> Age]
              /\ Banned' \subseteq IP
              /\ CIDRsOK(blockCIDR', Banned')
              /\ cleanAge' \in Age
BY DEF BanInv, BanTypeOK, SubnetsBanned, CIDRsOK, CIDREntry

\* A larger ban list is as good for the subnets.
LEMMA MoreBanned ==
  ASSUME NEW cidrs, NEW banned, NEW more, CIDRsOK(cidrs, banned), banned \subseteq more
  PROVE  CIDRsOK(cidrs, more)
BY DEF CIDRsOK

\* A peer enters the ban list fresh.
LEMMA PeerBanned ==
  ASSUME BanInv, NEW ip \in IP, blockPeer' = With(blockPeer, ip, 0)
  PROVE  /\ blockPeer' \in [Banned' -> Age]
         /\ Banned' = Banned \cup {ip}
         /\ Banned' \subseteq IP
<1>1. blockPeer \in [Banned -> Age] /\ Banned \subseteq IP
  BY BanInvSplit
<1>2. /\ With(blockPeer, ip, 0) \in [Banned \cup {ip} -> Age]
      /\ DOMAIN With(blockPeer, ip, 0) = Banned \cup {ip}
  BY <1>1, ZeroIsAge DEF With, Banned
<1> QED
  BY <1>1, <1>2 DEF Banned

LEMMA MaskType ==
  ASSUME NEW c \in Configs, NEW ip \in IP
  PROVE  c.mask[ip] \in Net \cup {NoNet}
BY ConfigsAssumption DEF BanConfig

LEMMA BanInvInit == BanInit => BanInv
<1> SUFFICES ASSUME BanInit PROVE BanInv
  OBVIOUS
<1>1. Banned = {} /\ DOMAIN blockCIDR = {}
  BY DEF BanInit, Banned
<1>2. blockPeer \in [Banned -> Age] /\ blockCIDR \in [DOMAIN blockCIDR -> CIDREntry]
  BY <1>1 DEF BanInit, Banned
<1> QED
  BY <1>1, <1>2, MaxAgeAssumption DEF BanInit, BanInv, BanTypeOK, SubnetsBanned, Age, CIDREntry

LEMMA TimeKeepsInv ==
  ASSUME BanInv, NEW d \in Pauses, BanTimePasses(d), UNCHANGED config
  PROVE  BanInv'
<1>1. blockPeer' \in [Banned' -> Age] /\ Banned' = Banned
  BY OlderIsAge, BanInvSplit DEF BanTimePasses, Banned
<1>2. CIDRsOK(blockCIDR', Banned)
  <2>1. DOMAIN blockCIDR' = DOMAIN blockCIDR
    BY DEF BanTimePasses
  <2>2. ASSUME NEW n \in DOMAIN blockCIDR
        PROVE  /\ blockCIDR'[n] \in CIDREntry
               /\ blockCIDR'[n].ips = blockCIDR[n].ips
    <3>1. blockCIDR[n] \in CIDREntry
      BY BanInvSplit DEF CIDRsOK
    <3>2. blockCIDR'[n] = [blockCIDR[n] EXCEPT !.age = Older(blockCIDR[n].age, d)]
      BY DEF BanTimePasses
    <3>3. Older(blockCIDR[n].age, d) \in Age
      BY <3>1, OlderIsAge DEF CIDREntry
    <3> QED
      BY <3>1, <3>2, <3>3 DEF CIDREntry
  <2>3. blockCIDR' \in [DOMAIN blockCIDR' -> CIDREntry]
    BY <2>1, <2>2 DEF BanTimePasses
  <2> QED
    BY <2>1, <2>2, <2>3, BanInvSplit DEF CIDRsOK
<1>3. cleanAge' \in Age
  BY OlderIsAge, BanInvSplit DEF BanTimePasses
<1> QED
  BY <1>1, <1>2, <1>3, BanInvSplit, BanInvSplitNext

LEMMA BanKeepsInv ==
  ASSUME BanInv, NEW ip \in IP, AddBlockPeer(ip), UNCHANGED config
  PROVE  BanInv'
<1>1. /\ blockPeer' \in [Banned' -> Age]
      /\ Banned' = Banned \cup {ip}
      /\ Banned' \subseteq IP
  BY PeerBanned DEF AddBlockPeer
<1>2. CIDRsOK(blockCIDR, Banned')
  BY <1>1, BanInvSplit, MoreBanned
<1>3. config.mask[ip] \in Net \cup {NoNet}
  BY MaskType, BanInvSplit
<1>4. CIDRsOK(blockCIDR', Banned')
  BY <1>1, <1>2, <1>3, AddBlockCIDRSound DEF AddBlockPeer
<1> QED
  BY <1>1, <1>4, BanInvSplit, BanInvSplitNext DEF AddBlockPeer

LEMMA StatisticsKeepInv ==
  ASSUME BanInv, NEW ip \in IP, NEW c \in Configs,
         BlockFromStatistics(ip, c.mask[ip]), UNCHANGED config
  PROVE  BanInv'
<1>1. /\ blockPeer' \in [Banned' -> Age]
      /\ Banned' = Banned \cup {ip}
      /\ Banned' \subseteq IP
  BY PeerBanned DEF BlockFromStatistics
<1>2. CIDRsOK(blockCIDR, Banned')
  BY <1>1, BanInvSplit, MoreBanned
<1>3. config.mask[ip] \in Net \cup {NoNet} /\ c.mask[ip] \in Net \cup {NoNet}
  BY MaskType, BanInvSplit
<1> DEFINE first == AddBlockCIDR(blockCIDR, ip, config.mask[ip])
<1>4. CIDRsOK(first, Banned')
  BY <1>1, <1>2, <1>3, AddBlockCIDRSound
<1>5. CIDRsOK(blockCIDR', Banned')
  BY <1>1, <1>3, <1>4, AddBlockCIDRSound DEF BlockFromStatistics
<1> QED
  BY <1>1, <1>5, BanInvSplit, BanInvSplitNext DEF BlockFromStatistics

LEMMA RefreshKeepsInv ==
  ASSUME BanInv, NEW ip \in IP, RefreshBlockedPeer(ip), UNCHANGED config
  PROVE  BanInv'
<1>1. blockPeer' \in [Banned' -> Age] /\ Banned' = Banned
  BY ZeroIsAge, BanInvSplit DEF RefreshBlockedPeer, Banned
<1> QED
  BY <1>1, BanInvSplit, BanInvSplitNext DEF RefreshBlockedPeer

\* What a clean-up leaves: exactly the bans of Kept, none of them expired.
LEMMA ClearKeeps ==
  ASSUME BanInv, ClearBlockPeer
  PROVE  /\ Banned' = Kept
         /\ \A ip \in Kept : blockPeer'[ip] \in Age /\ ~Expired(blockPeer'[ip])
         /\ blockPeer' \in [Banned' -> Age]
<1>1. PICK by \in RenewalChoices :
        blockPeer' = [ip \in Kept |-> IF ip \in Renewable THEN blockCIDR[by[ip]].age
                                                          ELSE blockPeer[ip]]
  BY DEF ClearBlockPeer
<1>2. ASSUME NEW ip \in Kept
      PROVE  blockPeer'[ip] \in Age /\ ~Expired(blockPeer'[ip])
  <2>1. CASE ip \in Renewable
    <3>1. by[ip] \in Renewers(ip)
      BY <2>1 DEF RenewalChoices
    <3>2. blockCIDR[by[ip]] \in CIDREntry
      BY <3>1, BanInvSplit DEF Renewers, CIDRsOK
    <3> QED
      BY <1>1, <2>1, <3>1, <3>2 DEF Renewers, CIDREntry
  <2>2. CASE ip \notin Renewable
    BY <1>1, <2>2, BanInvSplit DEF Kept
  <2> QED
    BY <2>1, <2>2
<1> QED
  BY <1>1, <1>2 DEF Banned

LEMMA ClearKeepsInv ==
  ASSUME BanInv, ClearBlockPeer, UNCHANGED config
  PROVE  BanInv'
<1>1. Banned' = Kept /\ blockPeer' \in [Banned' -> Age]
  BY ClearKeeps
<1>2. Kept \subseteq IP
  BY BanInvSplit DEF Kept
<1>3. CIDRsOK(blockCIDR', Kept)
  <2>1. DOMAIN blockCIDR' = {m \in DOMAIN blockCIDR : blockCIDR[m].ips \cap Kept # {}}
    BY DEF ClearBlockPeer
  <2>2. ASSUME NEW n \in DOMAIN blockCIDR'
        PROVE  /\ blockCIDR'[n] \in CIDREntry
               /\ blockCIDR'[n].ips = blockCIDR[n].ips \cap Kept
    <3>1. blockCIDR[n] \in CIDREntry
      BY <2>1, BanInvSplit DEF CIDRsOK
    <3>2. blockCIDR'[n] = [blockCIDR[n] EXCEPT !.ips = blockCIDR[n].ips \cap Kept]
      BY <2>1 DEF ClearBlockPeer
    <3> QED
      BY <3>1, <3>2 DEF CIDREntry
  <2>3. blockCIDR' \in [DOMAIN blockCIDR' -> CIDREntry]
    BY <2>1, <2>2 DEF ClearBlockPeer
  <2> QED
    BY <2>1, <2>2, <2>3, BanInvSplit DEF CIDRsOK
<1> QED
  BY <1>1, <1>2, <1>3, ZeroIsAge, BanInvSplit, BanInvSplitNext DEF ClearBlockPeer

LEMMA BanInvNext == BanInv /\ [BanNext]_banListVars => BanInv'
<1> SUFFICES ASSUME BanInv, [BanNext]_banListVars PROVE BanInv'
  OBVIOUS
<1>1. ASSUME NEW d \in Pauses, BanTimePasses(d), UNCHANGED config PROVE BanInv'
  BY <1>1, TimeKeepsInv
<1>2. CASE config' \in Configs /\ UNCHANGED banVars
  BY <1>2 DEF BanInv, BanTypeOK, SubnetsBanned, banVars, Banned
<1>3. ASSUME NEW ip \in IP \ Banned, AddBlockPeer(ip), UNCHANGED config PROVE BanInv'
  BY <1>3, BanKeepsInv
<1>4. ASSUME NEW ip \in IP \ Banned, NEW c \in Configs,
             BlockFromStatistics(ip, c.mask[ip]), UNCHANGED config
      PROVE  BanInv'
  BY <1>4, StatisticsKeepInv
<1>5. ASSUME NEW ip \in IP, RefreshBlockedPeer(ip), UNCHANGED config PROVE BanInv'
  BY <1>5, RefreshKeepsInv
<1>6. CASE ClearBlockPeer /\ UNCHANGED config
  BY <1>6, ClearKeepsInv
<1>7. CASE UNCHANGED banListVars
  BY <1>7 DEF BanInv, BanTypeOK, SubnetsBanned, banListVars, Banned
<1> QED
  BY <1>1, <1>2, <1>3, <1>4, <1>5, <1>6, <1>7 DEF BanNext

(***************************************************************************)
(* The two maps keep their types and agree: no subnet's entry is empty or  *)
(* names an IP that is not banned, whatever operations, reloads of the     *)
(* masks and clean-ups follow one another.                                 *)
(***************************************************************************)
THEOREM MapsAgree == BanSpec => [](BanTypeOK /\ SubnetsBanned)
<1>1. BanSpec => []BanInv
  BY BanInvInit, BanInvNext, PTL DEF BanSpec
<1> QED
  BY <1>1, PTL DEF BanInv

(***************************************************************************)
(* The types alone: in particular no address outside those seen is banned, *)
(* and no age leaves its range.                                            *)
(***************************************************************************)
THEOREM BanTypes == BanSpec => []BanTypeOK
BY MapsAgree, PTL

(***************************************************************************)
(* Every clean-up leaves only bans that have not expired, whatever subnets *)
(* the bans share and in whatever order they are renewed.                  *)
(***************************************************************************)
THEOREM ClearIsComplete == BanSpec => ClearComplete
<1>1. ASSUME BanInv, [BanNext]_banListVars, cleanAge' < cleanAge
      PROVE  \A ip \in Banned' : ~Expired(blockPeer'[ip])
  <2>1. CASE ClearBlockPeer
    BY <1>1, <2>1, ClearKeeps
  <2>2. ASSUME NEW d \in Pauses, BanTimePasses(d) PROVE FALSE
    <3>1. cleanAge \in 0 .. MaxAge /\ d \in 1 .. MaxAge
      BY <1>1, PausesAssumption, BanInvSplit DEF Age
    <3>2. cleanAge' >= cleanAge
      BY <2>2, <3>1, MaxAgeAssumption DEF BanTimePasses, Older
    <3>3. cleanAge' \in Int
      BY <2>2, <3>1, MaxAgeAssumption DEF BanTimePasses, Older
    <3> QED
      BY <1>1, <3>1, <3>2, <3>3
  <2>3. ASSUME cleanAge' = cleanAge PROVE FALSE
    BY <1>1, <2>3, BanInvSplit DEF Age
  <2> QED
    BY <1>1, <2>1, <2>2, <2>3
       DEF BanNext, banListVars, banVars, AddBlockPeer, BlockFromStatistics,
           RefreshBlockedPeer
<1>2. BanSpec => []BanInv
  BY BanInvInit, BanInvNext, PTL DEF BanSpec
<1>3. BanInv /\ [BanNext]_banListVars =>
        [cleanAge' < cleanAge => \A ip \in Banned' : ~Expired(blockPeer'[ip])]_banListVars
  BY <1>1
<1> QED
  BY <1>2, <1>3, PTL DEF BanSpec, ClearComplete

-----------------------------------------------------------------------------
(***************************************************************************)
(* The youngest of some ages.                                              *)
(***************************************************************************)

LEMMA MinExists ==
  ASSUME NEW S \in SUBSET Nat, S # {}
  PROVE  Min(S) \in S /\ \A y \in S : Min(S) <= y
<1> DEFINE R == {p \in Nat \X Nat : p[1] < p[2]}
<1>1. IsWellFoundedOn(R, Nat)
  BY NatLessThanWellFounded DEF OpToRel
<1>2. PICK x \in S : \A y \in S : <<y, x>> \notin R
  BY <1>1, WFMin
<1>3. ASSUME NEW y \in S PROVE x <= y
  <2>1. x \in Nat /\ y \in Nat /\ <<y, x>> \notin R
    BY <1>2
  <2>2. ~ (y < x)
    BY <2>1
  <2> QED
    BY <2>1, <2>2
<1> QED
  BY <1>3 DEF Min

LEMMA MinIs ==
  ASSUME NEW S \in SUBSET Nat, NEW x \in S, \A y \in S : x <= y
  PROVE  Min(S) = x
<1>1. Min(S) \in S /\ Min(S) <= x
  BY MinExists
<1>2. x <= Min(S) /\ x \in Nat
  BY <1>1
<1>3. Min(S) \in Nat
  BY <1>1
<1>4. \A m, n \in Nat : m <= n /\ n <= m => m = n
  OBVIOUS
<1> QED
  BY <1>1, <1>2, <1>3, <1>4

\* The ages that a lease is the youngest of, of any two maps.
AgesOf(peers, cidrs, ip) ==
  {peers[ip]} \cup {cidrs[n].age : n \in {m \in DOMAIN cidrs : ip \in cidrs[m].ips}}

LEMMA LeaseIsMin == \A ip : Lease(ip) = Min(AgesOf(blockPeer, blockCIDR, ip))
BY DEF Lease, AgesOf

LEMMA LeaseIsMinNext == \A ip : Lease(ip)' = Min(AgesOf(blockPeer', blockCIDR', ip))
BY DEF Lease, AgesOf

LEMMA AgesAreAges ==
  ASSUME BanInv, NEW ip \in Banned
  PROVE  /\ AgesOf(blockPeer, blockCIDR, ip) \subseteq Age
         /\ AgesOf(blockPeer, blockCIDR, ip) # {}
         /\ Age \subseteq Nat
<1>1. Age \subseteq Nat
  BY MaxAgeAssumption DEF Age
<1>2. blockPeer[ip] \in Age
  BY BanInvSplit
<1>3. \A n \in DOMAIN blockCIDR : blockCIDR[n].age \in Age
  BY BanInvSplit DEF CIDRsOK, CIDREntry
<1> QED
  BY <1>1, <1>2, <1>3 DEF AgesOf

LEMMA AgesAreAgesNext ==
  ASSUME BanInv', NEW ip \in Banned'
  PROVE  AgesOf(blockPeer', blockCIDR', ip) \in SUBSET Nat
<1>1. blockPeer'[ip] \in Age
  BY BanInvSplitNext
<1>2. \A n \in DOMAIN blockCIDR' : blockCIDR'[n].age \in Age
  BY BanInvSplitNext DEF CIDRsOK, CIDREntry
<1> QED
  BY <1>1, <1>2, MaxAgeAssumption DEF AgesOf, Age

\* What a lease is: an age of the ban or of one of its subnets, and none is younger.
LEMMA LeaseOfBan ==
  ASSUME BanInv, NEW ip \in Banned
  PROVE  /\ Lease(ip) \in AgesOf(blockPeer, blockCIDR, ip)
         /\ \A age \in AgesOf(blockPeer, blockCIDR, ip) : Lease(ip) <= age
         /\ Lease(ip) \in Age
BY AgesAreAges, MinExists, LeaseIsMin

LEMMA LeaseNextIs ==
  ASSUME BanInv', NEW ip \in Banned', NEW x \in AgesOf(blockPeer', blockCIDR', ip),
         \A age \in AgesOf(blockPeer', blockCIDR', ip) : x <= age
  PROVE  Lease(ip)' = x
BY AgesAreAgesNext, MinIs, LeaseIsMinNext

\* A ban whose ages have not changed keeps its lease.
LEMMA LeaseUnchanged ==
  ASSUME NEW ip, AgesOf(blockPeer', blockCIDR', ip) = AgesOf(blockPeer, blockCIDR, ip)
  PROVE  Lease(ip)' = Lease(ip)
BY LeaseIsMin, LeaseIsMinNext
-----------------------------------------------------------------------------
(* The steps.                                                              *)

LEMMA OlderKeepsOrder ==
  ASSUME NEW a \in Age, NEW b \in Age, a <= b, NEW d \in Pauses
  PROVE  Older(a, d) <= Older(b, d)
BY MaxAgeAssumption, PausesAssumption DEF Older, Age

\* Time that passes makes the youngest of the ages older, like the others.
LEMMA TimePasses ==
  ASSUME BanInv, BanInv', NEW d \in Pauses, BanTimePasses(d), UNCHANGED config
  PROVE  Promise!Pass
<1>1. Banned' = Banned
  BY DEF BanTimePasses, Banned
<1>2. ASSUME NEW ip \in Banned PROVE Lease(ip)' = Older(Lease(ip), d)
  <2>1. AgesOf(blockPeer', blockCIDR', ip)
          = {Older(age, d) : age \in AgesOf(blockPeer, blockCIDR, ip)}
    <3>1. DOMAIN blockCIDR' = DOMAIN blockCIDR /\ blockPeer'[ip] = Older(blockPeer[ip], d)
      BY DEF BanTimePasses
    <3>2. \A n \in DOMAIN blockCIDR : blockCIDR'[n].age = Older(blockCIDR[n].age, d)
                                      /\ blockCIDR'[n].ips = blockCIDR[n].ips
      BY BanInvSplit DEF BanTimePasses, CIDRsOK, CIDREntry
    <3> QED
      BY <3>1, <3>2 DEF AgesOf
  <2>2. \A age \in AgesOf(blockPeer, blockCIDR, ip) : Older(Lease(ip), d) <= Older(age, d)
    BY LeaseOfBan, AgesAreAges, OlderKeepsOrder
  <2> QED
    BY <1>1, <2>1, <2>2, LeaseOfBan, LeaseNextIs
<1>3. d \in 1 .. MaxAge
  BY PausesAssumption
<1> QED
  BY <1>1, <1>2, <1>3 DEF Promise!Pass, Older

\* What entering a ban under a subnet does to the map of subnets.
Members(cidrs, net) == IF net \in DOMAIN cidrs THEN cidrs[net].ips ELSE {}
Entered(added, cidrs, ip, net) ==
  /\ net = NoNet => added = cidrs
  /\ net # NoNet =>
       /\ DOMAIN added = DOMAIN cidrs \cup {net}
       /\ added[net].age = 0 /\ added[net].ips = {ip} \cup Members(cidrs, net)
       /\ \A n \in DOMAIN cidrs \ {net} : added[n] = cidrs[n]

LEMMA AddBlockCIDREnters ==
  \A cidrs, ip, net : Entered(AddBlockCIDR(cidrs, ip, net), cidrs, ip, net)
BY DEF Entered, Members, AddBlockCIDR, With

\* A peer banned under two subnets, or the same twice, or none: its own lease and
\* those of the subnets' members begin anew, and no other changes.
LEMMA BanAddsLease ==
  ASSUME BanInv, BanInv', NEW ip \in IP \ Banned,
         NEW first \in Net \cup {NoNet}, NEW second \in Net \cup {NoNet},
         blockPeer' = With(blockPeer, ip, 0),
         blockCIDR' = AddBlockCIDR(AddBlockCIDR(blockCIDR, ip, first), ip, second),
         UNCHANGED config
  PROVE  \E neighbours \in SUBSET Banned : Promise!Ban(ip, neighbours)
<1> DEFINE neighbours == Members(blockCIDR, first) \cup Members(blockCIDR, second)
<1>1. Banned' = Banned \cup {ip} /\ blockPeer'[ip] = 0
      /\ \A p \in Banned : blockPeer'[p] = blockPeer[p]
  BY DEF With, Banned
<1>2. neighbours \subseteq Banned
  BY BanInvSplit DEF CIDRsOK, Members
<1>3. PICK once : once = AddBlockCIDR(blockCIDR, ip, first)
  OBVIOUS
<1>4. Entered(once, blockCIDR, ip, first)
  BY <1>3, AddBlockCIDREnters
<1>5. Entered(blockCIDR', once, ip, second)
  BY <1>3, AddBlockCIDREnters
<1>6. ASSUME NEW p \in Banned \ neighbours
      PROVE  AgesOf(blockPeer', blockCIDR', p) = AgesOf(blockPeer, blockCIDR, p)
  <2>1. p # ip /\ blockPeer'[p] = blockPeer[p]
    BY <1>1
  <2>2. \A n \in DOMAIN once : p \in once[n].ips =>
           n \in DOMAIN blockCIDR /\ once[n] = blockCIDR[n]
    BY <1>4, <2>1 DEF Entered, Members
  <2>3. \A n \in DOMAIN blockCIDR : p \in blockCIDR[n].ips =>
           n \in DOMAIN once /\ once[n] = blockCIDR[n]
    BY <1>4, <2>1 DEF Entered, Members
  <2>4. \A n \in DOMAIN blockCIDR' : p \in blockCIDR'[n].ips =>
           n \in DOMAIN blockCIDR /\ blockCIDR'[n] = blockCIDR[n]
    BY <1>5, <2>1, <2>2, <2>3 DEF Entered, Members
  <2>5. \A n \in DOMAIN blockCIDR : p \in blockCIDR[n].ips =>
           n \in DOMAIN blockCIDR' /\ blockCIDR'[n] = blockCIDR[n]
    BY <1>5, <2>1, <2>2, <2>3 DEF Entered, Members
  <2> QED
    BY <2>1, <2>4, <2>5 DEF AgesOf
<1>7. ASSUME NEW p \in neighbours \cup {ip} PROVE 0 \in AgesOf(blockPeer', blockCIDR', p)
  <2>1. CASE p = ip
    BY <1>1, <2>1 DEF AgesOf
  <2>2. CASE p \in Members(blockCIDR, second)
    <3>1. second # NoNet
      BY <2>2, NoNetAssumption, BanInvSplit DEF CIDRsOK, Members
    <3>2. second \in DOMAIN blockCIDR' /\ blockCIDR'[second].age = 0
          /\ p \in blockCIDR'[second].ips
      BY <1>4, <1>5, <2>2, <3>1 DEF Entered, Members
    <3> QED
      BY <3>2 DEF AgesOf
  <2>3. CASE p \in Members(blockCIDR, first)
    <3>1. first # NoNet
      BY <2>3, NoNetAssumption, BanInvSplit DEF CIDRsOK, Members
    <3>2. first \in DOMAIN blockCIDR' /\ blockCIDR'[first].age = 0
          /\ p \in blockCIDR'[first].ips
      BY <1>4, <1>5, <2>3, <3>1 DEF Entered, Members
    <3> QED
      BY <3>2 DEF AgesOf
  <2> QED
    BY <2>1, <2>2, <2>3
<1>8. \A p \in neighbours \cup {ip} : Lease(p)' = 0
  <2> SUFFICES ASSUME NEW p \in neighbours \cup {ip} PROVE Lease(p)' = 0
    OBVIOUS
  <2>1. p \in Banned'
    BY <1>1, <1>2
  <2>2. \A age \in AgesOf(blockPeer', blockCIDR', p) : 0 <= age
    BY <2>1, AgesAreAgesNext
  <2> QED
    BY <1>7, <2>1, <2>2, LeaseNextIs
<1>9. \A p \in Banned \ neighbours : Lease(p)' = Lease(p)
  BY <1>6, LeaseUnchanged
<1> HIDE DEF neighbours
<1>10. Promise!Ban(ip, neighbours)
  BY <1>1, <1>2, <1>8, <1>9 DEF Promise!Ban
<1> QED
  BY <1>2, <1>10

\* A peer that is observed has a fresh ban, hence a fresh lease.
LEMMA RefreshObserves ==
  ASSUME BanInv, BanInv', NEW ip \in IP, RefreshBlockedPeer(ip), UNCHANGED config
  PROVE  Promise!Observe(ip)
<1>1. ip \in Banned /\ Banned' = Banned /\ blockPeer'[ip] = 0 /\ blockCIDR' = blockCIDR
      /\ \A p \in Banned \ {ip} : blockPeer'[p] = blockPeer[p]
  BY DEF RefreshBlockedPeer, Banned
<1>2. \A p \in Banned \ {ip} : Lease(p)' = Lease(p)
  BY <1>1, LeaseUnchanged DEF AgesOf
<1>3. Lease(ip)' = 0
  <2>1. 0 \in AgesOf(blockPeer', blockCIDR', ip)
    BY <1>1 DEF AgesOf
  <2>2. \A age \in AgesOf(blockPeer', blockCIDR', ip) : 0 <= age
    BY <1>1, AgesAreAgesNext
  <2> QED
    BY <1>1, <2>1, <2>2, LeaseNextIs
<1> QED
  BY <1>1, <1>2, <1>3 DEF Promise!Observe

\* A clean-up lifts the bans whose lease has run out and leaves the other leases as
\* they are: a renewal only copies an age that the lease already counted.
LEMMA ClearLifts ==
  ASSUME BanInv, BanInv', ClearBlockPeer, UNCHANGED config
  PROVE  Promise!Lift
<1>1. Banned' = Kept
  BY ClearKeeps
<1>2. /\ DOMAIN blockCIDR' = {m \in DOMAIN blockCIDR : blockCIDR[m].ips \cap Kept # {}}
      /\ \A n \in DOMAIN blockCIDR' : /\ blockCIDR'[n].age = blockCIDR[n].age
                                      /\ blockCIDR'[n].ips = blockCIDR[n].ips \cap Kept
  BY BanInvSplit DEF ClearBlockPeer, CIDRsOK, CIDREntry
<1>3. PICK by \in RenewalChoices :
        blockPeer' = [ip \in Kept |-> IF ip \in Renewable THEN blockCIDR[by[ip]].age
                                                          ELSE blockPeer[ip]]
  BY DEF ClearBlockPeer
<1>4. config.banTime \in Nat
  BY BanInvSplit, ConfigsAssumption DEF BanConfig
<1>5. ASSUME NEW ip \in Banned PROVE ip \in Kept <=> Lease(ip) <= config.banTime
  <2>1. \A age \in AgesOf(blockPeer, blockCIDR, ip) : age \in Nat
    BY AgesAreAges
  <2>2. ip \in Kept <=> \E age \in AgesOf(blockPeer, blockCIDR, ip) : age <= config.banTime
    BY <1>4, <2>1 DEF Kept, Renewable, Renewers, Expired, AgesOf
  <2>3. Lease(ip) \in Nat
    BY LeaseOfBan, AgesAreAges
  <2> QED
    BY <1>4, <2>1, <2>2, <2>3, LeaseOfBan
<1>6. ASSUME NEW ip \in Kept PROVE Lease(ip)' = Lease(ip)
  <2>1. ip \in Banned
    BY DEF Kept
  <2>2. /\ \A n \in DOMAIN blockCIDR' : ip \in blockCIDR'[n].ips =>
               /\ n \in DOMAIN blockCIDR /\ ip \in blockCIDR[n].ips
               /\ blockCIDR'[n].age = blockCIDR[n].age
        /\ \A n \in DOMAIN blockCIDR : ip \in blockCIDR[n].ips =>
               /\ n \in DOMAIN blockCIDR' /\ ip \in blockCIDR'[n].ips
               /\ blockCIDR'[n].age = blockCIDR[n].age
    BY <1>2, <1>6
  <2>3. CASE ip \notin Renewable
    <3>1. blockPeer'[ip] = blockPeer[ip]
      BY <1>3, <1>6, <2>3
    <3>2. AgesOf(blockPeer', blockCIDR', ip) = AgesOf(blockPeer, blockCIDR, ip)
      BY <2>2, <3>1 DEF AgesOf
    <3> QED
      BY <3>2, LeaseUnchanged
  <2>4. CASE ip \in Renewable
    <3>1. by[ip] \in Renewers(ip)
      BY <2>4 DEF RenewalChoices
    <3>2. /\ blockPeer'[ip] = blockCIDR[by[ip]].age
          /\ by[ip] \in DOMAIN blockCIDR /\ ip \in blockCIDR[by[ip]].ips
          /\ ~Expired(blockCIDR[by[ip]].age)
      BY <1>3, <1>6, <2>4, <3>1 DEF Renewers
    <3>3. Expired(blockPeer[ip])
      BY <2>4 DEF Renewable
    <3>4. AgesOf(blockPeer, blockCIDR, ip)
            = AgesOf(blockPeer', blockCIDR', ip) \cup {blockPeer[ip]}
      BY <2>2, <3>2 DEF AgesOf
    <3>5. Lease(ip) # blockPeer[ip]
      <4>1. Lease(ip) <= config.banTime
        BY <1>5, <1>6, <2>1
      <4>2. blockPeer[ip] \in Nat /\ blockPeer[ip] > config.banTime
        BY <3>3, <2>1, AgesAreAges DEF Expired, AgesOf
      <4> QED
        BY <1>4, <4>1, <4>2
    <3> QED
      BY <1>1, <1>6, <2>1, <3>4, <3>5, LeaseOfBan, LeaseNextIs
  <2> QED
    BY <2>3, <2>4
<1>7. Kept = {ip \in Banned : Lease(ip) <= config.banTime}
  BY <1>5 DEF Kept
<1> QED
  BY <1>1, <1>6, <1>7 DEF Promise!Lift

LEMMA InitLeases == BanInit => Promise!LeaseInit
<1> SUFFICES ASSUME BanInit PROVE Promise!LeaseInit
  OBVIOUS
<1>1. Banned = {} /\ config \in Configs
  BY DEF BanInit, Banned
<1>2. config.banTime \in Nat
  BY <1>1, ConfigsAssumption DEF BanConfig
<1> QED
  BY <1>1, <1>2 DEF Promise!LeaseInit

LEMMA StepLeases ==
  ASSUME BanInv, BanInv', [BanNext]_banListVars
  PROVE  [Promise!LeaseNext]_Promise!leaseVars
<1>1. ASSUME NEW d \in Pauses, BanTimePasses(d), UNCHANGED config
      PROVE  Promise!LeaseNext
  BY <1>1, TimePasses DEF Promise!LeaseNext
<1>2. ASSUME config' \in Configs, UNCHANGED banVars PROVE Promise!LeaseNext
  <2>1. Banned' = Banned /\ \A ip \in Banned : Lease(ip)' = Lease(ip)
    BY <1>2, LeaseUnchanged DEF banVars, Banned
  <2>2. config'.banTime \in Nat
    BY <1>2, ConfigsAssumption DEF BanConfig
  <2>3. Promise!Reconfigure
    BY <2>1, <2>2 DEF Promise!Reconfigure
  <2> QED
    BY <2>3 DEF Promise!LeaseNext
<1>3. ASSUME NEW ip \in IP \ Banned, NEW recorded \in Net \cup {NoNet},
             BlockFromStatistics(ip, recorded), UNCHANGED config
      PROVE  Promise!LeaseNext
  <2>1. config.mask[ip] \in Net \cup {NoNet}
    BY MaskType, BanInvSplit
  <2>2. \E neighbours \in SUBSET Banned : Promise!Ban(ip, neighbours)
    BY <1>3, <2>1, BanAddsLease DEF BlockFromStatistics
  <2> QED
    BY <2>2 DEF Promise!LeaseNext
<1>4. ASSUME NEW ip \in IP \ Banned, AddBlockPeer(ip), UNCHANGED config
      PROVE  Promise!LeaseNext
  <2>1. BlockFromStatistics(ip, NoNet)
    BY <1>4 DEF AddBlockPeer, BlockFromStatistics, AddBlockCIDR
  <2> QED
    BY <1>3, <1>4, <2>1
<1>5. ASSUME NEW ip \in IP, RefreshBlockedPeer(ip), UNCHANGED config
      PROVE  Promise!LeaseNext
  BY <1>5, RefreshObserves DEF Promise!LeaseNext
<1>6. ASSUME ClearBlockPeer, UNCHANGED config PROVE Promise!LeaseNext
  BY <1>6, ClearLifts DEF Promise!LeaseNext
<1>7. ASSUME UNCHANGED banListVars PROVE UNCHANGED Promise!leaseVars
  <2>1. Banned' = Banned /\ config' = config /\ \A ip \in Banned : Lease(ip)' = Lease(ip)
    BY <1>7, LeaseUnchanged DEF banListVars, Banned
  <2> QED
    BY <2>1 DEF Promise!leaseVars
<1>8. ASSUME NEW c \in Configs, NEW ip \in IP PROVE c.mask[ip] \in Net \cup {NoNet}
  BY MaskType
<1> QED
  BY <1>1, <1>2, <1>3, <1>4, <1>5, <1>6, <1>7, <1>8 DEF BanNext

(***************************************************************************)
(* The ban list keeps the promise of BanLease: a ban's lease begins anew   *)
(* when the peer is banned or observed, or another is banned in a subnet   *)
(* both were entered under; a clean-up lifts exactly the bans whose lease  *)
(* has run out, and nothing else lifts one.                                *)
(***************************************************************************)
THEOREM BansAreLeases == BanSpec => LeasesKept
<1>1. BanSpec => []BanInv
  BY BanInvInit, BanInvNext, PTL DEF BanSpec
<1>2. BanInv /\ BanInv' /\ [BanNext]_banListVars => [Promise!LeaseNext]_Promise!leaseVars
  BY StepLeases
<1>3. BanInit => Promise!LeaseInit
  BY InitLeases
<1> QED
  BY <1>1, <1>2, <1>3, PTL DEF BanSpec, LeasesKept, Promise!BanLeaseSpec
=============================================================================
