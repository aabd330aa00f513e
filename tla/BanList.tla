------------------------------ MODULE BanList ------------------------------
(***************************************************************************)
(* The ban list of internal/app/peer.go: blockPeerMap, the banned IPs, and *)
(* blockCIDRMap, the subnets under which they were banned.                 *)
(*                                                                         *)
(* The code stores the second at which an entry was last refreshed and     *)
(* only ever compares it with currentTimestamp, so an entry is kept here   *)
(* by its age, currentTimestamp - Timestamp: refreshing an entry makes its *)
(* age 0 and the passing of time makes every age grow.  Ages stop growing  *)
(* at MaxAge, which is above every ban time and clean interval: an entry   *)
(* of that age is expired for good, however old it is.                     *)
(*                                                                         *)
(* The ports of a ban are left out: IsBanPort is false unless              *)
(* qB_useNewBanPeersMethod is set, and nothing in the program sets it.     *)
(***************************************************************************)
EXTENDS Integers, FiniteSetsExt

CONSTANTS
  IP,        \* the peers' addresses
  Net,       \* the subnets the configured masks produce
  NoNet,     \* the nil *net.IPNet of the masks /32 and /128
  Configs,   \* the configurations the user may put in place
  Pauses,    \* the seconds that may pass between two scans
  MaxAge     \* where ages saturate

Age == 0 .. MaxAge

(***************************************************************************)
(* What a configuration says about bans: mask maps an address to its       *)
(* subnet under banIPCIDR or banIP6CIDR; banTime and cleanInterval are in  *)
(* seconds.                                                                *)
(***************************************************************************)
BanConfig(c) ==
  /\ c.mask \in [IP -> Net \cup {NoNet}]
  /\ c.banTime \in Nat /\ c.banTime < MaxAge
  /\ c.cleanInterval \in Nat /\ c.cleanInterval < MaxAge

ASSUME NoNetAssumption == NoNet \notin Net
ASSUME MaxAgeAssumption == MaxAge \in Nat
ASSUME PausesAssumption == Pauses \subseteq 1 .. MaxAge
ASSUME ConfigsAssumption == \A c \in Configs : BanConfig(c)

VARIABLES
  config,     \* the configuration in force
  blockPeer,  \* [banned IP -> age]
  blockCIDR,  \* [subnet -> [age, ips]], the IPs banned under that subnet
  cleanAge    \* currentTimestamp - lastCleanTimestamp

banVars == <<blockPeer, blockCIDR, cleanAge>>
banListVars == <<config, blockPeer, blockCIDR, cleanAge>>

Banned == DOMAIN blockPeer

BanTypeOK ==
  /\ config \in Configs
  /\ blockPeer \in [Banned -> Age]
  /\ Banned \subseteq IP
  /\ blockCIDR \in [DOMAIN blockCIDR -> [age : Age, ips : SUBSET IP]]
  /\ DOMAIN blockCIDR \subseteq Net
  /\ cleanAge \in Age

\* The process starts with nothing banned, and never cleaned up before.
BanInit ==
  /\ config \in Configs
  /\ blockPeer = [ip \in {} |-> 0]
  /\ blockCIDR = [n \in {} |-> [age |-> 0, ips |-> {}]]
  /\ cleanAge = MaxAge

-----------------------------------------------------------------------------
(* Operations.                                                             *)

Older(age, d) == IF age + d < MaxAge THEN age + d ELSE MaxAge

\* currentTimestamp moves on by d seconds.
BanTimePasses(d) ==
  /\ blockPeer' = [ip \in Banned |-> Older(blockPeer[ip], d)]
  /\ blockCIDR' = [n \in DOMAIN blockCIDR |->
                     [blockCIDR[n] EXCEPT !.age = Older(@, d)]]
  /\ cleanAge' = Older(cleanAge, d)

\* A map with one entry added or overwritten.
With(map, key, value) ==
  [k \in DOMAIN map \cup {key} |-> IF k = key THEN value ELSE map[k]]

\* Mutant: a nil subnet is entered like any other.
AddBlockCIDR_NilEntered(cidrs, ip, net) ==
  LET members == IF net \in DOMAIN cidrs THEN cidrs[net].ips ELSE {}
  IN  With(cidrs, net, [age |-> 0, ips |-> members \cup {ip}])

\* AddBlockCIDR: the subnet's entry is refreshed and gains the peer as a
\* member; a nil subnet is ignored.
AddBlockCIDR(cidrs, ip, net) ==
  IF net = NoNet THEN cidrs
  ELSE LET members == IF net \in DOMAIN cidrs THEN cidrs[net].ips ELSE {}
       IN  With(cidrs, net, [age |-> 0, ips |-> members \cup {ip}])

\* AddBlockPeer: the ban is created or refreshed, then entered under the
\* subnet of the mask in force.
AddBlockPeer(ip) ==
  /\ blockPeer' = With(blockPeer, ip, 0)
  /\ blockCIDR' = AddBlockCIDR(blockCIDR, ip, config.mask[ip])
  /\ UNCHANGED cleanAge

\* The Block callback of the statistics: AddBlockPeer, then AddBlockCIDR
\* under the subnet the statistics recorded with the peer, which may come
\* from a mask that has been replaced since.
BlockFromStatistics(ip, recorded) ==
  /\ blockPeer' = With(blockPeer, ip, 0)
  /\ blockCIDR' =
       AddBlockCIDR(AddBlockCIDR(blockCIDR, ip, config.mask[ip]), ip, recorded)
  /\ UNCHANGED cleanAge

\* IsBlockedPeer with updateTimestamp: the ban is refreshed, its subnet is not.
RefreshBlockedPeer(ip) ==
  /\ ip \in Banned
  /\ blockPeer' = [blockPeer EXCEPT ![ip] = 0]
  /\ UNCHANGED <<blockCIDR, cleanAge>>

\* IsMatchCIDR: some ban was entered under the peer's present subnet.
IsMatchCIDR(ip) == config.mask[ip] \in DOMAIN blockCIDR

-----------------------------------------------------------------------------
(* ClearBlockPeer.                                                         *)

Expired(age) == age > config.banTime

\* Mutant: an interval of 0 disables the clean-up.
ClearDue_ZeroDisables == config.cleanInterval # 0 /\ cleanAge > config.cleanInterval

ClearDue == config.cleanInterval = 0 \/ cleanAge > config.cleanInterval

\* Mutant: only the subnet of the mask in force renews, as if membership were
\* computed at clean-up instead of stored at the ban.
Renewers_PresentMask(ip) ==
  {n \in DOMAIN blockCIDR : n = config.mask[ip] /\ ~Expired(blockCIDR[n].age)}

\* Mutant: a subnet renews its members however old it is.
Renewers_AnyAge(ip) == {n \in DOMAIN blockCIDR : ip \in blockCIDR[n].ips}

\* The entries that can renew an expired ban: it is a member, and they are
\* not expired themselves, hence younger than the ban.  (A younger entry that
\* is expired too also replaces the timestamp, and the ban is removed still.)
Renewers(ip) ==
  {n \in DOMAIN blockCIDR : ip \in blockCIDR[n].ips /\ ~Expired(blockCIDR[n].age)}

Renewable == {ip \in Banned : Expired(blockPeer[ip]) /\ Renewers(ip) # {}}

\* Which entry renews which ban when the map is walked in Go's random order:
\* the first of its renewers in that order, so two bans with both renewers in
\* common are renewed by the same one.
RenewalChoices ==
  {by \in [Renewable -> DOMAIN blockCIDR] :
     /\ \A ip \in Renewable : by[ip] \in Renewers(ip)
     /\ \A p, q \in Renewable :
          by[p] \in Renewers(q) /\ by[q] \in Renewers(p) => by[p] = by[q]}

\* The bans that survive, given the renewals: no expired one does.
Kept == {ip \in Banned : Expired(blockPeer[ip]) => ip \in Renewable}

\* Mutant: the members that are no longer banned stay in the subnets.
ClearBlockPeer_NoSweep ==
  /\ ClearDue
  /\ \E by \in RenewalChoices :
       blockPeer' = [ip \in Kept |-> IF ip \in Renewable THEN blockCIDR[by[ip]].age
                                                         ELSE blockPeer[ip]]
  /\ cleanAge' = 0
  /\ UNCHANGED blockCIDR

\* ClearBlockPeer when it is due: renew, remove the expired bans, then
\* remove the members that are no longer banned and the entries left empty.
ClearBlockPeer ==
  /\ ClearDue
  /\ \E by \in RenewalChoices :
       blockPeer' = [ip \in Kept |-> IF ip \in Renewable THEN blockCIDR[by[ip]].age
                                                         ELSE blockPeer[ip]]
  /\ blockCIDR' = [n \in {m \in DOMAIN blockCIDR : blockCIDR[m].ips \cap Kept # {}} |->
                     [blockCIDR[n] EXCEPT !.ips = @ \cap Kept]]
  /\ cleanAge' = 0

-----------------------------------------------------------------------------
(***************************************************************************)
(* The component by itself: its operations in any order.  The main loop    *)
(* (ScanTask) calls them in a more regular one.                            *)
(***************************************************************************)
BanNext ==
  \/ \E d \in Pauses : BanTimePasses(d) /\ UNCHANGED config
  \/ config' \in Configs /\ UNCHANGED banVars
  \/ \E ip \in IP \ Banned : AddBlockPeer(ip) /\ UNCHANGED config
  \/ \E ip \in IP \ Banned, c \in Configs :
       BlockFromStatistics(ip, c.mask[ip]) /\ UNCHANGED config
  \/ \E ip \in IP : RefreshBlockedPeer(ip) /\ UNCHANGED config
  \/ ClearBlockPeer /\ UNCHANGED config

BanSpec == BanInit /\ [][BanNext]_banListVars

-----------------------------------------------------------------------------
(* Properties.                                                             *)

(***************************************************************************)
(* The two maps agree: every member of a subnet's entry is a banned IP,    *)
(* and no entry is empty.  They are changed under two locks, and an entry  *)
(* that outlived its members would go on banning strangers (CheckPeer,     *)
(* Bad-CIDR) for ever, since only the removal of a member removes it.      *)
(***************************************************************************)
SubnetsBanned ==
  \A n \in DOMAIN blockCIDR : blockCIDR[n].ips # {} /\ blockCIDR[n].ips \subseteq Banned

(***************************************************************************)
(* The lease of a ban: the youngest of its own entry and of the entries    *)
(* of the subnets it was banned under.  The ban list keeps the promise of  *)
(* BanLease although it brings leases up to date only when it clears, and  *)
(* whatever order Go walks its maps in.                                    *)
(***************************************************************************)
Lease(ip) ==
  Min({blockPeer[ip]} \cup
      {blockCIDR[n].age : n \in {m \in DOMAIN blockCIDR : ip \in blockCIDR[m].ips}})

Promise == INSTANCE BanLease WITH
             lease <- [ip \in Banned |-> Lease(ip)], banTime <- config.banTime

LeasesKept == Promise!BanLeaseSpec

(***************************************************************************)
(* A clean-up leaves no expired ban behind, whatever the subnets its bans  *)
(* share: an expired subnet renews nothing, so expired bans cannot keep    *)
(* one another alive.                                                      *)
(***************************************************************************)
ClearComplete ==
  [][cleanAge' < cleanAge => \A ip \in Banned' : ~Expired(blockPeer'[ip])]_banListVars
=============================================================================
