------------------------------ MODULE BanLease -----------------------------
(***************************************************************************)
(* What the ban list promises: a ban is a lease.  It begins anew whenever  *)
(* the peer is banned, or is observed while banned, and whenever another   *)
(* peer is banned in a subnet both were banned under.  A clean-up lifts    *)
(* exactly the bans whose lease is older than the ban time, and nothing    *)
(* else ever lifts a ban or shortens a lease.                              *)
(*                                                                         *)
(* internal/app/peer.go extends the leases of a subnet lazily, when a      *)
(* clean-up finds one of its bans expired, from timestamps kept in two     *)
(* maps walked in random order.  BanLeaseSpec is the same promise with     *)
(* every lease kept up to date.                                            *)
(***************************************************************************)
EXTENDS Integers

CONSTANTS IP, MaxAge

VARIABLES
  lease,    \* [banned IP -> age of its lease]
  banTime   \* how long a lease lasts

leaseVars == <<lease, banTime>>

LeaseInit == lease = [ip \in {} |-> 0] /\ banTime \in Nat

\* Time passes; leases age up to MaxAge.
Pass == \E d \in 1 .. MaxAge :
  /\ lease' = [ip \in DOMAIN lease |->
                 IF lease[ip] + d < MaxAge THEN lease[ip] + d ELSE MaxAge]
  /\ UNCHANGED banTime

Reconfigure == banTime' \in Nat /\ UNCHANGED lease

\* A banned peer is observed again.
Observe(ip) ==
  /\ ip \in DOMAIN lease
  /\ lease' = [lease EXCEPT ![ip] = 0]
  /\ UNCHANGED banTime

\* A peer is banned; the leases of its neighbours begin anew with its own.
Ban(ip, neighbours) ==
  /\ ip \notin DOMAIN lease
  /\ lease' = [p \in DOMAIN lease \cup {ip} |->
                 IF p \in neighbours \cup {ip} THEN 0 ELSE lease[p]]
  /\ UNCHANGED banTime

\* A clean-up lifts the bans whose lease has run out.
Lift ==
  /\ lease' = [ip \in {p \in DOMAIN lease : lease[p] <= banTime} |-> lease[ip]]
  /\ UNCHANGED banTime

LeaseNext ==
  \/ Pass \/ Reconfigure \/ Lift
  \/ \E ip \in IP : Observe(ip)
  \/ \E ip \in IP : \E neighbours \in SUBSET DOMAIN lease : Ban(ip, neighbours)

BanLeaseSpec == LeaseInit /\ [][LeaseNext]_leaseVars
=============================================================================
