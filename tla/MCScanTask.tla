---------------------------- MODULE MCScanTask -----------------------------
(***************************************************************************)
(* Two peers, one or two clients, bans that expire as soon as time passes  *)
(* unless their peers are seen.  The subnets are left to MCBanList: here   *)
(* only one mask gives one.                                                *)
(***************************************************************************)
EXTENDS ScanTask

CONSTANTS p1, p2, subnet, urlA, urlB

NoMask == [ip \in {p1, p2} |-> NoNet]
Mask == [ip \in {p1, p2} |-> subnet]

MCConfigs == {[mask |-> NoMask, banTime |-> 0, cleanInterval |-> 0]}
MCMaskedConfigs == MCConfigs \cup {[mask |-> Mask, banTime |-> 1, cleanInterval |-> 1]}

\* One client, which the user may also leave out; and two clients.
OneClient == {[url |-> urlA, typed |-> FALSE], [url |-> NoURL, typed |-> FALSE]}
TwoClients == {[url |-> u, typed |-> FALSE] : u \in {urlA, urlB}}

MCKindOf == [u \in {urlA, urlB} |-> IF u = urlA THEN "qBittorrent" ELSE "Transmission"]

Quiet == [private |-> FALSE, rule |-> "none", idle |-> FALSE, cheating |-> FALSE,
          ignored |-> FALSE, tracked |-> TRUE]

MCSample ==
  {Quiet, [Quiet EXCEPT !.rule = "client", !.idle = TRUE], [Quiet EXCEPT !.idle = TRUE]}
=============================================================================
