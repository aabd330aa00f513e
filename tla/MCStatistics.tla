---------------------------- MODULE MCStatistics ----------------------------
(***************************************************************************)
(* One IP.  The statistics by IP: two endpoints on two ports in two        *)
(* torrents, of a client that reports no IDs, or a single endpoint at      *)
(* which two peers alternate and whose reports may lack the counter.  The  *)
(* statistics by torrent: another such endpoint, two endpoints in one      *)
(* torrent, or two in two torrents of which one must be trimmed.  A longer *)
(* pause than one second is two of them.                                   *)
(***************************************************************************)
EXTENDS Statistics

CONSTANTS a1, a2, b, c, d, ip, h1, h2, idA, idB

MCConn == {a1, a2, b, c, d}
MCIPOf == [k \in MCConn |-> ip]
MCHashOf == [k \in MCConn |-> IF k = a2 THEN h2 ELSE h1]
MCPortOf == [k \in MCConn |-> k]
MCGroupOf == [i \in {ip} |-> i]
MCPeersAt == [k \in MCConn |-> IF k \in {c, d} THEN {idA, idB} ELSE {NoId}]
MCId == {idA, idB}
MCProgress == [k \in MCConn |-> CASE k = d -> {2} [] k = b -> {0} [] OTHER -> {0, 2}]
MCSwarmsOf == [s \in {"IP", "torrents"} |->
                 IF s = "IP" THEN {{a1, a2}, {c}} ELSE {{d}, {a1, b}, {a1, a2}}]
MCSwarms == MCSwarmsOf["IP"] \cup MCSwarmsOf["torrents"]
MCMaxRaw == [k \in MCConn |-> IF k \in {b, c, d} THEN 2 ELSE 1]
MCMaxSent == [k \in MCConn |-> IF k = d THEN 3 ELSE 2]
=============================================================================
