-------------------------- MODULE MCClientDriver --------------------------
(***************************************************************************)
(* Two torrents that share a peer, whose upload counter is 0 or 1 and      *)
(* whose other field never changes; two addresses to ban.                  *)
(***************************************************************************)
EXTENDS ClientDriver, TLC

MCRecords == {[client |-> 1, uploaded |-> u] : u \in 0 .. 1}
Alike == Permutations(IP) \cup Permutations(Task)
=============================================================================
