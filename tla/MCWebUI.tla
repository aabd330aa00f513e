------------------------------ MODULE MCWebUI ------------------------------
(***************************************************************************)
(* Two peers whose entries show one of two things.  Pollers have a ring of *)
(* two events, browsers pages of one entry, readers of the log a ring of   *)
(* three entries and pages of two.                                         *)
(***************************************************************************)
EXTENDS WebUI

CONSTANTS poller1, b1, debugLog, infoLog

MCQuery == {[info |-> {}, order |-> "-uploaded"], [info |-> {2}, order |-> "ip"]}
=============================================================================
