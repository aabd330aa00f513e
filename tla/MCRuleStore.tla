---------------------------- MODULE MCRuleStore ----------------------------
(* A small instance of RuleStore.  Two URLs and a file have rules in       *)
(* common, one of the lists has a line that does not compile, and the      *)
(* configurations differ in what they subscribe to and in whether there is *)
(* a cache directory.                                                      *)
EXTENDS RuleStore

CONSTANTS r1, r2, bad, u1, u2, f1

MCLines    == {r1, r2, bad}
MCContents == {{r1}, {r1, r2}, {r2, bad}}
MCUrls     == {u1, u2}
MCFiles    == {f1}
MCConfigs  == {[list |-> {r1}, urls |-> <<u1, u2>>, files |-> <<f1>>, cache |-> TRUE],
               [list |-> {r2, bad}, urls |-> <<u1>>, files |-> << >>, cache |-> FALSE]}
Version(t, body, state) == [mtime |-> t, body |-> body, state |-> state]
MCVersions == {Version(1, {r2, bad}, "sound"), Version(1, {r2, bad}, "unreadable"),
               Version(2, {r1}, "wrong")}
=============================================================================
