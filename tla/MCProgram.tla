----------------------------- MODULE MCProgram -----------------------------
(***************************************************************************)
(* Four scenes: the files and the address of one qBittorrent; two sync     *)
(* servers; a Transmission client beside the WebUI; and a first start from *)
(* qBittorrent.ini with panics and requests to stop.                       *)
(***************************************************************************)
EXTENDS Program

CONSTANTS h1, h2, s1, s2, good, bad

URLOf(h) == [host |-> h, api |-> FALSE]

MCDefaults ==
  [clientURL |-> NoURL, clientType |-> "", useShadowBan |-> TRUE, ignoreFailureExit |-> FALSE,
   webUI |-> "", syncServerURL |-> NoSync]

MCServed == [u \in {s1, s2} |-> IF u = s1 THEN {good, bad} ELSE {bad}]

File(state, content) == [state |-> state, content |-> content, mtime |-> 1]
Disk(own, additional, fallback) ==
  [f \in ConfigFile |-> IF f = "main" THEN own
                        ELSE IF f = "additional" THEN additional ELSE fallback]
Missing == File("missing", <<>>)
To(file, state, content) == [file |-> file, state |-> state, content |-> content]

Services == [h \in {h1, h2} |->
  [kind |-> IF h = h1 THEN "qBittorrent" ELSE "Transmission", login |-> "open", shadowBans |-> h = h1]]
NoIni == [readable |-> FALSE, enabled |-> FALSE, address |-> ""]

FilesScene ==
  LET own == [clientURL |-> URLOf(h1)]
      bare == [webUI |-> ""]
      extra == [useShadowBan |-> TRUE]
  IN [disk |-> Disk(File("fine", own), Missing, File("fine", extra)),
      edits |-> {To("main", "fine", own), To("main", "fine", bare), To("main", "broken", own),
                 To("main", "locked", own), To("additional", "fine", extra),
                 To("additional", "mistyped", extra), To("fallback", "denied", extra)},
      flags |-> BOOLEAN, service |-> Services, ini |-> NoIni, delay |-> FALSE, faults |-> FALSE]

SyncScene ==
  LET own(u) == [clientURL |-> URLOf(h1), syncServerURL |-> u]
  IN [disk |-> Disk(File("fine", own(s1)), Missing, Missing),
      edits |-> {To("main", "fine", own(u)) : u \in {s1, s2, NoSync}},
      flags |-> {FALSE}, service |-> Services, ini |-> NoIni, delay |-> FALSE, faults |-> FALSE]

ListenersScene ==
  LET own(h, w) == [clientURL |-> URLOf(h), webUI |-> w]
  IN [disk |-> Disk(File("fine", own(h2, "webUIListen")), Missing, Missing),
      edits |-> {To("main", "fine", own(h, w)) : h \in {h1, h2}, w \in Address \cup {""}},
      flags |-> {FALSE}, service |-> Services, ini |-> NoIni, delay |-> TRUE, faults |-> FALSE]

StopScene ==
  LET own == [ignoreFailureExit |-> TRUE, clientType |-> "qBittorrent"]
  IN [disk |-> Disk(File("fine", own), Missing, Missing),
      edits |-> {To("main", "fine", [clientURL |-> URLOf(h2)]),
                 To("main", "fine", [clientURL |-> URLOf(h2), clientType |-> "Transmission"])},
      flags |-> {FALSE}, service |-> [Services EXCEPT ![h1].login = "refused", ![h2].login = "accepted"],
      ini |-> [readable |-> TRUE, enabled |-> TRUE, address |-> "any"], delay |-> TRUE, faults |-> TRUE]

MCScenes == {FilesScene, SyncScene, ListenersScene, StopScene}
=============================================================================
