------------------------------ MODULE BanPages -----------------------------
(***************************************************************************)
(* The pages of the ban list, /api/v1/bans of internal/webui/webui_bans.go.*)
(* All pages are cut from one shared snapshot of the list, kept for 30     *)
(* seconds and within one epoch of the feed; a page's cursor names the     *)
(* snapshot, the query and how far the pages got.                          *)
(*                                                                         *)
(* A handler reads the epoch under one lock and takes or renews the        *)
(* snapshot under another.  A browser asks for page after page, and starts *)
(* over when it is refused: the program's own page (webui.html) is one,    *)
(* and whatever else reads the API and follows its cursors.                *)
(***************************************************************************)
EXTENDS BanFeed

CONSTANTS
  Browser,
  Query,        \* what browsers ask for: [info, order], at most one info
  PageLimit,    \* the limit of a page
  MaxSnapshot   \* bound: the snapshots taken

\* There are finitely many IPs; they and what their entries show are compared,
\* as strings and numbers are.
ASSUME PagesAssumption ==
  /\ IP \subseteq Nat /\ IsFiniteSet(IP) /\ Info \subseteq Nat
  /\ Query # {} /\ Query \subseteq [info : SUBSET Info, order : {"ip", "-ip", "uploaded", "-uploaded"}]
  /\ PageLimit \in Nat \ {0}
  /\ MaxSnapshot \in Nat \ {0}

VARIABLES
  snapshot,  \* webUIBanSnapshot: its ID, epoch, peers, and whether 30 s passed
  snapshots, \* the creation times so far, which give the IDs
  browser    \* each browser's query, cursor, the pages so far and its request

pageVars == <<snapshot, snapshots, browser>>

NoCursor == [snapshot |-> 0, query |-> {}, offset |-> 0]

PagesTypeOK ==
  /\ snapshot.id \in 0 .. MaxSnapshot
  /\ snapshot.epoch \in 0 .. MaxEpoch
  /\ snapshot.peers \in Copies
  /\ snapshot.old \in BOOLEAN
  /\ snapshots \in 0 .. MaxSnapshot
  /\ \A b \in Browser :
       /\ browser[b].request \in {"none", "sent", "epochRead"}
       /\ browser[b].query \in Query
       /\ browser[b].cursor.snapshot \in 0 .. MaxSnapshot
       /\ browser[b].cursor.offset \in 0 .. Cardinality(IP)
       /\ browser[b].pages \in Seq(IP \X Info)

NoSnapshot == [id |-> 0, epoch |-> 0, peers |-> [ip \in {} |-> {}], old |-> FALSE]

\* The first page of a query, as after resetPeerQuery.
Idle == [request |-> "none", query |-> CHOOSE q \in Query : TRUE, cursor |-> NoCursor,
         epoch |-> 0, pages |-> <<>>, list |-> <<>>, done |-> FALSE]

PagesInit ==
  /\ snapshot = NoSnapshot
  /\ snapshots = 0
  /\ browser = [b \in Browser |-> Idle]

-----------------------------------------------------------------------------
\* The entries a query selects.
Selected(q, map) == {ip \in DOMAIN map : q.info \in {{}, {map[ip]}}}

\* The total order it asks for: equal entries are ordered by IP.
Before(q, map, i, j) ==
  CASE q.order = "-ip" -> i > j
    [] q.order = "uploaded" /\ map[i] # map[j] -> map[i] < map[j]
    [] q.order = "-uploaded" /\ map[i] # map[j] -> map[i] > map[j]
    [] OTHER -> i < j

\* The selected entries in that order, each once.
Listed(q, map) ==
  LET ips == CHOOSE s \in SetToSeqs(Selected(q, map)) :
               \A m, n \in DOMAIN s : m < n => Before(q, map, s[m], s[n])
  IN  [n \in DOMAIN ips |-> <<ips[n], map[ips[n]]>>]

\* 30 seconds pass.
SnapshotAges ==
  /\ snapshot.id # 0 /\ ~snapshot.old
  /\ snapshot' = [snapshot EXCEPT !.old = TRUE]
  /\ UNCHANGED <<snapshots, browser>>

\* A browser asks for the next page, or for the first one of any query.  Other
\* readers than the program's page may send a cursor along with another query.
Ask(b) ==
  /\ browser[b].request = "none"
  /\ \/ browser[b].cursor # NoCursor /\ \E q \in Query :
          browser' = [browser EXCEPT ![b].request = "sent", ![b].query = q]
     \/ \E q \in Query : browser' = [browser EXCEPT ![b] = [Idle EXCEPT !.request = "sent", !.query = q]]
  /\ UNCHANGED <<snapshot, snapshots>>

\* The handler checks the cursor against the query, and reads the epoch.
ReadEpoch(b) ==
  /\ enabled
  /\ browser[b].request = "sent"
  /\ browser' =
       IF browser[b].cursor # NoCursor /\ browser[b].cursor.query # browser[b].query
       THEN [browser EXCEPT ![b] = Idle]  \* 400
       ELSE [browser EXCEPT ![b].request = "epochRead", ![b].epoch = epoch]
  /\ UNCHANGED <<snapshot, snapshots>>

\* WebUIBanPeersSnapshot, under its lock: the list as it is now replaces a
\* snapshot that is missing, of another epoch or too old.
RenewedSnapshot(theirEpoch) ==
  IF snapshot.id # 0 /\ snapshot.epoch = theirEpoch /\ ~snapshot.old THEN snapshot
  ELSE [id |-> snapshots + 1, epoch |-> theirEpoch, peers |-> BlockPeers, old |-> FALSE]

\* Mutant: a cursor is good for whatever snapshot there is.
GoodFor_Any(theirs, snap) == TRUE

\* A cursor is good for the snapshot it was made for, no cursor for any.
GoodFor(theirs, snap) == theirs.snapshot \in {0, snap.id}

\* The page, with a cursor for the next one if there is more.
Page(b, snap) ==
  LET r == browser[b]
      list == Listed(r.query, snap.peers)
      end == IF r.cursor.offset + PageLimit > Len(list) THEN Len(list)
             ELSE r.cursor.offset + PageLimit
  IN  [r EXCEPT !.request = "none", !.epoch = 0,
                !.pages = @ \o SubSeq(list, r.cursor.offset + 1, end),
                !.list = IF r.cursor = NoCursor THEN list ELSE @,
                !.done = (end = Len(list)),
                !.cursor = IF end = Len(list) THEN NoCursor
                           ELSE [snapshot |-> snap.id, query |-> r.query, offset |-> end]]

AnswerPage(b) ==
  LET snap == RenewedSnapshot(browser[b].epoch) IN
  /\ browser[b].request = "epochRead"
  /\ snap.id <= MaxSnapshot
  /\ snapshot' = snap
  /\ snapshots' = IF snap.id > snapshots THEN snap.id ELSE snapshots
  /\ browser' = [browser EXCEPT ![b] =
       IF GoodFor(browser[b].cursor, snap) /\ browser[b].cursor.offset <= Len(Listed(browser[b].query, snap.peers))
       THEN Page(b, snap) ELSE Idle]  \* 409, 400

\* Somebody else asks for a first page: all it does to the rest is to the
\* snapshot.
OthersAsk ==
  LET snap == RenewedSnapshot(epoch) IN
  /\ enabled
  /\ snapshots < snap.id /\ snap.id <= MaxSnapshot
  /\ snapshot' = snap
  /\ snapshots' = snap.id
  /\ UNCHANGED browser

\* A restart loses the snapshot and the requests; browsers keep their cursors.
PagesRestart ==
  /\ snapshot' = NoSnapshot
  /\ browser' = [b \in Browser |-> [browser[b] EXCEPT !.request = "none", !.epoch = 0]]
  /\ UNCHANGED snapshots

BrowserStep(b) == Ask(b) \/ ReadEpoch(b) \/ AnswerPage(b)

(***************************************************************************)
(* The pages a browser follows to the end show the ban list as it was at   *)
(* one moment, each entry once and in order, although bans come and go,    *)
(* other browsers renew the snapshot, and the program reloads or restarts  *)
(* between two pages.                                                      *)
(***************************************************************************)
BansPages ==
  \A b \in Browser :
    /\ browser[b].pages = SubSeq(browser[b].list, 1, Len(browser[b].pages))
    /\ browser[b].done => browser[b].pages = browser[b].list
=============================================================================
