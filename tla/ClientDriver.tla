--------------------------- MODULE ClientDriver ---------------------------
(***************************************************************************)
(* The driver of the current client: what it remembers of the peers and of *)
(* the bans, and the calls of internal/app/client.go that concern both.    *)
(* For qBittorrent every refused request may be the sign of an expired     *)
(* session: Fetch and Submit of internal/app/request.go then log in again  *)
(* in the middle of the driver's own call, and Login forgets everything.   *)
(***************************************************************************)
EXTENDS QbPeerSync, ClientBans

CONSTANT MayForget \* whether a client that restarts may lose its ban list

ASSUME MayForgetAssumption == MayForget \in BOOLEAN

VARIABLE loggedIn  \* external: qBittorrent accepts the cookie

vars == <<peerVars, banVars, loggedIn>>

TypeOK == PeersTypeOK /\ BansTypeOK /\ loggedIn \in BOOLEAN

Init == PeersInit /\ BansInit /\ loggedIn = FALSE

Quiet == got' = Nil /\ UNCHANGED peersOf
BansQuiet == outcome' = "none" /\ UNCHANGED <<kind, shadow, list, tasksOf, bannedTaskIPs,
                                              ipfilter, enforced>>
NoBanActivity == outcome' = "none" /\ UNCHANGED <<kind, shadow, list, tasksOf, records, enforced, unsure>>

\* A login begins a session, or fails.
LoginRequest ==
  \/ loggedIn' = TRUE /\ session' = NoSession
  \/ UNCHANGED <<loggedIn, session>>

\* DetectClient and Login, when LoadInitConfig adopts a URL.
Connect ==
  /\ NewDriver
  /\ DropPeers
  /\ LoginRequest
  /\ Quiet

\* Login of the qBittorrent driver, called again by Fetch or Submit.
LoginAgain ==
  /\ ~loggedIn
  /\ DropPeers
  /\ ForgetSubmitted
  /\ LoginRequest

\* FetchTorrents of qBittorrent; the other drivers only pass on what they get.
\* An answer without torrents also ends the use of the copy.
FetchTorrents(answer) ==
  /\ kind = "qBittorrent"
  /\ CASE answer = "torrents" -> loggedIn /\ UNCHANGED <<peerRID, peerCache, banCache, unsure, session, loggedIn>>
       [] answer = "none" -> loggedIn /\ DropPeers /\ UNCHANGED <<banCache, unsure, session, loggedIn>>
       [] answer = "failed" -> DropPeers /\ ForgetSubmitted /\ UNCHANGED <<session, loggedIn>>
       [] answer = "forbidden" -> LoginAgain
  /\ Quiet
  /\ BansQuiet

FetchTorrentPeers(t, overdue, repeated) ==
  /\ kind = "qBittorrent"
  /\ loggedIn
  /\ FetchPeers(t, overdue, repeated)
  /\ NoBanActivity
  /\ UNCHANGED loggedIn

FetchTorrentPeersFails(t, overdue) ==
  /\ kind = "qBittorrent"
  /\ loggedIn
  /\ FetchPeersFails(t, overdue)
  /\ NoBanActivity
  /\ UNCHANGED loggedIn

\* A request for peers, or a submission, that is refused for want of a session.
Forbidden ==
  /\ kind = "qBittorrent"
  /\ LoginAgain
  /\ Quiet
  /\ BansQuiet

\* SubmitBlockPeer dispatches on the client and on UseShadowBan.
SubmitBlockPeer ==
  /\ \/ SubmitUnchanged
     \/ loggedIn /\ SubmitPreferences
     \/ loggedIn /\ \E applied \in BOOLEAN : SubmitPreferencesFails(applied)
     \/ loggedIn /\ \E answered \in BOOLEAN : SubmitShadowBan(answered)
     \/ \E unbanned, banned, unbanApplied, banApplied \in SUBSET Task :
          SubmitTasks(unbanned, banned, unbanApplied, banApplied)
     \/ \E downloaded \in BOOLEAN : SubmitBlocklist(downloaded)
  /\ Quiet
  /\ UNCHANGED <<peerRID, peerCache, session, loggedIn>>

-----------------------------------------------------------------------------
(* The environment.                                                        *)

\* qBittorrent may let the program in without a cookie, in which case a
\* restart does not end with a refused request.
Restart ==
  /\ \E lost \in {FALSE, MayForget} : ClientRestarts(lost)
  /\ session' = NoSession
  /\ loggedIn' \in {FALSE, loggedIn}
  /\ Quiet
  /\ UNCHANGED <<peerRID, peerCache>>

BanListChanges ==
  /\ \/ \E l \in SUBSET IP : ListChanges(l)
     \/ \E ip \in IP, tasks \in SUBSET Task : TasksChange(ip, tasks)
     \/ ToggleShadowBan
     \/ Download
  /\ Quiet
  /\ UNCHANGED <<peerRID, peerCache, session, loggedIn>>

TorrentsChange ==
  /\ kind = "qBittorrent"
  /\ \E t \in Torrent, p \in PeerMap : PeersChange(t, p)
  /\ NoBanActivity
  /\ UNCHANGED loggedIn

Next ==
  \/ Connect
  \/ \E answer \in {"torrents", "none", "failed", "forbidden"} : FetchTorrents(answer)
  \/ \E t \in Torrent, overdue, repeated \in BOOLEAN : FetchTorrentPeers(t, overdue, repeated)
  \/ \E t \in Torrent, overdue \in BOOLEAN : FetchTorrentPeersFails(t, overdue)
  \/ Forbidden
  \/ SubmitBlockPeer
  \/ Restart
  \/ BanListChanges
  \/ TorrentsChange

Spec == Init /\ [][Next]_vars
=============================================================================
