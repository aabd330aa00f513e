----------------------------- MODULE Connection ----------------------------
(***************************************************************************)
(* How the program finds the BitTorrent client and logs in to it           *)
(* (internal/app/client.go, LoadInitConfig, and Detect and Login of the    *)
(* three drivers).  An address is a host with or without "/api" at its     *)
(* end: qBittorrent is also found behind an address that lacks it, and the *)
(* configuration is then corrected.                                        *)
(***************************************************************************)
EXTENDS ConfigFiles

CONSTANTS
  Host,      \* where clients may listen
  Localhost, \* the machine the program runs on
  NoURL,     \* the empty clientURL
  NoClient   \* currentClient = nil

Kinds == {"qBittorrent", "Transmission", "BitComet"}
URL == [host : Host, api : BOOLEAN]

\* What listens at a host: the kind of client if any, whether it is open to
\* everybody, accepts the user's password or refuses it, and whether it has the
\* switched-on API for shadow bans.
Service == [kind : Kinds \cup {NoClient}, login : {"open", "accepted", "refused"},
            shadowBans : BOOLEAN]

\* qBittorrent.ini: whether it can be read, whether it enables the WebUI, and
\* the address it gives for that: none, any of the machine's, or a host's.
Ini == [readable : BOOLEAN, enabled : BOOLEAN, address : Host \cup {"", "any"}]

ASSUME ConnectionAssumption ==
  /\ Localhost \in Host
  /\ NoURL \notin URL
  /\ NoClient \notin Kinds
  /\ {"clientURL", "clientType", "useShadowBan"} \subseteq DOMAIN Defaults

VARIABLES
  service,    \* external: what listens at each host
  ini,        \* external: qBittorrent.ini of this user
  client,     \* the kind of the current driver
  lastURL,    \* the address last logged in to
  cancelled   \* the request context is cancelled

connectionVars == <<service, ini, client, lastURL, cancelled>>

ConnectionTypeOK ==
  /\ service \in [Host -> Service]
  /\ ini \in Ini
  /\ client \in Kinds \cup {NoClient}
  /\ {lastURL, config.clientURL} \subseteq URL \cup {NoURL}
  /\ cancelled \in BOOLEAN

ConnectionInit ==
  /\ client = NoClient
  /\ lastURL = NoURL
  /\ cancelled = FALSE

-----------------------------------------------------------------------------
(* The requests of the drivers, none of which need arrive.                 *)

At(u, kind) == u # NoURL /\ ~cancelled /\ service[u.host].kind = kind

\* Detection asks without a password.  qBittorrent and BitComet are known by
\* their refusals too; Transmission has to be open.
QbDetect(u) == At(u, "qBittorrent")
TrDetect(u) == At(u, "Transmission") /\ service[u.host].login = "open"
BcDetect(u) == At(u, "BitComet")
Detect(kind, u) ==
  \/ kind = "qBittorrent" /\ QbDetect(u)
  \/ kind = "Transmission" /\ TrDetect(u)
  \/ kind = "BitComet" /\ BcDetect(u)

\* The address of qBittorrent ends in "/api" once it is detected.
Endpoint(kind, u) == IF kind = "qBittorrent" THEN [u EXCEPT !.api = TRUE] ELSE u

\* qBittorrent says "Ok." or 204, and has no login page without "/api";
\* Transmission sends a session token; BitComet shows its panel.
Accepted(u) == service[u.host].login # "refused"
QbLogin(u) == At(u, "qBittorrent") /\ u.api /\ Accepted(u)
TrLogin(u) == At(u, "Transmission") /\ Accepted(u)
BcLogin(u) == At(u, "BitComet") /\ Accepted(u)
Login(kind, u) ==
  \/ kind = "qBittorrent" /\ QbLogin(u)
  \/ kind = "Transmission" /\ TrLogin(u)
  \/ kind = "BitComet" /\ BcLogin(u)

\* The preferences of qBittorrent show whether shadow bans are switched on; a
\* request without peers shows whether they are there at all.
QbTestShadowBanAPI(u) == QbLogin(u) /\ service[u.host].shadowBans
TestShadowBanAPI(kind, u) == kind = "qBittorrent" /\ QbTestShadowBanAPI(u)

-----------------------------------------------------------------------------
(* LoadInitConfig after the files.                                         *)

\* The address of the local qBittorrent, where any address is the local one.
QbSetURL ==
  IF ~ini.readable \/ ~ini.enabled \/ ini.address = "" THEN NoURL
  ELSE [host |-> IF ini.address = "any" THEN Localhost ELSE ini.address, api |-> TRUE]

\* At the first load only.  Transmission's SetURL never finds an address.
SetURLFromClient(c) == IF c.clientURL = NoURL THEN [c EXCEPT !.clientURL = QbSetURL] ELSE c

\* The drivers DetectClient finds a client for, if no request is lost.
Candidates(c) == {k \in Kinds : c.clientType \in {"", k} /\ Detect(k, c.clientURL)}

\* What it installs: the driver found, or the one clientType names anyhow.
DetectClient(c, found) ==
  IF found # {} THEN CHOOSE k \in found : TRUE
  ELSE IF c.clientType # "" THEN c.clientType ELSE NoClient

\* The configuration after detection, with the address corrected.
Corrected(c, found) ==
  IF found = {} THEN c ELSE [c EXCEPT !.clientURL = Endpoint(DetectClient(c, found), @)]

\* Without an address the one in use stays in use.
KeepURL(c) == IF c.clientURL = NoURL THEN [c EXCEPT !.clientURL = lastURL] ELSE c

\* Mutant: the address is remembered as it was read.
AdoptedURL_AsRead(read, corrected) == read.clientURL

\* The address remembered once logged in, which is the corrected one.
AdoptedURL(read, corrected) == corrected.clientURL

\* Shadow bans are used as long as the client in use supports them; without
\* an answer they count as unsupported, until a file asks for them again.
ShadowBanChecked(c, kind) ==
  {IF answered /\ TestShadowBanAPI(kind, c.clientURL) THEN c
   ELSE [c EXCEPT !.useShadowBan = FALSE] : answered \in BOOLEAN}

\* The address is the one logged in to, or there is none.
Stays(c) ==
  /\ c.clientURL \in {NoURL, lastURL}
  /\ config' \in ShadowBanChecked(KeepURL(c), client)
  /\ UNCHANGED <<client, lastURL>>

\* The address is new: no client is found there, or the login fails.
ConnectFails(c) ==
  /\ c.clientURL \notin {NoURL, lastURL}
  /\ \E found \in {Candidates(c), {}} :
       client' = DetectClient(c, found) /\ config' = Corrected(c, found)
  /\ UNCHANGED lastURL

\* The address is new and the client accepts the user.
Connects(c) ==
  LET corrected == Corrected(c, Candidates(c))
      kind == DetectClient(c, Candidates(c))
  IN  /\ c.clientURL \notin {NoURL, lastURL}
      /\ Login(kind, corrected.clientURL)
      /\ client' = kind
      /\ lastURL' = AdoptedURL(c, corrected)
      /\ config' \in ShadowBanChecked(corrected, kind)
=============================================================================
