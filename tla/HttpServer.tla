----------------------------- MODULE HttpServer ----------------------------
(***************************************************************************)
(* Starting and stopping the program's own HTTP server                     *)
(* (internal/app/server.go).  StartServer is called by the main goroutine  *)
(* and, whenever a Transmission client has been logged in to, by a         *)
(* goroutine of its own.  Nothing locks Server_Status or Server_Listeners: *)
(* a call reads the list of listeners, and writes it back with its own     *)
(* listener at the end, in two steps.                                      *)
(***************************************************************************)
EXTENDS Naturals, Sequences

CONSTANT Busy \* the addresses another program listens on

Starter == {"main", "client"}
Address == {"listen", "webUIListen"}

ASSUME BusyAssumption == Busy \subseteq Address

VARIABLES
  starter,      \* each call of StartServer: where it is, and what it has read
  bound,        \* the addresses the program listens on
  listeners,    \* Server_Listeners
  serverStatus, \* Server_Status
  served,       \* the listeners whose connections are accepted
  shut          \* httpServer.Shutdown was called

serverVars == <<starter, bound, listeners, serverStatus, served, shut>>

AtRest == [at |-> "idle", addrs |-> <<>>, read |-> {}]

ServerTypeOK ==
  /\ \A s \in Starter : /\ starter[s].at \in {"idle", "bind", "append", "serve"}
                        /\ starter[s].addrs \in {<<>>, <<"listen">>, <<"webUIListen">>,
                                                 <<"listen", "webUIListen">>}
                        /\ starter[s].read \subseteq Address
  /\ bound \subseteq Address \ Busy
  /\ listeners \subseteq bound
  /\ served \subseteq bound
  /\ serverStatus \in BOOLEAN
  /\ shut \in BOOLEAN

ServerInit ==
  /\ starter = [s \in Starter |-> AtRest]
  /\ bound = {}
  /\ listeners = {}
  /\ serverStatus = FALSE
  /\ served = {}
  /\ shut = FALSE

\* The addresses to listen on: Transmission's, then the WebUI's ("" when it is
\* off) unless that is the same one.
Addresses(transmission, webUI) ==
  (IF transmission THEN <<"listen">> ELSE <<>>)
    \o (IF webUI = "" \/ (transmission /\ webUI = "listen") THEN <<>> ELSE <<webUI>>)

Starts(s, transmission, webUI) ==
  IF serverStatus \/ Addresses(transmission, webUI) = <<>> THEN starter[s]
  ELSE [at |-> "bind", addrs |-> Addresses(transmission, webUI), read |-> {}]

\* The call goes on to its next address, or to serving.
NextAt(a) == IF Len(a) > 1 THEN "bind" ELSE "serve"

\* CreateListener fails when the address is taken, by this program too.
BindFails(s) ==
  /\ starter[s].at = "bind"
  /\ Head(starter[s].addrs) \in bound \cup Busy
  /\ starter' = [starter EXCEPT ![s] =
                   [at |-> NextAt(@.addrs), addrs |-> Tail(@.addrs), read |-> {}]]
  /\ UNCHANGED <<bound, listeners, serverStatus, served, shut>>

\* The listener is there, and the list it is to be added to is read.
Bind(s) ==
  /\ starter[s].at = "bind"
  /\ Head(starter[s].addrs) \notin bound \cup Busy
  /\ bound' = bound \cup {Head(starter[s].addrs)}
  /\ starter' = [starter EXCEPT ![s].at = "append", ![s].read = listeners]
  /\ UNCHANGED <<listeners, serverStatus, served, shut>>

AddListener(s) ==
  /\ starter[s].at = "append"
  /\ listeners' = starter[s].read \cup {Head(starter[s].addrs)}
  /\ starter' = [starter EXCEPT ![s] =
                   [at |-> NextAt(@.addrs), addrs |-> Tail(@.addrs), read |-> {}]]
  /\ UNCHANGED <<bound, serverStatus, served, shut>>

\* Mutant: only the call that ends first serves.
ServedBy_FirstOnly(s) == IF serverStatus THEN {} ELSE listeners

\* The end of the call: every listener in the list is served, also those the
\* other call has added.  A server that was shut down serves none.
ServedBy(s) == listeners
Serve(s) ==
  /\ starter[s].at = "serve"
  /\ starter' = [starter EXCEPT ![s] = AtRest]
  /\ IF listeners = {} THEN UNCHANGED <<serverStatus, served>>
     ELSE /\ serverStatus' = TRUE
          /\ served' = IF shut THEN served ELSE served \cup ServedBy(s)
  /\ UNCHANGED <<bound, listeners, shut>>

StartServerStep == \E s \in Starter : BindFails(s) \/ Bind(s) \/ AddListener(s) \/ Serve(s)

StopServer ==
  IF ~serverStatus THEN UNCHANGED <<bound, listeners, serverStatus, served, shut>>
  ELSE /\ bound' = bound \ (listeners \cup served)
       /\ listeners' = {}
       /\ served' = {}
       /\ serverStatus' = FALSE
       /\ shut' = TRUE

(***************************************************************************)
(* Two calls of StartServer may overlap.  When both are done, every        *)
(* listener the program has recorded accepts connections: neither call     *)
(* leaves to the other what the other has not seen.                        *)
(***************************************************************************)
RegisteredServed ==
  (\A s \in Starter : starter[s].at = "idle") /\ ~shut => listeners \subseteq served
=============================================================================
