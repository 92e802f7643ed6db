---------------------------- MODULE MockController ----------------------------
(***************************************************************************)
(* The controller of the dynamic mock server                               *)
(* (pkg/dynamic-mock-server/server.go): registrations and resets, one      *)
(* goroutine each, share Servers and Routes under mc.mu; every mock server *)
(* has a goroutine that binds its port some time after it is recorded; and *)
(* a reset releases mc.mu before it shuts a server down.                   *)
(*                                                                         *)
(* Routes are independent of each other, so a port has one, and the        *)
(* response steps are the request that registered them, which also names   *)
(* the server it started.                                                  *)
(***************************************************************************)
EXTENDS Naturals

CONSTANTS Ports,
          Requests,   \* requests to the controller
          Arrivals,   \* requests to the mock ports
          None,       \* no request, no port
          Manners     \* the ways the controller is used, see CanSend

ASSUME ControllerAssumption ==
  /\ None \notin Requests /\ None \notin Ports
  /\ Manners \subseteq {"concurrent", "sequential", "patient"}

VARIABLES
  manner,    \* how the controller is used: chosen once
  routes,    \* mc.Routes: per port, the registration in force, or None
  servers,   \* mc.Servers: per port, the server recorded, or None
  at,        \* per request, where its handler is
  port,      \* per registration, its port
  targets,   \* per reset, the servers it shuts down
  timedOut,  \* the resets that gave up waiting for calls in progress
  state,     \* per server, where its goroutine (ListenAndServe) is
  shut,      \* the servers that Shutdown was called on
  holder,    \* per port, the server whose listener is bound to it
  answering  \* the requests to mock ports

tableVars == <<routes, servers>>
handlerVars == <<manner, at, port, targets, timedOut>>
netVars == <<state, shut, holder>>
controllerVars == <<tableVars, handlerVars, netVars, answering>>

NoCall == [at |-> "none", server |-> None, steps |-> None]

ControllerInit ==
  /\ manner \in Manners
  /\ routes = [p \in Ports |-> None]
  /\ servers = [p \in Ports |-> None]
  /\ at = [r \in Requests |-> "idle"]
  /\ port = [r \in Requests |-> None]
  /\ targets = [r \in Requests |-> {}]
  /\ timedOut = {}
  /\ state = [r \in Requests |-> "none"]
  /\ shut = {}
  /\ holder = [p \in Ports |-> None]
  /\ answering = [k \in Arrivals |-> NoCall]

\* Concurrent clients; one that waits for each answer; or one that also waits,
\* before a reset, until every server it started serves.
CanSend(isReset) ==
  \/ manner = "concurrent"
  \/ /\ \A r \in Requests : at[r] # "shutdown"
     /\ manner = "patient" /\ isReset =>
          \A p \in Ports : servers[p] # None => state[servers[p]] = "serving"
-----------------------------------------------------------------------------
\* The controller's handlers.

\* handleRegisterRoute holds mc.mu to its end.  It answers "ok": starting a
\* server cannot fail here, the port is bound later.
RegisterRoute(r, p) ==
  /\ at[r] = "idle" /\ CanSend(FALSE)
  /\ at' = [at EXCEPT ![r] = "registered"]
  /\ port' = [port EXCEPT ![r] = p]
  /\ routes' = [routes EXCEPT ![p] = r]
  /\ IF servers[p] = None
     THEN servers' = [servers EXCEPT ![p] = r] /\ state' = [state EXCEPT ![r] = "new"]
     ELSE UNCHANGED <<servers, state>>
  /\ UNCHANGED <<manner, targets, timedOut, shut, holder, answering>>

\* Mutant: mc.Servers keeps the server that is shut down.
ForgetRoutesOnly(r, ps) ==
  /\ at[r] = "idle" /\ CanSend(TRUE)
  /\ routes' = [p \in Ports |-> IF p \in ps THEN None ELSE routes[p]]
  /\ at' = [at EXCEPT ![r] = "shutdown"]
  /\ UNCHANGED <<servers, manner, port, timedOut, netVars, answering>>

\* The section of a reset under mc.mu.
Forget(r, ps) ==
  /\ at[r] = "idle" /\ CanSend(TRUE)
  /\ routes' = [p \in Ports |-> IF p \in ps THEN None ELSE routes[p]]
  /\ servers' = [p \in Ports |-> IF p \in ps THEN None ELSE servers[p]]
  /\ at' = [at EXCEPT ![r] = "shutdown"]
  /\ UNCHANGED <<manner, port, timedOut, netVars, answering>>

Recorded(ps) == {servers[p] : p \in ps} \ {None}

\* Mutant: only the routes of a server still starting are dropped.
ResetPortServing(r, p) ==
  /\ Forget(r, {p})
  /\ targets' = [targets EXCEPT ![r] = {s \in Recorded({p}) : state[s] = "serving"}]

ResetPort(r, p) ==
  /\ Forget(r, {p})
  /\ targets' = [targets EXCEPT ![r] = Recorded({p})]

ResetAll(r) ==
  /\ Forget(r, Ports)
  /\ targets' = [targets EXCEPT ![r] = Recorded(Ports)]

\* http.Server.Shutdown: no listener is opened from here on, an open one is closed.
Shutdown(r) ==
  \E s \in targets[r] \ shut :
    /\ at[r] = "shutdown"
    /\ shut' = shut \cup {s}
    /\ IF state[s] = "serving"
       THEN /\ state' = [state EXCEPT ![s] = "ended"]
            /\ holder' = [holder EXCEPT ![port[s]] = None]
       ELSE UNCHANGED <<state, holder>>
    /\ UNCHANGED <<tableVars, handlerVars, answering>>

CallsOf(s) == {k \in Arrivals : answering[k].at # "none" /\ answering[k].server = s}

\* Mutant: the handler does not wait for Shutdown.
ResetReturnsAtOnce(r) ==
  /\ at[r] = "shutdown"
  /\ targets[r] \subseteq shut
  /\ at' = [at EXCEPT ![r] = "reset"]
  /\ UNCHANGED <<tableVars, manner, port, targets, timedOut, netVars, answering>>

\* Shutdown has waited for the calls in progress, or for five seconds.
ResetReturns(r) ==
  /\ at[r] = "shutdown"
  /\ targets[r] \subseteq shut
  /\ at' = [at EXCEPT ![r] = "reset"]
  /\ timedOut' = IF \E s \in targets[r] : CallsOf(s) # {}
                 THEN timedOut \cup {r} ELSE timedOut
  /\ UNCHANGED <<tableVars, manner, port, targets, netVars, answering>>
-----------------------------------------------------------------------------
\* The goroutine of server s: ListenAndServe.

Listen(s) ==
  /\ state[s] = "new"
  /\ state' = [state EXCEPT ![s] = IF s \in shut THEN "ended" ELSE "checked"]
  /\ UNCHANGED <<tableVars, handlerVars, shut, holder, answering>>

\* A port that is in use is an error, which is logged and otherwise ignored.
Bind(s) ==
  /\ state[s] = "checked"
  /\ IF holder[port[s]] = None
     THEN /\ holder' = [holder EXCEPT ![port[s]] = s]
          /\ state' = [state EXCEPT ![s] = "bound"]
     ELSE /\ state' = [state EXCEPT ![s] = "failed"]
          /\ UNCHANGED holder
  /\ UNCHANGED <<tableVars, handlerVars, shut, answering>>

\* Mutant: a listener opened too late stays open.
ServeAnyway(s) ==
  /\ state[s] = "bound"
  /\ state' = [state EXCEPT ![s] = "serving"]
  /\ UNCHANGED <<tableVars, handlerVars, shut, holder, answering>>

\* Serve gives a listener back if Shutdown came first.
Serve(s) ==
  /\ state[s] = "bound"
  /\ IF s \in shut
     THEN /\ state' = [state EXCEPT ![s] = "ended"]
          /\ holder' = [holder EXCEPT ![port[s]] = None]
     ELSE /\ state' = [state EXCEPT ![s] = "serving"]
          /\ UNCHANGED holder
  /\ UNCHANGED <<tableVars, handlerVars, shut, answering>>
-----------------------------------------------------------------------------
\* handleMockRequest.

Accept(k) ==
  \E s \in Requests :
    /\ answering[k].at = "none"
    /\ state[s] = "serving"
    /\ answering' = [answering EXCEPT ![k] = [at |-> "accepted", server |-> s, steps |-> None]]
    /\ UNCHANGED <<tableVars, handlerVars, netVars>>

\* The route is looked up under mc.mu; without one the answer is 404.
FindRoute(k) ==
  /\ answering[k].at = "accepted"
  /\ LET steps == routes[port[answering[k].server]] IN
     answering' = [answering EXCEPT ![k] = IF steps = None THEN NoCall
                ELSE [@ EXCEPT !.at = "executing", !.steps = steps]]
  /\ UNCHANGED <<tableVars, handlerVars, netVars>>

\* The steps, waits among them, are executed outside mc.mu.
Respond(k) ==
  /\ answering[k].at = "executing"
  /\ answering' = [answering EXCEPT ![k] = NoCall]
  /\ UNCHANGED <<tableVars, handlerVars, netVars>>
-----------------------------------------------------------------------------
Sends(r) == ResetAll(r) \/ \E p \in Ports : RegisterRoute(r, p) \/ ResetPort(r, p)

Resets(r) == Shutdown(r) \/ ResetReturns(r)

Starts(s) == Listen(s) \/ Bind(s) \/ Serve(s)

ControllerNext ==
  \/ \E r \in Requests : Sends(r) \/ Resets(r) \/ Starts(r)
  \/ \E k \in Arrivals : Accept(k) \/ FindRoute(k) \/ Respond(k)

ControllerSpec == ControllerInit /\ [][ControllerNext]_controllerVars

\* Goroutines go on; nobody has to send anything, and a call may take for ever
\* (a reset then times out).
FairControllerSpec ==
  /\ ControllerSpec
  /\ \A r \in Requests : WF_controllerVars(Resets(r)) /\ WF_controllerVars(Starts(r))
-----------------------------------------------------------------------------
\* Type invariant of the controller; what a mock handler executes was registered.
ControllerTypeOK ==
  /\ manner \in Manners
  /\ routes \in [Ports -> Requests \cup {None}]
  /\ servers \in [Ports -> Requests \cup {None}]
  /\ at \in [Requests -> {"idle", "registered", "shutdown", "reset"}]
  /\ port \in [Requests -> Ports \cup {None}]
  /\ targets \in [Requests -> SUBSET Requests]
  /\ timedOut \subseteq Requests
  /\ state \in [Requests -> {"none", "new", "checked", "bound", "serving",
                             "failed", "ended"}]
  /\ shut \subseteq Requests
  /\ holder \in [Ports -> Requests \cup {None}]
  /\ answering \in [Arrivals -> {NoCall}
       \cup [at : {"accepted"}, server : Requests, steps : {None}]
       \cup [at : {"executing"}, server : Requests, steps : Requests]]

\* Only registrations start servers, and each is recorded under its own port; only
\* a started server takes calls.
ServersInv ==
  /\ \A s \in Requests : state[s] # "none" => at[s] = "registered" /\ port[s] \in Ports
  /\ \A p \in Ports : servers[p] # None =>
       port[servers[p]] = p /\ state[servers[p]] # "none"
  /\ \A k \in Arrivals : answering[k].at # "none" => state[answering[k].server] # "none"

\* A server that was shut down does not serve, and one whose reset has answered
\* was shut down.
ShutInv ==
  /\ \A s \in shut : state[s] # "serving"
  /\ \A r \in Requests : at[r] = "reset" => targets[r] \subseteq shut

\* A server that serves, or still may, is recorded under its port, or some reset
\* is about to shut it down: none is left running behind the controller's back.
NoServerIsForgotten ==
  \A s \in Requests :
    state[s] \in {"new", "checked", "bound", "serving"} /\ s \notin shut =>
      \/ servers[port[s]] = s
      \/ \E r \in Requests : at[r] = "shutdown" /\ s \in targets[r]

\* When a reset has answered, and not for want of time, no call is in progress on
\* a server it took, and none can be accepted by it any more.
ResetWaitsForItsServers ==
  \A r \in Requests :
    at[r] = "reset" /\ r \notin timedOut =>
      \A s \in targets[r] : CallsOf(s) = {} /\ state[s] # "serving"

\* Every reset is answered, calls in progress or not, and the listener of a server that
\* was shut down does not keep its port.
ResetsEnd ==
  /\ \A r \in Requests : at[r] = "shutdown" ~> at[r] = "reset"
  /\ \A s \in Requests, p \in Ports : s \in shut ~> holder[p] # s

\* The server recorded under port p serves.
IsServed(p) == servers[p] # None /\ state[servers[p]] = "serving"

\* A registered route comes to be served, or is reset, when the client waits for
\* each answer and, before a reset, for its servers.
PatientClientIsServed ==
  \A p \in Ports :
    manner = "patient" /\ routes[p] # None ~> routes[p] = None \/ IsServed(p)

=============================================================================
