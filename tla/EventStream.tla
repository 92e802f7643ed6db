----------------------------- MODULE EventStream -----------------------------
(***************************************************************************)
(* The event stream of the UI server (pkg/v1/serve.go) and the page that   *)
(* follows it (ui/src/App.jsx).  Status changes and logs are broadcast to  *)
(* one bounded channel per connection; each connection starts with a       *)
(* snapshot, read in several critical sections after its channel is        *)
(* registered; the page also fetches snapshots over HTTP of their own.     *)
(*                                                                         *)
(* The state of the server is reduced to the number of status changes of   *)
(* one stage and the number of logs: a value stands for the whole history  *)
(* before it.                                                              *)
(***************************************************************************)
EXTENDS Naturals, Sequences, SequencesExt

CONSTANTS Clients,     \* connections to /api/events, each with its page
          Capacity,    \* the capacity of a channel (128 in the code)
          MaxStatus,   \* bound: status changes
          MaxLogs,     \* bound: logs
          MaxRefresh,  \* bound: refresh events
          MaxFetches   \* bound: fetches of a page at once

ASSUME StreamAssumption ==
  /\ Capacity \in Nat \ {0}
  /\ MaxStatus \in Nat /\ MaxLogs \in Nat /\ MaxRefresh \in Nat /\ MaxFetches \in Nat

VARIABLES
  fetchers,    \* the connections whose page fetches as well; others only stream
  stageStatus, \* s.status of the stage: how often it was set
  logs,        \* s.logs: how many
  sending,     \* what has been written and is still to be broadcast
  refreshes,   \* how many refresh events there were
  stop,        \* how far Stop is
  clients,     \* s.clients
  chan,        \* per connection, what its channel holds
  closes,      \* per connection, how often its channel was closed
  handler,     \* per connection, where handleEvents is
  snap,        \* the snapshots being read and delivered
  view,        \* per connection, what its page shows
  due,         \* per connection, whether its page is about to fetch
  lost         \* history: per connection, the types of events dropped

serverVars == <<stageStatus, logs, sending, refreshes>>
pageVars == <<fetchers, view, due>>
connVars == <<clients, chan, closes, handler>>
streamVars == <<serverVars, stop, connVars, snap, pageVars, lost>>

Event == [type : {"stage", "log", "refresh"}, n : Nat]

\* A snapshot is number 0 when handleEvents reads it, else a fetch's.
Snaps == Clients \X (0 .. MaxFetches)
NoSnap == [at |-> "none", status |-> 0, logs |-> 0]

\* The logs 1 .. n, as a page that has received all of them shows them.
FirstLogs(n) == [i \in 1 .. n |-> i]

StreamInit ==
  /\ stageStatus = 0 /\ logs = 0 /\ sending = {} /\ refreshes = 0
  /\ stop = "running"
  /\ clients = {}
  /\ chan = [c \in Clients |-> <<>>]
  /\ closes = [c \in Clients |-> 0]
  /\ handler = [c \in Clients |-> "none"]
  /\ snap = [x \in Snaps |-> NoSnap]
  /\ view = [c \in Clients |-> [status |-> 0, logs |-> <<>>]]
  /\ fetchers \in SUBSET (IF MaxFetches = 0 THEN {} ELSE Clients)
  /\ due = [c \in Clients |-> c \in fetchers]
  /\ lost = [c \in Clients |-> {}]
-----------------------------------------------------------------------------
\* Writers.  One goroutine at a time sets the status (it holds s.runMu); one at a
\* time logs (logMu), and only for a server that is in the registry.

HasRoom(c) == Len(chan[c]) < Capacity

\* broadcast, under s.mu: a client whose channel is full misses the event.  A
\* later status makes up for an earlier one, nothing does for a log.
Broadcast(e) ==
  /\ chan' = [c \in Clients |->
       IF c \in clients /\ HasRoom(c) THEN Append(chan[c], e) ELSE chan[c]]
  /\ lost' = [c \in Clients |->
       IF c \notin clients THEN lost[c]
       ELSE IF ~HasRoom(c) THEN lost[c] \cup {e.type}
       ELSE IF e.type = "stage" THEN lost[c] \ {"stage"} ELSE lost[c]]

SetStatus ==
  /\ stageStatus < MaxStatus
  /\ "stage" \notin sending
  /\ stageStatus' = stageStatus + 1
  /\ sending' = sending \cup {"stage"}
  /\ UNCHANGED <<logs, refreshes, stop, connVars, snap, pageVars, lost>>

\* Mutant: only the map is written.
BroadcastStatusNot ==
  /\ "stage" \in sending
  /\ sending' = sending \ {"stage"}
  /\ UNCHANGED <<stageStatus, logs, refreshes, stop, connVars, snap, pageVars, lost>>

BroadcastStatus ==
  /\ "stage" \in sending
  /\ Broadcast([type |-> "stage", n |-> stageStatus])
  /\ sending' = sending \ {"stage"}
  /\ UNCHANGED <<stageStatus, logs, refreshes, stop, clients, closes, handler, snap, pageVars>>

OnLog ==
  /\ logs < MaxLogs
  /\ "log" \notin sending
  /\ stop = "running"
  /\ logs' = logs + 1
  /\ sending' = sending \cup {"log"}
  /\ UNCHANGED <<stageStatus, refreshes, stop, connVars, snap, pageVars, lost>>

BroadcastLog ==
  /\ "log" \in sending
  /\ Broadcast([type |-> "log", n |-> logs])
  /\ sending' = sending \ {"log"}
  /\ UNCHANGED <<stageStatus, logs, refreshes, stop, clients, closes, handler, snap, pageVars>>

\* A recorded action, or the end of a discover, which asks no registry.
OnActions ==
  /\ refreshes < MaxRefresh
  /\ refreshes' = refreshes + 1
  /\ Broadcast([type |-> "refresh", n |-> 0])
  /\ UNCHANGED <<stageStatus, logs, sending, stop, clients, closes, handler, snap, pageVars>>
-----------------------------------------------------------------------------
\* handleEvents.

Connect(c) ==
  /\ handler[c] = "none"
  /\ stop # "stopped"
  /\ handler' = [handler EXCEPT ![c] = "connected"]
  /\ UNCHANGED <<serverVars, stop, clients, chan, closes, snap, pageVars, lost>>

\* Mutant: the channel is registered after the snapshot is written.
RegisterLate(c) ==
  /\ \/ handler[c] = "connected" /\ handler' = [handler EXCEPT ![c] = "registered"]
     \/ handler[c] = "stream" /\ c \notin clients /\ UNCHANGED handler
  /\ clients' = IF handler[c] = "stream" THEN clients \cup {c} ELSE clients
  /\ UNCHANGED <<serverVars, stop, chan, closes, snap, pageVars, lost>>

Register(c) ==
  /\ handler[c] = "connected"
  /\ clients' = clients \cup {c}
  /\ handler' = [handler EXCEPT ![c] = "registered"]
  /\ UNCHANGED <<serverVars, stop, chan, closes, snap, pageVars, lost>>

BeginSnapshot(c) ==
  /\ handler[c] = "registered"
  /\ handler' = [handler EXCEPT ![c] = "snapshot"]
  /\ snap' = [snap EXCEPT ![<<c, 0>>].at = "begin"]
  /\ UNCHANGED <<serverVars, stop, clients, chan, closes, pageVars, lost>>

\* snapshot reads the statuses...
ReadStatus(x) ==
  /\ snap[x].at = "begin"
  /\ snap' = [snap EXCEPT ![x].at = "status", ![x].status = stageStatus]
  /\ UNCHANGED <<serverVars, stop, connVars, pageVars, lost>>

\* ...and then the logs, each in a section of its own.
ReadLogs(x) ==
  /\ snap[x].at = "status"
  /\ snap' = [snap EXCEPT ![x].at = "ready", ![x].logs = logs]
  /\ UNCHANGED <<serverVars, stop, connVars, pageVars, lost>>

\* The page replaces what it shows by the snapshot.
Deliver(x) ==
  /\ snap[x].at = "ready"
  /\ snap' = [snap EXCEPT ![x] = NoSnap]
  /\ view' = [view EXCEPT ![x[1]] =
       [status |-> snap[x].status, logs |-> FirstLogs(snap[x].logs)]]
  /\ IF x[2] = 0 THEN handler' = [handler EXCEPT ![x[1]] = "stream"]
                 ELSE UNCHANGED handler
  /\ UNCHANGED <<serverVars, stop, clients, chan, closes, fetchers, due, lost>>

\* handleEvents forwards an event and the page applies it.
Forward(c) ==
  LET e == Head(chan[c]) IN
  /\ handler[c] = "stream"
  /\ chan[c] # <<>>
  /\ chan' = [chan EXCEPT ![c] = Tail(@)]
  /\ view' = CASE e.type = "stage" -> [view EXCEPT ![c].status = e.n]
               [] e.type = "log" -> [view EXCEPT ![c].logs = Append(@, e.n)]
               [] OTHER -> view
  /\ due' = [due EXCEPT ![c] = @ \/ (e.type = "refresh" /\ c \in fetchers)]
  /\ UNCHANGED <<serverVars, stop, clients, closes, handler, snap, fetchers, lost>>

LeaveClients(c) ==
  /\ handler[c] = "stream"
  /\ handler' = [handler EXCEPT ![c] = "gone"]
  /\ clients' = clients \ {c}
  /\ closes' = [closes EXCEPT ![c] = IF c \in clients THEN @ + 1 ELSE @]
  /\ UNCHANGED <<serverVars, stop, chan, snap, pageVars, lost>>

\* The page is closed.
Disconnect(c) == LeaveClients(c)

\* Mutant: a closed channel is not noticed.
EndStreamNot(c) == FALSE /\ LeaveClients(c)

\* The channel is closed and drained.
EndStream(c) == closes[c] > 0 /\ chan[c] = <<>> /\ LeaveClients(c)

\* The page fetches /api/state when it opens, and 250 ms after a refresh event;
\* an earlier fetch may still be on its way.
Fetch(c) ==
  \E k \in 1 .. MaxFetches :
    /\ due[c]
    /\ snap[<<c, k>>].at = "none"
    /\ snap' = [snap EXCEPT ![<<c, k>>].at = "begin"]
    /\ due' = [due EXCEPT ![c] = FALSE]
    /\ UNCHANGED <<serverVars, stop, connVars, fetchers, view, lost>>
-----------------------------------------------------------------------------
\* Stop.

\* unregisterServer waits for a log handler in progress (serverRegistryMu).
Unregister ==
  /\ stop = "running"
  /\ "log" \notin sending
  /\ stop' = "unregistered"
  /\ UNCHANGED <<serverVars, connVars, snap, pageVars, lost>>

\* Mutant: the map still holds the closed channels.
CloseAllKeepsClients ==
  /\ stop = "unregistered"
  /\ stop' = "closed"
  /\ closes' = [c \in Clients |-> IF c \in clients THEN closes[c] + 1 ELSE closes[c]]
  /\ UNCHANGED <<serverVars, clients, chan, handler, snap, pageVars, lost>>

CloseAll ==
  /\ stop = "unregistered"
  /\ stop' = "closed"
  /\ closes' = [c \in Clients |-> IF c \in clients THEN closes[c] + 1 ELSE closes[c]]
  /\ clients' = {}
  /\ UNCHANGED <<serverVars, chan, handler, snap, pageVars, lost>>

\* Shutdown: the listener is closed; streams that go on are given up after 1 s.
Shutdown ==
  /\ stop = "closed"
  /\ stop' = "stopped"
  /\ UNCHANGED <<serverVars, connVars, snap, pageVars, lost>>
-----------------------------------------------------------------------------
Writes == SetStatus \/ OnLog \/ OnActions

Sends == BroadcastStatus \/ BroadcastLog

Snapshots(c) ==
  \/ BeginSnapshot(c)
  \/ \E x \in Snaps : x[1] = c /\ (ReadStatus(x) \/ ReadLogs(x) \/ Deliver(x))

Streams(c) == Register(c) \/ Forward(c) \/ EndStream(c)

Stops == Unregister \/ CloseAll \/ Shutdown

StreamNext ==
  \/ Writes \/ Sends \/ Stops
  \/ \E c \in Clients :
       Connect(c) \/ Streams(c) \/ Snapshots(c) \/ Fetch(c) \/ Disconnect(c)

StreamSpec == StreamInit /\ [][StreamNext]_streamVars

\* What has begun goes on: a broadcast, a handler, a Stop.  Nothing makes a page
\* open or close, a stage run, or somebody call Stop.
StreamFairness ==
  /\ WF_streamVars(BroadcastStatus) /\ WF_streamVars(BroadcastLog)
  /\ WF_streamVars(CloseAll) /\ WF_streamVars(Shutdown)
  /\ \A c \in Clients : WF_streamVars(Streams(c)) /\ WF_streamVars(Snapshots(c))

FairStreamSpec == StreamSpec /\ StreamFairness
-----------------------------------------------------------------------------
\* Type invariant of the stream.
StreamTypeOK ==
  /\ stageStatus \in Nat /\ logs \in Nat /\ refreshes \in Nat
  /\ sending \subseteq {"stage", "log"}
  /\ stop \in {"running", "unregistered", "closed", "stopped"}
  /\ clients \subseteq Clients
  /\ chan \in [Clients -> Seq(Event)]
  /\ \A c \in Clients : Len(chan[c]) <= Capacity
  /\ closes \in [Clients -> Nat]
  /\ handler \in [Clients -> {"none", "connected", "registered", "snapshot",
                              "stream", "gone"}]
  /\ snap \in [Snaps -> [at : {"none", "begin", "status", "ready"},
                         status : Nat, logs : Nat]]
  /\ view \in [Clients -> [status : Nat, logs : Seq(Nat)]]
  /\ fetchers \subseteq Clients
  /\ due \in [Clients -> BOOLEAN]
  /\ lost \in [Clients -> SUBSET {"stage", "log", "refresh"}]

\* No event is sent on a closed channel and no channel is closed twice, either of
\* which would panic: Stop, a disconnecting page and a broadcast may all meet.
ChannelsAreSafe ==
  \A c \in Clients : closes[c] <= 1 /\ (c \in clients => closes[c] = 0)

\* Nothing is under way to the page of connection c.
Quiet(c) ==
  /\ handler[c] = "stream" /\ c \in clients
  /\ chan[c] = <<>> /\ sending = {}
  /\ \A x \in Snaps : x[1] = c => snap[x].at = "none"

\* When nothing is under way, a client that streams shows the current status,
\* unless the last status event was dropped, and every log, unless one was dropped:
\* whatever fell between its registration, its snapshot and the stream.
NothingMissed ==
  \A c \in Clients \ fetchers : Quiet(c) =>
    /\ "stage" \notin lost[c] => view[c].status = stageStatus
    /\ "log" \notin lost[c] => ToSet(view[c].logs) = 1 .. logs

\* A connected client that streams catches up with the server again and again,
\* unless it is closed or an event is dropped.
PageCatchesUp ==
  \A c \in Clients :
    c \notin fetchers /\ handler[c] \notin {"none", "gone"} ~>
      \/ handler[c] = "gone" \/ lost[c] # {}
      \/ view[c].status = stageStatus /\ ToSet(view[c].logs) = 1 .. logs

\* A stream whose channel Stop has closed ends, after what it still holds.
ClosedStreamsEnd == \A c \in Clients : closes[c] > 0 ~> handler[c] = "gone"
-----------------------------------------------------------------------------
(***************************************************************************)
(* The inductive invariant.                                                *)
(***************************************************************************)
Own(c) == snap[<<c, 0>>]
StageAt(c, i) == i \in DOMAIN chan[c] /\ chan[c][i].type = "stage"
LogAt(c, i) == i \in DOMAIN chan[c] /\ chan[c][i].type = "log"

\* Where a connection is, and what is there by then.
Places(c) ==
  /\ closes[c] <= 1 /\ (c \in clients => closes[c] = 0 /\ handler[c] # "gone")
  /\ handler[c] \in {"none", "connected"} => closes[c] = 0 /\ c \notin clients /\ chan[c] = <<>>
  /\ Own(c).at # "none" <=> handler[c] = "snapshot"
  /\ c \notin fetchers => ~due[c] /\ \A k \in 1 .. MaxFetches : snap[<<c, k>>].at = "none"

\* Nothing shows a log that there is not.
LogsExist(c) ==
  /\ \A i \in DOMAIN chan[c] : LogAt(c, i) => chan[c][i].n \in 1 .. logs
  /\ \A k \in 0 .. MaxFetches : snap[<<c, k>>].logs <= logs
  /\ \A i \in DOMAIN view[c].logs : view[c].logs[i] \in 1 .. logs

\* The page will show the status, or log l, once what its channel holds is put aside.
HasStatus(c) ==
  \/ handler[c] = "registered" \/ Own(c).at = "begin"
  \/ Own(c).at \in {"status", "ready"} /\ Own(c).status = stageStatus
  \/ handler[c] = "stream" /\ view[c].status = stageStatus
HasLog(c, l) ==
  \/ handler[c] = "registered" \/ Own(c).at \in {"begin", "status"}
  \/ Own(c).at = "ready" /\ l <= Own(c).logs
  \/ handler[c] = "stream" /\ \E i \in DOMAIN view[c].logs : view[c].logs[i] = l

StatusOnItsWay(c) ==
  c \in clients /\ c \notin fetchers /\ "stage" \notin lost[c] /\ "stage" \notin sending =>
    \/ \E i \in DOMAIN chan[c] : /\ StageAt(c, i) /\ chan[c][i].n = stageStatus
                                /\ \A j \in DOMAIN chan[c] : StageAt(c, j) => j <= i
    \/ (\A i \in DOMAIN chan[c] : ~StageAt(c, i)) /\ HasStatus(c)

LogsOnTheirWay(c) ==
  c \in clients /\ c \notin fetchers /\ "log" \notin lost[c] => \A l \in 1 .. logs :
    \/ l = logs /\ "log" \in sending
    \/ \E i \in DOMAIN chan[c] : LogAt(c, i) /\ chan[c][i].n = l
    \/ HasLog(c, l)

ConnectionInv(c) == Places(c) /\ LogsExist(c) /\ StatusOnItsWay(c) /\ LogsOnTheirWay(c)
StreamInv ==
  /\ StreamTypeOK
  /\ "log" \in sending => logs >= 1
  /\ \A c \in Clients : ConnectionInv(c)
=============================================================================
