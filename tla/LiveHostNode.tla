---------------------------- MODULE LiveHostNode ----------------------------
(***************************************************************************)
(* The Node application host: it registers applications, admits HTTP       *)
(* requests and WebSocket connections after asynchronous policies, keeps   *)
(* connections under limits, a heartbeat and a message budget, and shuts   *)
(* down application by application, raced by a timer.                      *)
(*                                                                         *)
(* A socket is one HTTP exchange or one WebSocket.  What ws and the Node   *)
(* server do with it (close handshakes, the close timer of ws, when a      *)
(* server counts as closed) is external.                                   *)
(***************************************************************************)
EXTENDS Naturals, Sequences, FiniteSets, SequencesExt

CONSTANTS
    App, Lists,                      \* applications, and the lists of them a host is started with
    Http, WebSocket,                 \* the sockets
    Askers,                          \* which application every socket may ask for, and for whom
    MaxConnections, MaxConnectionsPerApplication, MaxConnectionsPerClient,
    MaxPendingHandshakes, MaxMessagesPerWindow

Socket == Http \cup WebSocket

ASSUME HostAssumption ==
    /\ Lists \subseteq Seq(App) /\ Http \cap WebSocket = {}
    /\ \A asked \in Askers, s \in Socket : asked[s].app \in App
    /\ {MaxConnections, MaxConnectionsPerApplication, MaxConnectionsPerClient,
        MaxPendingHandshakes, MaxMessagesPerWindow} \subseteq Nat \ {0}

VARIABLES
    applications,       \* the list the host was started with
    asks,               \* what each socket asks for: application and client
    life,               \* "registering", "listening", "up", "stopping"; "refusing", "refused": startup failed
    disposal,           \* of each application: "no", "running", "done", "failed"
    calls,              \* history: how often dispose() of an application was called
    work,               \* what shutdown is at: "none", "apps", "sockets", "server", "over"
    outcome,            \* of shutdown: "none", "completed", "failed", "timeout"
    pendingHandshakes,
    stage,              \* of each socket: "none", "authorizing", "handling" (HTTP), "active" (WebSocket), "gone"
    ready,              \* readyState of an active WebSocket
    accepting,          \* its accept() has not settled, and it is paused
    alive, deadline,    \* heartbeat: it answered the last ping; the timer that ends it is armed
    mute,               \* its peer never answers a ping
    messageCount

serverVars == <<applications, asks, life, disposal, calls, work, outcome>>
socketVars == <<pendingHandshakes, stage, ready, accepting, alive, deadline, mute, messageCount>>
hVars == <<serverVars, socketVars>>
beatVars == <<alive, deadline, mute, messageCount>>

activeConnections == {s \in WebSocket : stage[s] = "active"}
Gone == {s \in Socket : stage[s] \in {"none", "gone"}}

HInit ==
    /\ applications \in Lists /\ asks \in Askers /\ life = "registering"
    /\ disposal = [a \in App |-> "no"] /\ calls = [a \in App |-> 0]
    /\ work = "none" /\ outcome = "none"
    /\ pendingHandshakes = 0
    /\ stage = [s \in Socket |-> "none"]
    /\ ready = [s \in WebSocket |-> "OPEN"]
    /\ accepting = [s \in WebSocket |-> FALSE]
    /\ alive = [s \in WebSocket |-> TRUE]
    /\ deadline = [s \in WebSocket |-> FALSE]
    /\ mute = [s \in WebSocket |-> FALSE]
    /\ messageCount = [s \in WebSocket |-> 0]

-----------------------------------------------------------------------------
(* Startup, and the disposal of applications one after the other *)

\* register_applications, which a repeated name refuses; in production an
\* application without a policy too, which ends the same way.
Register ==
    /\ life = "registering"
    /\ life' \in {"refusing"} \cup (IF IsInjective(applications) THEN {"listening"} ELSE {})
    /\ UNCHANGED <<applications, asks, disposal, calls, work, outcome, socketVars>>

Listen ==
    /\ life = "listening"
    /\ life' \in {"up", "refusing"}
    /\ UNCHANGED <<applications, asks, disposal, calls, work, outcome, socketVars>>

Disposing == life = "refusing" \/ work = "apps"

\* dispose_once goes down the list and skips an application it has seen.
NextToDispose ==
    IF \E a \in App : disposal[a] = "running" THEN {}
    ELSE LET left == {i \in DOMAIN applications : disposal[applications[i]] = "no"}
         IN  {applications[i] : i \in {i \in left : \A j \in left : i <= j}}

DisposeApplication(a) ==
    /\ Disposing /\ a \in NextToDispose
    /\ disposal' = [disposal EXCEPT ![a] = "running"]
    /\ calls' = [calls EXCEPT ![a] = @ + 1]
    /\ UNCHANGED <<applications, asks, life, work, outcome, socketVars>>

\* An application that does not settle keeps the others undisposed.
ApplicationDisposed(a) ==
    /\ disposal[a] = "running"
    /\ \E result \in {"done", "failed"} : disposal' = [disposal EXCEPT ![a] = result]
    /\ UNCHANGED <<applications, asks, life, calls, work, outcome, socketVars>>

AllDisposed == \A a \in ToSet(applications) : disposal[a] \in {"done", "failed"}

Refused ==
    /\ life = "refusing" /\ AllDisposed
    /\ life' = "refused"
    /\ UNCHANGED <<applications, asks, disposal, calls, work, outcome, socketVars>>

-----------------------------------------------------------------------------
(* HTTP *)

Request(s) ==
    /\ stage[s] = "none" /\ life \in {"up", "stopping"} /\ work # "over"
    /\ stage' = [stage EXCEPT ![s] = IF life = "up" THEN "authorizing" ELSE "gone"]
    /\ UNCHANGED <<serverVars, pendingHandshakes, ready, accepting, beatVars>>

\* The three policies, each within its timeout; the request then goes to its
\* application, whether or not the host began to stop meanwhile.
RequestAuthorized(s) ==
    /\ stage[s] = "authorizing"
    /\ \E result \in {"handling", "gone"} : stage' = [stage EXCEPT ![s] = result]
    /\ UNCHANGED <<serverVars, pendingHandshakes, ready, accepting, beatVars>>

\* handle() and the response written, cut short if the client leaves.
Respond(s) ==
    /\ stage[s] = "handling"
    /\ stage' = [stage EXCEPT ![s] = "gone"]
    /\ UNCHANGED <<serverVars, pendingHandshakes, ready, accepting, beatVars>>

-----------------------------------------------------------------------------
(* WebSocket admission *)

Upgrade(s) ==
    /\ stage[s] = "none" /\ life \in {"up", "stopping"} /\ work # "over"
    /\ IF life = "stopping" \/ pendingHandshakes >= MaxPendingHandshakes
       THEN stage' = [stage EXCEPT ![s] = "gone"] /\ UNCHANGED pendingHandshakes
       ELSE /\ stage' = [stage EXCEPT ![s] = "authorizing"]
            /\ pendingHandshakes' = pendingHandshakes + 1
    /\ UNCHANGED <<serverVars, ready, accepting, beatVars>>
HasRoomForApplication(s) ==
    /\ Cardinality(activeConnections) < MaxConnections
    /\ Cardinality({t \in activeConnections : asks[t].app = asks[s].app}) < MaxConnectionsPerApplication

HasRoom(s) ==
    /\ Cardinality(activeConnections) < MaxConnections
    /\ Cardinality({t \in activeConnections : asks[t].app = asks[s].app}) < MaxConnectionsPerApplication
    /\ Cardinality({t \in activeConnections : asks[t].client = asks[s].client}) < MaxConnectionsPerClient

Admissible(s) == HasRoom(s) /\ life = "up"

\* The policies answered or timed out, or the client is gone when they did:
\* limits and the state of the host are looked at again.
UpgradeAuthorized(s) ==
    /\ stage[s] = "authorizing"
    /\ pendingHandshakes' = pendingHandshakes - 1
    /\ \/ /\ stage' = [stage EXCEPT ![s] = "gone"]
          /\ UNCHANGED <<accepting, mute>>
       \/ /\ Admissible(s)
          /\ stage' = [stage EXCEPT ![s] = "active"]
          /\ accepting' = [accepting EXCEPT ![s] = TRUE]
          /\ \E silent \in BOOLEAN : mute' = [mute EXCEPT ![s] = silent]
    /\ UNCHANGED <<serverVars, ready, alive, deadline, messageCount>>

CloseWith(sockets) ==
    ready' = [s \in WebSocket |-> IF s \in sockets THEN "CLOSING" ELSE ready[s]]

\* accept() settles: the WebSocket is read from now on, or closed.
AcceptSettles(s) ==
    /\ accepting[s] /\ stage[s] = "active"
    /\ accepting' = [accepting EXCEPT ![s] = FALSE]
    /\ \/ UNCHANGED ready
       \/ CloseWith({s})
    /\ UNCHANGED <<serverVars, pendingHandshakes, stage, beatVars>>

-----------------------------------------------------------------------------
(* An active connection *)

\* A message counts against the budget of its window, and a new window may
\* have begun; over budget the connection closes.
Message(s) ==
    /\ stage[s] = "active" /\ ready[s] = "OPEN" /\ ~accepting[s]
    /\ \E before \in {messageCount[s], 0} :
          /\ messageCount' = [messageCount EXCEPT ![s] = before + 1]
          /\ IF before + 1 > MaxMessagesPerWindow THEN CloseWith({s}) ELSE UNCHANGED ready
    /\ UNCHANGED <<serverVars, pendingHandshakes, stage, accepting, alive, deadline, mute>>

\* The interval is longer than the deadline (resolve_limits), so no deadline
\* of the last beat is left when the next one comes.
Heartbeat ==
    /\ life = "up" /\ \A s \in WebSocket : ~deadline[s]
    /\ LET asked == {s \in activeConnections : ready[s] = "OPEN" /\ alive[s]}
       IN  /\ asked # {}
           /\ alive' = [s \in WebSocket |-> alive[s] /\ s \notin asked]
           /\ deadline' = [s \in WebSocket |-> deadline[s] \/ s \in asked]
    /\ UNCHANGED <<serverVars, pendingHandshakes, stage, ready, accepting, mute, messageCount>>

\* A paused WebSocket does not see the answer to a ping.
Pong(s) ==
    /\ stage[s] = "active" /\ ~alive[s] /\ ~mute[s] /\ ~accepting[s]
    /\ alive' = [alive EXCEPT ![s] = TRUE]
    /\ deadline' = [deadline EXCEPT ![s] = FALSE]
    /\ UNCHANGED <<serverVars, pendingHandshakes, stage, ready, accepting, mute, messageCount>>

Deadline(s) ==
    /\ deadline[s]
    /\ deadline' = [deadline EXCEPT ![s] = FALSE]
    /\ IF alive[s] THEN UNCHANGED ready ELSE CloseWith({s})
    /\ UNCHANGED <<serverVars, pendingHandshakes, stage, accepting, alive, mute, messageCount>>

\* The peer closes, or a close that was asked for ends: by the handshake, the
\* destroyed socket or the close timer of ws.
CloseEvent(s) ==
    /\ stage[s] = "active" /\ (ready[s] = "OPEN" => ~accepting[s])
    /\ stage' = [stage EXCEPT ![s] = "gone"]
    /\ ready' = [ready EXCEPT ![s] = "CLOSED"]
    /\ accepting' = [accepting EXCEPT ![s] = FALSE]
    /\ deadline' = [deadline EXCEPT ![s] = FALSE]
    \* The rest of its state goes with it.
    /\ alive' = [alive EXCEPT ![s] = TRUE]
    /\ mute' = [mute EXCEPT ![s] = FALSE]
    /\ messageCount' = [messageCount EXCEPT ![s] = 0]
    /\ UNCHANGED <<serverVars, pendingHandshakes>>

DisconnectConnections ==
    /\ life = "up"
    /\ \E a \in App : CloseWith({s \in activeConnections : asks[s].app = a})
    /\ UNCHANGED <<serverVars, pendingHandshakes, stage, accepting, beatVars>>

-----------------------------------------------------------------------------
(* Shutdown *)

Dispose ==
    /\ life = "up"
    /\ life' = "stopping" /\ work' = "apps"
    /\ UNCHANGED <<applications, asks, disposal, calls, outcome, socketVars>>

CloseAll ==
    /\ work = "apps" /\ AllDisposed
    /\ work' = "server"
    /\ CloseWith(activeConnections)
    /\ deadline' = [s \in WebSocket |-> FALSE]
    /\ UNCHANGED <<applications, asks, life, disposal, calls, outcome, pendingHandshakes, stage,
                   accepting, alive, mute, messageCount>>

\* server.close() calls back once every socket is gone.
ServerClosed ==
    /\ work = "server" /\ Socket = Gone
    /\ work' = "over"
    /\ outcome' = IF outcome # "none" THEN outcome
                  ELSE IF \E a \in ToSet(applications) : disposal[a] = "failed" THEN "failed"
                  ELSE "completed"
    /\ UNCHANGED <<applications, asks, life, disposal, calls, socketVars>>

ShutdownTimeoutOnlyRejects ==
    /\ life = "stopping" /\ outcome = "none"
    /\ outcome' = "timeout"
    /\ UNCHANGED <<applications, asks, life, disposal, calls, work, socketVars>>

\* The timer terminates the connections and ends the HTTP exchanges; the
\* shutdown goes on behind it.
ShutdownTimeout ==
    /\ life = "stopping" /\ outcome = "none"
    /\ outcome' = "timeout"
    /\ CloseWith(activeConnections)
    /\ stage' = [s \in Socket |-> IF s \in Http /\ stage[s] # "none" THEN "gone" ELSE stage[s]]
    /\ UNCHANGED <<applications, asks, life, disposal, calls, work, pendingHandshakes, accepting, beatVars>>

HNext ==
    \/ Register \/ Listen \/ Refused
    \/ \E a \in App : DisposeApplication(a) \/ ApplicationDisposed(a)
    \/ \E s \in Http : Request(s) \/ RequestAuthorized(s) \/ Respond(s)
    \/ \E s \in WebSocket : \/ Upgrade(s) \/ UpgradeAuthorized(s) \/ AcceptSettles(s) \/ Message(s)
                            \/ Pong(s) \/ Deadline(s) \/ CloseEvent(s)
    \/ Heartbeat \/ DisconnectConnections
    \/ Dispose \/ CloseAll \/ ServerClosed \/ ShutdownTimeout

HSpec == HInit /\ [][HNext]_hVars

\* Policies answer within their timeout, timers fire, continuations run, and a
\* WebSocket told to close is closed by ws; an application, a client and the
\* caller of dispose() need never do anything.
HFairness ==
    /\ WF_hVars(Register \/ Listen)
    /\ WF_hVars(\E a \in App : DisposeApplication(a))
    /\ WF_hVars(Refused \/ CloseAll \/ ServerClosed)
    /\ WF_hVars(ShutdownTimeout)
    /\ WF_hVars(Heartbeat)
    /\ WF_hVars(\/ \E s \in Http : RequestAuthorized(s)
                \/ \E s \in WebSocket : UpgradeAuthorized(s))
    /\ WF_hVars(\E s \in WebSocket : Deadline(s))
    /\ WF_hVars(\E s \in WebSocket : ready[s] = "CLOSING" /\ CloseEvent(s))

(* Properties *)

\* The state start_node_application_host keeps; the counter of handshakes is
\* returned on every way out of an upgrade.
HTypeOK ==
    /\ life \in {"registering", "listening", "up", "stopping", "refusing", "refused"}
    /\ work \in {"none", "apps", "server", "over"}
    /\ pendingHandshakes = Cardinality({s \in WebSocket : stage[s] = "authorizing"})
    /\ \A s \in WebSocket : messageCount[s] > MaxMessagesPerWindow => ready[s] # "OPEN"
    /\ \A s \in WebSocket : accepting[s] \/ deadline[s] => stage[s] = "active"

\* However many upgrades wait for their policies at once, the connections they
\* become stay within every limit of NodeHostTransportLimits.
WithinLimits ==
    /\ Cardinality(activeConnections) <= MaxConnections
    /\ \A a \in App : Cardinality({s \in activeConnections : asks[s].app = a}) <= MaxConnectionsPerApplication
    /\ \A s \in WebSocket :
          Cardinality({t \in activeConnections : asks[t].client = asks[s].client}) <= MaxConnectionsPerClient
    /\ pendingHandshakes <= MaxPendingHandshakes

\* dispose_once: an application is disposed once, whether startup fails, is
\* refused for a repeated application, or the host stops; and the next one only
\* when the one before it has settled.
DisposedOnce ==
    /\ \A a \in App : calls[a] <= 1
    /\ Cardinality({a \in App : disposal[a] = "running"}) <= 1
    /\ life = "refused" => \A a \in ToSet(applications) : calls[a] = 1

\* A shutdown reported complete left nothing behind: every application is
\* disposed and no socket is open.  One that failed for a disposal left no socket.
CompletedIsClean ==
    /\ outcome = "completed" => \A a \in ToSet(applications) : disposal[a] = "done"
    /\ outcome \in {"completed", "failed"} => Socket = Gone

\* No connection is handed to an application that is being stopped.
NoConnectionAfterStop ==
    [][life = "stopping" => \A s \in WebSocket : stage'[s] = "active" => stage[s] = "active"]_hVars

\* A shutdown settles, whatever applications, handlers and peers do.
ShutdownSettles == (life = "stopping") ~> (outcome # "none")

\* And it frees every socket, also those still in a handshake when its timer fired.
StopFreesSockets == (life = "stopping") ~> [](\A s \in Socket : stage[s] # "active" /\ stage[s] # "handling")

\* A peer that stopped answering does not keep its connection, even one whose
\* accept() never settles.
MutePeerLeaves == \A s \in WebSocket : (stage[s] = "active" /\ mute[s]) ~> (stage[s] = "gone")

\* The connections a host serves, those it is still opening and the
\* applications it disposes of are counted exactly, through failures and stop.
HostWithinLimits == HTypeOK /\ WithinLimits /\ DisposedOnce /\ CompletedIsClean

\* A host that is told to stop does, and a peer that fell silent is let go.
HostStops == NoConnectionAfterStop /\ ShutdownSettles /\ StopFreesSockets /\ MutePeerLeaves
=============================================================================
