-------------------------- MODULE MCLiveHostNode --------------------------
(* The host, the sending half of one connection, and the store of one      *)
(* persistent map: a behaviour is one of the three, and the others are     *)
(* over from the beginning.                                                *)
EXTENDS LiveHostNode, NodeConnection, LocusStore
CONSTANTS a1, a2, w1

MCLists == {<<a1, a2>>, <<a1, a1, a2>>}
\* Two connections of one application, or of one client.
MCAskers == {[s \in Socket |-> [app |-> a1, client |-> s]],
             [s \in Socket |-> [app |-> IF s = w1 THEN a1 ELSE a2, client |-> w1]]}

HostOver ==
    /\ applications = <<a1>> /\ asks = [s \in Socket |-> [app |-> a1, client |-> s]]
    /\ life = "refused" /\ disposal = [a \in App |-> "done"]
    /\ calls = [a \in App |-> 1] /\ work = "none" /\ outcome = "none" /\ pendingHandshakes = 0
    /\ stage = [s \in Socket |-> "none"] /\ ready = [s \in WebSocket |-> "OPEN"]
    /\ accepting = [s \in WebSocket |-> FALSE] /\ alive = [s \in WebSocket |-> TRUE]
    /\ deadline = [s \in WebSocket |-> FALSE] /\ mute = [s \in WebSocket |-> FALSE]
    /\ messageCount = [s \in WebSocket |-> 0]
ConnectionOver ==
    /\ queued = <<>> /\ wire = <<>> /\ pinged = 0 /\ inFlight = 0 /\ drainTimer = FALSE
    /\ shut = TRUE /\ readyState = "CLOSED" /\ accepted = 0 /\ transmitted = <<>>

StoreOver ==
    /\ hosts = NoCall /\ inflight = NoCall /\ stored = FALSE
    /\ authority = [c \in Call |-> "none"] /\ promise = [c \in Call |-> "none"]
    /\ pc = [c \in Call |-> "settled"] /\ on = [c \in Call |-> NoCall]
    /\ result = [c \in Call |-> "none"]

MCInit ==
    \/ HInit /\ ConnectionOver /\ StoreOver
    \/ HostOver /\ QInit /\ StoreOver
    \/ HostOver /\ ConnectionOver /\ Init
MCNext ==
    \/ HNext /\ UNCHANGED <<qVars, vars>>
    \/ QNext /\ UNCHANGED <<hVars, vars>>
    \/ Next /\ UNCHANGED <<hVars, qVars>>
MCSpec ==
    MCInit /\ [][MCNext]_<<hVars, qVars, vars>> /\ HFairness /\ QFairness /\ Fairness

\* The queue of a connection empties, and every call on the store is answered.
WorkDrains == QueueDrains /\ EveryCallSettles
=============================================================================
