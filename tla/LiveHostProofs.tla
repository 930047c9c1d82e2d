---------------------------- MODULE LiveHostProofs ----------------------------
(***************************************************************************)
(* The proofs about LiveHost, for any calls, applications, sockets and     *)
(* limits.  First HostWithinLimits of LiveHostNode: the counter of         *)
(* handshakes is exact, no limit is exceeded however many upgrades wait    *)
(* for their policies, every application is disposed once and alone, and a *)
(* shutdown reported complete left nothing behind.  Sockets may be         *)
(* infinitely many: only those a step has touched count, a step touches    *)
(* one, so those in use stay finitely many.                                *)
(*                                                                         *)
(* Then LocusStore: the persisted state of a map has one authority at a    *)
(* time, the resident host is live, the marker in flight is of a running   *)
(* operation, and the registry conflict the code guards against cannot     *)
(* happen.  None of these is inductive alone.  Together with Guarded       *)
(* (which operation the marker protects, and whether a host may be         *)
(* resident meanwhile) and Accounted (where every running authority is)    *)
(* they are.                                                               *)
(*                                                                         *)
(* Last NodeConnection, for any sizes of messages with a largest one: what *)
(* was taken goes out in order, and the queue and the buffer are bounded.  *)
(* That needs the sums of bytes of a sequence, its parts and its joins,    *)
(* by induction over their lengths.                                        *)
(***************************************************************************)
EXTENDS LiveHostNode, LocusStore, NodeConnection, SequenceTheorems, FiniteSetTheorems, TLAPS

Authorizing == {s \in WebSocket : stage[s] = "authorizing"}
OfApplication(a) == {s \in activeConnections : asks[s].app = a}
OfClient(s) == {t \in activeConnections : asks[t].client = asks[s].client}

\* What startup, disposal and shutdown keep: dispose() was called exactly for
\* the applications that left "no", one at a time, and the shutdown closes the
\* server only behind the last of them.
ServerInv ==
  /\ applications \in Seq(App) /\ asks \in Askers
  /\ life \in {"registering", "listening", "up", "stopping", "refusing", "refused"}
  /\ work \in {"none", "apps", "server", "over"}
  /\ outcome \in {"none", "completed", "failed", "timeout"}
  /\ disposal \in [App -> {"no", "running", "done", "failed"}]
  /\ calls = [a \in App |-> IF disposal[a] = "no" THEN 0 ELSE 1]
  /\ \A a, b \in App : disposal[a] = "running" /\ disposal[b] = "running" => a = b
  /\ life = "refused" => AllDisposed
  /\ work # "none" => life = "stopping"
  /\ work \in {"server", "over"} => AllDisposed
  /\ outcome \in {"completed", "failed"} => work = "over"
  /\ outcome = "completed" => \A a \in ToSet(applications) : disposal[a] = "done"

\* What admission and the connections keep.
SocketInv ==
  /\ stage \in [Socket -> {"none", "authorizing", "handling", "active", "gone"}]
  /\ ready \in [WebSocket -> {"OPEN", "CLOSING", "CLOSED"}]
  /\ accepting \in [WebSocket -> BOOLEAN] /\ deadline \in [WebSocket -> BOOLEAN]
  /\ messageCount \in [WebSocket -> Nat]
  /\ \A s \in WebSocket : messageCount[s] > MaxMessagesPerWindow => ready[s] # "OPEN"
  /\ \A s \in WebSocket : accepting[s] \/ deadline[s] => stage[s] = "active"
  /\ work = "over" => \A s \in Socket : stage[s] \in {"none", "gone"}

\* What is counted: the handshakes, and the connections under their limits.
CountInv ==
  /\ IsFiniteSet(Authorizing) /\ IsFiniteSet(activeConnections)
  /\ pendingHandshakes = Cardinality(Authorizing)
  /\ WithinLimits

HostInv == ServerInv /\ SocketInv /\ CountInv

-----------------------------------------------------------------------------

LEMMA LimitsAreNat ==
  /\ MaxConnections \in Nat \ {0} /\ MaxConnectionsPerApplication \in Nat \ {0}
  /\ MaxConnectionsPerClient \in Nat \ {0} /\ MaxPendingHandshakes \in Nat \ {0}
  /\ MaxMessagesPerWindow \in Nat \ {0}
BY HostAssumption

LEMMA HostInit == HInit => HostInv
<1>. SUFFICES ASSUME HInit PROVE HostInv
  OBVIOUS
<1>1. ServerInv
  BY HostAssumption DEF HInit, ServerInv
<1>2. SocketInv
  BY LimitsAreNat DEF HInit, SocketInv, Socket
<1>3. Authorizing = {} /\ activeConnections = {}
  BY DEF HInit, Authorizing, activeConnections, Socket
<1>4. \A a \in App : {s \in activeConnections : asks[s].app = a} = {}
  BY <1>3
<1>5. \A s \in WebSocket : {t \in activeConnections : asks[t].client = asks[s].client} = {}
  BY <1>3
<1>6. pendingHandshakes = 0
  BY DEF HInit
<1>7. CountInv
  BY <1>3, <1>4, <1>5, <1>6, FS_EmptySet, LimitsAreNat DEF CountInv, WithinLimits
<1>. QED
  BY <1>1, <1>2, <1>7 DEF HostInv

-----------------------------------------------------------------------------
(* Startup, disposal and shutdown *)

LEMMA NextIsFirst ==
  ASSUME ServerInv, NEW a \in NextToDispose
  PROVE  disposal[a] = "no" /\ \A b \in App : disposal[b] # "running"
BY DEF NextToDispose

LEMMA ServerUntouched ==
  ASSUME ServerInv, UNCHANGED serverVars
  PROVE  ServerInv'
BY DEF ServerInv, serverVars, AllDisposed

LEMMA ServerStep ==
  ASSUME ServerInv, [HNext]_hVars
  PROVE  ServerInv'
<1>1. CASE Register
  BY <1>1 DEF Register, ServerInv, AllDisposed
<1>2. CASE Listen
  BY <1>2 DEF Listen, ServerInv, AllDisposed
<1>3. CASE Refused
  BY <1>3 DEF Refused, ServerInv, AllDisposed
<1>4. ASSUME NEW a \in App, DisposeApplication(a) PROVE ServerInv'
  <2>1. disposal[a] = "no" /\ \A b \in App : disposal[b] # "running"
    BY <1>4, NextIsFirst DEF DisposeApplication
  <2>2. \A b \in App : disposal'[b] = IF b = a THEN "running" ELSE disposal[b]
    BY <1>4 DEF DisposeApplication, ServerInv
  <2>3. a \in ToSet(applications)
    BY <1>4 DEF DisposeApplication, NextToDispose, ToSet
  <2>4. ~AllDisposed
    BY <2>1, <2>3 DEF AllDisposed
  <2>5. life # "refused" /\ work \notin {"server", "over"} /\ outcome \notin {"completed", "failed"}
    BY <2>4 DEF ServerInv
  <2>6. calls' = [b \in App |-> IF disposal'[b] = "no" THEN 0 ELSE 1]
    BY <1>4, <2>1, <2>2 DEF DisposeApplication, ServerInv
  <2>. QED
    BY <1>4, <2>1, <2>2, <2>5, <2>6 DEF DisposeApplication, ServerInv
<1>5. ASSUME NEW a \in App, ApplicationDisposed(a) PROVE ServerInv'
  <2>1. PICK to \in {"done", "failed"} : disposal' = [disposal EXCEPT ![a] = to]
    BY <1>5 DEF ApplicationDisposed
  <2>2. \A b \in App : disposal'[b] = IF b = a THEN to ELSE disposal[b]
    BY <2>1 DEF ServerInv
  <2>3. disposal[a] = "running" /\ UNCHANGED <<applications, asks, life, calls, work, outcome>>
    BY <1>5 DEF ApplicationDisposed
  <2>4. calls' = [b \in App |-> IF disposal'[b] = "no" THEN 0 ELSE 1]
    BY <2>2, <2>3 DEF ServerInv
  <2>5. disposal' \in [App -> {"no", "running", "done", "failed"}]
    BY <2>1 DEF ServerInv
  <2>6. ToSet(applications) \subseteq App
    BY DEF ServerInv, ToSet
  <2>7. AllDisposed => a \notin ToSet(applications)
    BY <2>3 DEF AllDisposed
  <2>8. AllDisposed => AllDisposed'
    BY <2>2, <2>3, <2>6, <2>7 DEF AllDisposed
  <2>9. outcome = "completed" => \A b \in ToSet(applications) : disposal'[b] = "done"
    BY <2>2, <2>3, <2>6 DEF ServerInv
  <2>. QED
    BY <2>2, <2>3, <2>4, <2>5, <2>8, <2>9 DEF ServerInv
<1>6. CASE Dispose
  BY <1>6 DEF Dispose, ServerInv, AllDisposed
<1>7. CASE CloseAll
  BY <1>7 DEF CloseAll, ServerInv, AllDisposed
<1>8. CASE ServerClosed
  BY <1>8 DEF ServerClosed, ServerInv, AllDisposed
<1>9. CASE ShutdownTimeout
  BY <1>9 DEF ShutdownTimeout, ServerInv, AllDisposed
<1>10. CASE UNCHANGED serverVars
  BY <1>10, ServerUntouched
<1>. QED
  <2>1. ASSUME NEW s \in Http, Request(s) \/ RequestAuthorized(s) \/ Respond(s) PROVE UNCHANGED serverVars
    BY <2>1 DEF Request, RequestAuthorized, Respond
  <2>2. ASSUME NEW s \in WebSocket,
               Upgrade(s) \/ UpgradeAuthorized(s) \/ AcceptSettles(s) \/ Message(s)
                 \/ Pong(s) \/ Deadline(s) \/ CloseEvent(s)
        PROVE  UNCHANGED serverVars
    BY <2>2 DEF Upgrade, UpgradeAuthorized, AcceptSettles, Message, Pong, Deadline, CloseEvent
  <2>3. Heartbeat \/ DisconnectConnections => UNCHANGED serverVars
    BY DEF Heartbeat, DisconnectConnections
  <2>4. UNCHANGED hVars => UNCHANGED serverVars
    BY DEF hVars
  <2>. QED
    BY <1>1, <1>2, <1>3, <1>4, <1>5, <1>6, <1>7, <1>8, <1>9, <1>10, <2>1, <2>2, <2>3, <2>4 DEF HNext

\* A disposal that runs is alone, and none runs once startup was refused.
LEMMA DisposedOnceHolds == ServerInv => DisposedOnce
<1>. SUFFICES ASSUME ServerInv PROVE DisposedOnce
  OBVIOUS
<1>. DEFINE R == {a \in App : disposal[a] = "running"}
<1>1. R = {} => Cardinality(R) = 0
  BY FS_EmptySet
<1>2. ASSUME NEW a \in R PROVE Cardinality(R) = 1
  <2>1. R = {a}
    BY <1>2 DEF ServerInv
  <2>2. Cardinality({a}) = 1
    BY FS_Singleton
  <2>. QED
    BY <2>1, <2>2
<1>3. Cardinality(R) <= 1
  <2>1. Cardinality(R) = 0 \/ Cardinality(R) = 1
    BY <1>1, <1>2
  <2>. QED
    BY <2>1
<1>4. \A a \in App : calls[a] <= 1
  BY DEF ServerInv
<1>5. ASSUME life = "refused", NEW a \in ToSet(applications) PROVE calls[a] = 1
  <2>1. a \in App
    BY DEF ServerInv, ToSet
  <2>. QED
    BY <1>5, <2>1 DEF ServerInv, AllDisposed
<1>. QED
  BY <1>3, <1>4, <1>5 DEF DisposedOnce

-----------------------------------------------------------------------------
(* Sockets *)

LEMMA SocketStep ==
  ASSUME ServerInv, SocketInv, [HNext]_hVars
  PROVE  SocketInv'
<1>. USE DEF Socket
<1>1. CASE UNCHANGED <<work, stage, ready, accepting, deadline, messageCount>>
  BY <1>1 DEF SocketInv
<1>2. CASE Register \/ Listen \/ Refused \/ Dispose
  BY <1>1, <1>2 DEF Register, Listen, Refused, Dispose, socketVars, SocketInv, ServerInv
<1>3. ASSUME NEW a \in App, DisposeApplication(a) \/ ApplicationDisposed(a) PROVE SocketInv'
  BY <1>1, <1>3 DEF DisposeApplication, ApplicationDisposed, socketVars
<1>4. ASSUME NEW s \in Http, Request(s) \/ RequestAuthorized(s) \/ Respond(s) PROVE SocketInv'
  <2>1. s \in Socket /\ s \notin WebSocket
    BY HostAssumption
  <2>2. CASE Request(s)
    BY <2>1, <2>2 DEF Request, SocketInv, serverVars, beatVars
  <2>3. CASE RequestAuthorized(s)
    BY <2>1, <2>3 DEF RequestAuthorized, SocketInv, serverVars, beatVars
  <2>4. CASE Respond(s)
    BY <2>1, <2>4 DEF Respond, SocketInv, serverVars, beatVars
  <2>. QED
    BY <1>4, <2>2, <2>3, <2>4
<1>5. ASSUME NEW s \in WebSocket, Upgrade(s) PROVE SocketInv'
  BY <1>5 DEF Upgrade, SocketInv, serverVars, beatVars
<1>6. ASSUME NEW s \in WebSocket, UpgradeAuthorized(s) PROVE SocketInv'
  <2>1. stage[s] = "authorizing" /\ work # "over"
    BY <1>6 DEF UpgradeAuthorized, SocketInv
  <2>. QED
    BY <1>6, <2>1 DEF UpgradeAuthorized, SocketInv, serverVars
<1>7. ASSUME NEW s \in WebSocket, AcceptSettles(s) PROVE SocketInv'
  BY <1>7 DEF AcceptSettles, CloseWith, SocketInv, serverVars, beatVars
<1>8. ASSUME NEW s \in WebSocket, Message(s) PROVE SocketInv'
  BY <1>8, LimitsAreNat DEF Message, CloseWith, SocketInv, serverVars
<1>9. ASSUME NEW s \in WebSocket, Pong(s) \/ Deadline(s) PROVE SocketInv'
  <2>1. CASE Pong(s)
    BY <2>1 DEF Pong, SocketInv, serverVars
  <2>2. CASE Deadline(s)
    BY <2>2 DEF Deadline, CloseWith, SocketInv, serverVars
  <2>. QED
    BY <1>9, <2>1, <2>2
<1>10. ASSUME NEW s \in WebSocket, CloseEvent(s) PROVE SocketInv'
  BY <1>10, LimitsAreNat DEF CloseEvent, SocketInv, serverVars
<1>11. CASE Heartbeat
  BY <1>11 DEF Heartbeat, activeConnections, SocketInv, serverVars
<1>12. CASE DisconnectConnections \/ CloseAll
  BY <1>12 DEF DisconnectConnections, CloseAll, CloseWith, SocketInv, ServerInv, serverVars, beatVars
<1>13. CASE ServerClosed
  BY <1>13 DEF ServerClosed, Gone, SocketInv, socketVars
<1>14. CASE ShutdownTimeout
  BY <1>14, HostAssumption DEF ShutdownTimeout, CloseWith, SocketInv, beatVars
<1>15. CASE UNCHANGED hVars
  BY <1>1, <1>15 DEF hVars, serverVars, socketVars
<1>. QED
  BY <1>2, <1>3, <1>4, <1>5, <1>6, <1>7, <1>8, <1>9, <1>10, <1>11, <1>12, <1>13, <1>14, <1>15 DEF HNext

-----------------------------------------------------------------------------
(* The counts *)

\* A step that adds no connection and no handshake, with the counter told of
\* the handshakes that end.
LEMMA FewerConnections ==
  ASSUME ServerInv, CountInv, asks' = asks,
         activeConnections' \subseteq activeConnections,
         Authorizing' \subseteq Authorizing,
         pendingHandshakes' = Cardinality(Authorizing')
  PROVE  CountInv'
<1>1. \A S, T : IsFiniteSet(S) /\ T \subseteq S =>
         IsFiniteSet(T) /\ Cardinality(T) <= Cardinality(S) /\ Cardinality(T) \in Nat /\ Cardinality(S) \in Nat
  BY FS_Subset, FS_CardinalityType
<1>2. PICK A, B : A = activeConnections /\ B = activeConnections'
  OBVIOUS
<1>3. IsFiniteSet(A) /\ B \subseteq A
  BY <1>2 DEF CountInv
<1>4. IsFiniteSet(B) /\ Cardinality(B) <= Cardinality(A) /\ Cardinality(B) \in Nat /\ Cardinality(A) \in Nat
  BY <1>1, <1>3
<1>5. ASSUME NEW a \in App
      PROVE  Cardinality({s \in B : asks[s].app = a}) <= MaxConnectionsPerApplication
  <2>1. IsFiniteSet({s \in A : asks[s].app = a})
    BY <1>3, FS_Subset
  <2>2. {s \in B : asks[s].app = a} \subseteq {s \in A : asks[s].app = a}
    BY <1>3
  <2>3. Cardinality({s \in A : asks[s].app = a}) <= MaxConnectionsPerApplication
    BY <1>2 DEF CountInv, WithinLimits
  <2>4. PICK S, T : S = {s \in A : asks[s].app = a} /\ T = {s \in B : asks[s].app = a}
    OBVIOUS
  <2>5. Cardinality(T) <= Cardinality(S) /\ Cardinality(T) \in Nat /\ Cardinality(S) \in Nat
    BY <1>1, <2>1, <2>2, <2>4
  <2>. QED
    BY <2>3, <2>4, <2>5, LimitsAreNat
<1>6. ASSUME NEW u \in WebSocket
      PROVE  Cardinality({t \in B : asks[t].client = asks[u].client}) <= MaxConnectionsPerClient
  <2>1. IsFiniteSet({t \in A : asks[t].client = asks[u].client})
    BY <1>3, FS_Subset
  <2>2. {t \in B : asks[t].client = asks[u].client} \subseteq {t \in A : asks[t].client = asks[u].client}
    BY <1>3
  <2>3. Cardinality({t \in A : asks[t].client = asks[u].client}) <= MaxConnectionsPerClient
    BY <1>2 DEF CountInv, WithinLimits
  <2>4. PICK S, T : S = {t \in A : asks[t].client = asks[u].client}
                    /\ T = {t \in B : asks[t].client = asks[u].client}
    OBVIOUS
  <2>5. Cardinality(T) <= Cardinality(S) /\ Cardinality(T) \in Nat /\ Cardinality(S) \in Nat
    BY <1>1, <2>1, <2>2, <2>4
  <2>. QED
    BY <2>3, <2>4, <2>5, LimitsAreNat
<1>7. Cardinality(B) <= MaxConnections
  BY <1>2, <1>4, LimitsAreNat DEF CountInv, WithinLimits
<1>8. PICK P, Q : P = Authorizing /\ Q = Authorizing'
  OBVIOUS
<1>9. IsFiniteSet(Q) /\ Cardinality(Q) <= Cardinality(P) /\ Cardinality(Q) \in Nat /\ Cardinality(P) \in Nat
  BY <1>1, <1>8 DEF CountInv
<1>10. IsFiniteSet(Authorizing') /\ pendingHandshakes' <= MaxPendingHandshakes
  BY <1>8, <1>9, LimitsAreNat DEF CountInv, WithinLimits
<1>11. CountInv' <=>
         /\ IsFiniteSet(Authorizing') /\ IsFiniteSet(B)
         /\ pendingHandshakes' = Cardinality(Authorizing')
         /\ Cardinality(B) <= MaxConnections
         /\ \A a \in App : Cardinality({s \in B : asks[s].app = a}) <= MaxConnectionsPerApplication
         /\ \A s \in WebSocket :
               Cardinality({t \in B : asks[t].client = asks[s].client}) <= MaxConnectionsPerClient
         /\ pendingHandshakes' <= MaxPendingHandshakes
  BY <1>2 DEF CountInv, WithinLimits
<1>. QED
  BY <1>4, <1>5, <1>6, <1>7, <1>10, <1>11

\* A handshake begins, while there is room for one.
LEMMA HandshakeBegins ==
  ASSUME ServerInv, SocketInv, CountInv, NEW s \in WebSocket, Upgrade(s)
  PROVE  CountInv'
<1>0. asks' = asks /\ s \in Socket /\ stage[s] = "none"
  BY DEF Upgrade, serverVars, Socket
<1>1. CASE stage' = [stage EXCEPT ![s] = "gone"] /\ UNCHANGED pendingHandshakes
  <2>1. activeConnections' = activeConnections /\ Authorizing' = Authorizing
    BY <1>0, <1>1 DEF activeConnections, Authorizing, SocketInv, Socket
  <2>. QED
    BY <1>0, <1>1, <2>1, FewerConnections DEF CountInv
<1>2. CASE /\ stage' = [stage EXCEPT ![s] = "authorizing"]
           /\ pendingHandshakes' = pendingHandshakes + 1
           /\ ~(pendingHandshakes >= MaxPendingHandshakes)
  <2>1. activeConnections' = activeConnections
    BY <1>0, <1>2 DEF activeConnections, SocketInv, Socket
  <2>2. Authorizing' = Authorizing \cup {s} /\ s \notin Authorizing
    BY <1>0, <1>2 DEF Authorizing, SocketInv, Socket
  <2>3. IsFiniteSet(Authorizing') /\ Cardinality(Authorizing') = Cardinality(Authorizing) + 1
    BY <2>2, FS_AddElement DEF CountInv
  <2>4. pendingHandshakes \in Nat
    BY FS_CardinalityType DEF CountInv
  <2>5. pendingHandshakes' = Cardinality(Authorizing') /\ pendingHandshakes' <= MaxPendingHandshakes
    BY <1>2, <2>3, <2>4, LimitsAreNat DEF CountInv
  <2>. QED
    BY <1>0, <2>1, <2>3, <2>5 DEF CountInv, WithinLimits
<1>. QED
  BY <1>1, <1>2 DEF Upgrade

\* A handshake ends, in a connection when the limits, read again, leave room.
LEMMA HandshakeEnds ==
  ASSUME ServerInv, SocketInv, CountInv, NEW s \in WebSocket, UpgradeAuthorized(s)
  PROVE  CountInv'
<1>0. asks' = asks /\ s \in Socket /\ stage[s] = "authorizing"
  BY DEF UpgradeAuthorized, serverVars, Socket
<1>1. ASSUME stage' = [stage EXCEPT ![s] = "gone"] \/ stage' = [stage EXCEPT ![s] = "active"]
      PROVE  Authorizing' = Authorizing \ {s} /\ s \in Authorizing
  BY <1>0, <1>1 DEF Authorizing, SocketInv, Socket
<1>2. /\ IsFiniteSet(Authorizing') /\ pendingHandshakes' = Cardinality(Authorizing')
      /\ pendingHandshakes \in Nat /\ pendingHandshakes' = pendingHandshakes - 1
  <2>1. stage' = [stage EXCEPT ![s] = "gone"] \/ stage' = [stage EXCEPT ![s] = "active"]
    BY DEF UpgradeAuthorized
  <2>2. IsFiniteSet(Authorizing') /\ Cardinality(Authorizing') = Cardinality(Authorizing) - 1
    BY <1>1, <2>1, FS_RemoveElement DEF CountInv
  <2>3. Cardinality(Authorizing) \in Nat
    BY FS_CardinalityType DEF CountInv
  <2>. QED
    BY <2>2, <2>3 DEF UpgradeAuthorized, CountInv
<1>3. CASE stage' = [stage EXCEPT ![s] = "gone"]
  <2>1. activeConnections' = activeConnections /\ Authorizing' \subseteq Authorizing
    BY <1>0, <1>1, <1>3 DEF activeConnections, SocketInv, Socket
  <2>. QED
    BY <1>0, <1>2, <2>1, FewerConnections
<1>4. CASE stage' = [stage EXCEPT ![s] = "active"] /\ Admissible(s)
  <2>1. PICK A, B : A = activeConnections /\ B = activeConnections'
    OBVIOUS
  <2>2. B = A \cup {s} /\ s \notin A
    BY <1>0, <1>4, <2>1 DEF activeConnections, SocketInv, Socket
  <2>3. IsFiniteSet(A)
    BY <2>1 DEF CountInv
  <2>4. \A S : IsFiniteSet(S) => /\ IsFiniteSet(S \cup {s}) /\ Cardinality(S) \in Nat
                                /\ Cardinality(S \cup {s}) <= Cardinality(S) + 1
    <3>1. SUFFICES ASSUME NEW S, IsFiniteSet(S)
                   PROVE  /\ IsFiniteSet(S \cup {s}) /\ Cardinality(S) \in Nat
                          /\ Cardinality(S \cup {s}) <= Cardinality(S) + 1
      OBVIOUS
    <3>2. Cardinality(S) \in Nat
      BY <3>1, FS_CardinalityType
    <3>3. /\ IsFiniteSet(S \cup {s})
          /\ Cardinality(S \cup {s}) = IF s \in S THEN Cardinality(S) ELSE Cardinality(S) + 1
      BY <3>1, FS_AddElement
    <3>. QED
      BY <3>2, <3>3
  <2>5. IsFiniteSet(B) /\ Cardinality(B) <= MaxConnections
    <3>1. Cardinality(A) < MaxConnections
      BY <1>4, <2>1 DEF Admissible, HasRoom
    <3>. QED
      BY <2>2, <2>3, <2>4, <3>1, LimitsAreNat, FS_CardinalityType
  <2>6. ASSUME NEW a \in App
        PROVE  Cardinality({t \in B : asks[t].app = a}) <= MaxConnectionsPerApplication
    <3>1. PICK S : S = {t \in A : asks[t].app = a}
      OBVIOUS
    <3>2. IsFiniteSet(S)
      BY <2>3, <3>1, FS_Subset
    <3>3. Cardinality(S) <= MaxConnectionsPerApplication
      BY <2>1, <3>1 DEF CountInv, WithinLimits
    <3>4. CASE asks[s].app = a
      <4>1. {t \in B : asks[t].app = a} = S \cup {s}
        BY <2>2, <3>1, <3>4
      <4>2. Cardinality(S) < MaxConnectionsPerApplication
        BY <1>4, <2>1, <3>1, <3>4 DEF Admissible, HasRoom
      <4>. QED
        BY <2>4, <3>2, <4>1, <4>2, LimitsAreNat, FS_CardinalityType
    <3>5. CASE asks[s].app # a
      <4>1. {t \in B : asks[t].app = a} = S
        BY <2>2, <3>1, <3>5
      <4>. QED
        BY <3>3, <4>1
    <3>. QED
      BY <3>4, <3>5
  <2>7. ASSUME NEW u \in WebSocket
        PROVE  Cardinality({t \in B : asks[t].client = asks[u].client}) <= MaxConnectionsPerClient
    <3>1. PICK S : S = {t \in A : asks[t].client = asks[u].client}
      OBVIOUS
    <3>2. IsFiniteSet(S)
      BY <2>3, <3>1, FS_Subset
    <3>3. Cardinality(S) <= MaxConnectionsPerClient
      BY <2>1, <3>1 DEF CountInv, WithinLimits
    <3>4. CASE asks[s].client = asks[u].client
      <4>1. {t \in B : asks[t].client = asks[u].client} = S \cup {s}
        BY <2>2, <3>1, <3>4
      <4>2. Cardinality(S) < MaxConnectionsPerClient
        BY <1>4, <2>1, <3>1, <3>4 DEF Admissible, HasRoom
      <4>. QED
        BY <2>4, <3>2, <4>1, <4>2, LimitsAreNat, FS_CardinalityType
    <3>5. CASE asks[s].client # asks[u].client
      <4>1. {t \in B : asks[t].client = asks[u].client} = S
        BY <2>2, <3>1, <3>5
      <4>. QED
        BY <3>3, <4>1
    <3>. QED
      BY <3>4, <3>5
  <2>8. pendingHandshakes' <= MaxPendingHandshakes
    BY <1>2, LimitsAreNat DEF CountInv, WithinLimits
  <2>9. CountInv' <=>
          /\ IsFiniteSet(Authorizing') /\ IsFiniteSet(B)
          /\ pendingHandshakes' = Cardinality(Authorizing')
          /\ Cardinality(B) <= MaxConnections
          /\ \A a \in App : Cardinality({t \in B : asks[t].app = a}) <= MaxConnectionsPerApplication
          /\ \A u \in WebSocket :
                Cardinality({t \in B : asks[t].client = asks[u].client}) <= MaxConnectionsPerClient
          /\ pendingHandshakes' <= MaxPendingHandshakes
    BY <1>0, <2>1 DEF CountInv, WithinLimits
  <2>. QED
    BY <1>2, <2>5, <2>6, <2>7, <2>8, <2>9
<1>. QED
  BY <1>3, <1>4 DEF UpgradeAuthorized

LEMMA CountStep ==
  ASSUME ServerInv, SocketInv, CountInv, [HNext]_hVars
  PROVE  CountInv'
<1>1. ASSUME asks' = asks, pendingHandshakes' = pendingHandshakes,
             activeConnections' \subseteq activeConnections, Authorizing' = Authorizing
      PROVE  CountInv'
  BY <1>1, FewerConnections DEF CountInv
<1>2. CASE UNCHANGED <<asks, pendingHandshakes, stage>>
  <2>1. activeConnections' = activeConnections /\ Authorizing' = Authorizing
    BY <1>2 DEF activeConnections, Authorizing
  <2>. QED
    BY <1>1, <1>2, <2>1
<1>3. CASE Register \/ Listen \/ Refused \/ Dispose \/ CloseAll \/ ServerClosed \/ Heartbeat
             \/ DisconnectConnections \/ UNCHANGED hVars
  BY <1>2, <1>3 DEF Register, Listen, Refused, Dispose, CloseAll, ServerClosed, Heartbeat,
       DisconnectConnections, hVars, serverVars, socketVars
<1>4. ASSUME NEW a \in App, DisposeApplication(a) \/ ApplicationDisposed(a) PROVE CountInv'
  BY <1>2, <1>4 DEF DisposeApplication, ApplicationDisposed, socketVars
<1>5. ASSUME NEW s \in Http, Request(s) \/ RequestAuthorized(s) \/ Respond(s) PROVE CountInv'
  <2>1. UNCHANGED <<asks, pendingHandshakes>> /\ \A t \in WebSocket : stage'[t] = stage[t]
    BY <1>5, HostAssumption DEF Request, RequestAuthorized, Respond, serverVars, SocketInv, Socket
  <2>2. activeConnections' = activeConnections /\ Authorizing' = Authorizing
    BY <2>1 DEF activeConnections, Authorizing
  <2>. QED
    BY <1>1, <2>1, <2>2
<1>6. ASSUME NEW s \in WebSocket, AcceptSettles(s) \/ Message(s) \/ Pong(s) \/ Deadline(s) PROVE CountInv'
  BY <1>2, <1>6 DEF AcceptSettles, Message, Pong, Deadline, serverVars
<1>7. ASSUME NEW s \in WebSocket, CloseEvent(s) PROVE CountInv'
  <2>1. activeConnections' \subseteq activeConnections /\ Authorizing' = Authorizing
    BY <1>7 DEF CloseEvent, activeConnections, Authorizing, SocketInv, Socket
  <2>. QED
    BY <1>1, <1>7, <2>1 DEF CloseEvent, serverVars
<1>8. CASE ShutdownTimeout
  <2>1. \A t \in WebSocket : stage'[t] = stage[t]
    BY <1>8, HostAssumption DEF ShutdownTimeout, Socket
  <2>2. activeConnections' = activeConnections /\ Authorizing' = Authorizing
    BY <2>1 DEF activeConnections, Authorizing
  <2>. QED
    BY <1>1, <1>8, <2>2 DEF ShutdownTimeout
<1>. QED
  BY <1>3, <1>4, <1>5, <1>6, <1>7, <1>8, HandshakeBegins, HandshakeEnds DEF HNext

-----------------------------------------------------------------------------

\* The counts of the host are exact and its limits hold: start_node_application_host
\* returns the place of a handshake on every way out of an upgrade, looks at the
\* limits again when the policies have answered, disposes of every application
\* once, and reports a shutdown complete only when nothing is left.
THEOREM HostKeepsLimits == HSpec => []HostWithinLimits
<1>1. HostInv /\ [HNext]_hVars => HostInv'
  BY ServerStep, SocketStep, CountStep DEF HostInv
<1>2. HostInv => HostWithinLimits
  <2>. SUFFICES ASSUME HostInv PROVE HostWithinLimits
    OBVIOUS
  <2>1. HTypeOK
    BY DEF HostInv, ServerInv, SocketInv, CountInv, HTypeOK, Authorizing
  <2>2. CompletedIsClean
    BY DEF HostInv, ServerInv, SocketInv, CompletedIsClean, Gone
  <2>. QED
    BY <2>1, <2>2, DisposedOnceHolds DEF HostInv, CountInv, HostWithinLimits
<1>. QED
  BY <1>1, <1>2, HostInit, PTL DEF HSpec

-----------------------------------------------------------------------------
(* The persistent store. *)

\* Every operation but a load that has ended runs behind its own marker and
\* with nothing resident.
Alone == {"creating", "discarding", "created", "loading", "restored", "unloading", "unloaded"}

Guarded ==
  /\ \A c \in Call : pc[c] \in Alone => inflight = c /\ hosts = NoCall
  /\ inflight # NoCall => pc[inflight] \in Alone \cup {"loaded"}
  /\ inflight # NoCall /\ hosts # NoCall => pc[inflight] = "loaded"
  /\ \A c \in Call : pc[c] = "unloaded" => authority[on[c]] \notin Running
  /\ \A c \in Call : pc[c] = "start" => authority[c] = "none"
  /\ \A c \in Call : pc[c] = "loading" => authority[c] = "none"
  /\ \A c \in Call : pc[c] = "discarding" => authority[c] \in {"closing", "released"}
  /\ \A c \in Call : pc[c] \in {"creating", "restored"} => authority[c] = "live"
  /\ \A c \in Call : pc[c] = "created" =>
       IF promise[c] = "host" THEN authority[c] = "live" ELSE authority[c] \notin Running
  /\ \A c \in Call : pc[c] = "unloading" => on[c] \in Call

\* A promise in flight settles no later than its operation, and those who joined
\* it wait for one that was made.
Promised ==
  /\ inflight # NoCall => promise[inflight] # "none"
  /\ \A c \in Call : pc[c] = "joined" => on[c] \in Call /\ promise[on[c]] # "none"
  /\ \A c \in Call : pc[c] \in {"created", "loaded", "unloaded"} => promise[c] \in Answer
  /\ \A c \in Call : pc[c] \in {"settled", "joined"} => promise[c] # "pending"
  /\ \A c \in Call : pc[c] = "start" => promise[c] = "none"

\* A running authority is the resident one, the one its own call still has in
\* hand, or the one a running unload waits for.
InHand(a) == inflight = a /\ pc[a] \in {"creating", "discarding", "created", "restored"}
Leaving(a) == inflight # NoCall /\ pc[inflight] = "unloading" /\ on[inflight] = a
Accounted == \A a \in Call : authority[a] \in Running => hosts = a \/ InHand(a) \/ Leaving(a)

StoreInv ==
  TypeOK /\ ResidentIsLive /\ NoRegistryConflict /\ MarkerClears /\ Guarded /\ Promised /\ Accounted

LEMMA StoreInit == Init => StoreInv
BY NoCallAssumption DEF Init, StoreInv, TypeOK, ResidentIsLive, NoRegistryConflict, MarkerClears,
   Guarded, Promised, Accounted, Running, Answer, Alone

\* Every step preserves the invariant.
LEMMA StoreStep == StoreInv /\ [Next]_vars => StoreInv'
<1>. SUFFICES ASSUME StoreInv, [Next]_vars PROVE StoreInv'
  OBVIOUS
<1>. USE NoCallAssumption
     DEF Running, Answer, Alone, Goto, Return, Become, Settle
<1>1. ASSUME NEW c \in Call, Create(c) PROVE StoreInv'
  <2>1. TypeOK'
    BY <1>1 DEF StoreInv, TypeOK, Promised, Guarded, Create, Mark
  <2>2. ResidentIsLive' /\ NoRegistryConflict' /\ MarkerClears'
    BY <1>1 DEF StoreInv, TypeOK, ResidentIsLive, NoRegistryConflict, MarkerClears, Guarded, Create, Mark
  <2>3. Guarded'
    BY <1>1 DEF StoreInv, TypeOK, ResidentIsLive, Guarded, Promised, Create, Mark
  <2>4. Promised'
    BY <1>1 DEF StoreInv, TypeOK, Guarded, Promised, Create, Mark
  <2>5. Accounted'
    BY <1>1 DEF StoreInv, TypeOK, Guarded, Accounted, InHand, Leaving, Create, Mark
  <2>. QED
    BY <2>1, <2>2, <2>3, <2>4, <2>5 DEF StoreInv
<1>2. ASSUME NEW c \in Call, InitialCheckpoint(c) PROVE StoreInv'
  <2>0. /\ pc[c] = "creating"
        /\ \/ UNCHANGED authority /\ Settle(c, "host") /\ Goto(c, "created")
           \/ DisposeHost(c) /\ Goto(c, "discarding") /\ UNCHANGED promise
        /\ UNCHANGED <<hosts, inflight, on, result>>
    BY <1>2 DEF InitialCheckpoint
  <2>1. TypeOK'
    BY <1>2 DEF StoreInv, TypeOK, Promised, Guarded, InitialCheckpoint, DisposeHost
  <2>2. ResidentIsLive' /\ NoRegistryConflict' /\ MarkerClears'
    BY <2>0 DEF StoreInv, TypeOK, ResidentIsLive, NoRegistryConflict, MarkerClears, Guarded, DisposeHost
  <2>3. Guarded'
    BY <2>0 DEF StoreInv, TypeOK, ResidentIsLive, Guarded, Promised, DisposeHost
  <2>4. Promised'
    BY <2>0 DEF StoreInv, TypeOK, Guarded, Promised, DisposeHost
  <2>5. Accounted'
    BY <2>0 DEF StoreInv, TypeOK, Guarded, Accounted, InHand, Leaving, DisposeHost
  <2>. QED
    BY <2>1, <2>2, <2>3, <2>4, <2>5 DEF StoreInv
<1>3. ASSUME NEW c \in Call, Discarded(c) PROVE StoreInv'
  <2>1. TypeOK'
    BY <1>3 DEF StoreInv, TypeOK, Promised, Guarded, Discarded
  <2>2. ResidentIsLive' /\ NoRegistryConflict' /\ MarkerClears'
    BY <1>3 DEF StoreInv, TypeOK, ResidentIsLive, NoRegistryConflict, MarkerClears, Guarded, Discarded
  <2>3. Guarded'
    BY <1>3 DEF StoreInv, TypeOK, ResidentIsLive, Guarded, Promised, Discarded
  <2>4. Promised'
    BY <1>3 DEF StoreInv, TypeOK, Guarded, Promised, Discarded
  <2>5. Accounted'
    BY <1>3 DEF StoreInv, TypeOK, Guarded, Accounted, InHand, Leaving, Discarded
  <2>. QED
    BY <2>1, <2>2, <2>3, <2>4, <2>5 DEF StoreInv
<1>4. ASSUME NEW c \in Call, CreateReturns(c) PROVE StoreInv'
  <2>1. TypeOK'
    BY <1>4 DEF StoreInv, TypeOK, Promised, Guarded, CreateReturns, UnmarkOwn
  <2>2. ResidentIsLive' /\ NoRegistryConflict' /\ MarkerClears'
    BY <1>4 DEF StoreInv, TypeOK, ResidentIsLive, NoRegistryConflict, MarkerClears, Guarded, CreateReturns, UnmarkOwn
  <2>3. Guarded'
    BY <1>4 DEF StoreInv, TypeOK, ResidentIsLive, Guarded, Promised, CreateReturns, UnmarkOwn
  <2>4. Promised'
    BY <1>4 DEF StoreInv, TypeOK, Guarded, Promised, CreateReturns, UnmarkOwn
  <2>5. Accounted'
    BY <1>4 DEF StoreInv, TypeOK, Guarded, Accounted, InHand, Leaving, CreateReturns, UnmarkOwn
  <2>. QED
    BY <2>1, <2>2, <2>3, <2>4, <2>5 DEF StoreInv
<1>5. ASSUME NEW c \in Call, Lookup(c) PROVE StoreInv'
  <2>1. TypeOK'
    BY <1>5 DEF StoreInv, TypeOK, Promised, Guarded, Lookup, Mark, NothingInFlight
  <2>2. ResidentIsLive' /\ NoRegistryConflict' /\ MarkerClears'
    BY <1>5 DEF StoreInv, TypeOK, ResidentIsLive, NoRegistryConflict, MarkerClears, Guarded, Lookup, Mark, NothingInFlight
  <2>3. Guarded'
    BY <1>5 DEF StoreInv, TypeOK, ResidentIsLive, Guarded, Promised, Lookup, Mark, NothingInFlight
  <2>4. Promised'
    BY <1>5 DEF StoreInv, TypeOK, Guarded, Promised, Lookup, Mark, NothingInFlight
  <2>5. Accounted'
    BY <1>5 DEF StoreInv, TypeOK, Guarded, Accounted, InHand, Leaving, Lookup, Mark, NothingInFlight
  <2>. QED
    BY <2>1, <2>2, <2>3, <2>4, <2>5 DEF StoreInv
<1>6. ASSUME NEW c \in Call, AdapterLoads(c) PROVE StoreInv'
  <2>1. TypeOK'
    BY <1>6 DEF StoreInv, TypeOK, Promised, Guarded, AdapterLoads
  <2>2. ResidentIsLive' /\ NoRegistryConflict' /\ MarkerClears'
    BY <1>6 DEF StoreInv, TypeOK, ResidentIsLive, NoRegistryConflict, MarkerClears, Guarded, AdapterLoads
  <2>3. Guarded'
    BY <1>6 DEF StoreInv, TypeOK, ResidentIsLive, Guarded, Promised, AdapterLoads
  <2>4. Promised'
    BY <1>6 DEF StoreInv, TypeOK, Guarded, Promised, AdapterLoads
  <2>5. Accounted'
    BY <1>6 DEF StoreInv, TypeOK, Guarded, Accounted, InHand, Leaving, AdapterLoads
  <2>. QED
    BY <2>1, <2>2, <2>3, <2>4, <2>5 DEF StoreInv
<1>7. ASSUME NEW c \in Call, Install(c) PROVE StoreInv'
  <2>1. TypeOK'
    BY <1>7 DEF StoreInv, TypeOK, Promised, Guarded, Install
  <2>2. ResidentIsLive' /\ NoRegistryConflict' /\ MarkerClears'
    BY <1>7 DEF StoreInv, TypeOK, ResidentIsLive, NoRegistryConflict, MarkerClears, Guarded, Install
  <2>3. Guarded'
    BY <1>7 DEF StoreInv, TypeOK, ResidentIsLive, Guarded, Promised, Install
  <2>4. Promised'
    BY <1>7 DEF StoreInv, TypeOK, Guarded, Promised, Install
  <2>5. Accounted'
    BY <1>7 DEF StoreInv, TypeOK, Guarded, Accounted, InHand, Leaving, Install
  <2>. QED
    BY <2>1, <2>2, <2>3, <2>4, <2>5 DEF StoreInv
<1>8. ASSUME NEW c \in Call, LoadReturns(c) PROVE StoreInv'
  <2>1. TypeOK'
    BY <1>8 DEF StoreInv, TypeOK, Promised, Guarded, LoadReturns, UnmarkOwn
  <2>2. ResidentIsLive' /\ NoRegistryConflict' /\ MarkerClears'
    BY <1>8 DEF StoreInv, TypeOK, ResidentIsLive, NoRegistryConflict, MarkerClears, Guarded, LoadReturns, UnmarkOwn
  <2>3. Guarded'
    BY <1>8 DEF StoreInv, TypeOK, ResidentIsLive, Guarded, Promised, LoadReturns, UnmarkOwn
  <2>4. Promised'
    BY <1>8 DEF StoreInv, TypeOK, Guarded, Promised, LoadReturns, UnmarkOwn
  <2>5. Accounted'
    BY <1>8 DEF StoreInv, TypeOK, Guarded, Accounted, InHand, Leaving, LoadReturns, UnmarkOwn
  <2>. QED
    BY <2>1, <2>2, <2>3, <2>4, <2>5 DEF StoreInv
<1>9. ASSUME NEW c \in Call, Join(c) PROVE StoreInv'
  <2>1. TypeOK'
    BY <1>9 DEF StoreInv, TypeOK, Promised, Guarded, Join, JoinedIsOver
  <2>2. ResidentIsLive' /\ NoRegistryConflict' /\ MarkerClears'
    BY <1>9 DEF StoreInv, TypeOK, ResidentIsLive, NoRegistryConflict, MarkerClears, Guarded, Join, JoinedIsOver
  <2>3. Guarded'
    BY <1>9 DEF StoreInv, TypeOK, ResidentIsLive, Guarded, Promised, Join, JoinedIsOver
  <2>4. Promised'
    BY <1>9 DEF StoreInv, TypeOK, Guarded, Promised, Join, JoinedIsOver
  <2>5. Accounted'
    BY <1>9 DEF StoreInv, TypeOK, Guarded, Accounted, InHand, Leaving, Join, JoinedIsOver
  <2>. QED
    BY <2>1, <2>2, <2>3, <2>4, <2>5 DEF StoreInv
<1>10. ASSUME NEW c \in Call, Unload(c) PROVE StoreInv'
  <2>1. TypeOK'
    BY <1>10 DEF StoreInv, TypeOK, Promised, Guarded, Unload, Mark, Withdraw, DisposeHost
  <2>2. ResidentIsLive' /\ NoRegistryConflict' /\ MarkerClears'
    BY <1>10 DEF StoreInv, TypeOK, ResidentIsLive, NoRegistryConflict, MarkerClears, Guarded, Unload, Mark, Withdraw, DisposeHost
  <2>3. Guarded'
    BY <1>10 DEF StoreInv, TypeOK, ResidentIsLive, Guarded, Promised, Unload, Mark, Withdraw, DisposeHost
  <2>4. Promised'
    BY <1>10 DEF StoreInv, TypeOK, Guarded, Promised, Unload, Mark, Withdraw, DisposeHost
  <2>5. Accounted'
    BY <1>10 DEF StoreInv, TypeOK, Guarded, Accounted, InHand, Leaving, Unload, Mark, Withdraw, DisposeHost
  <2>. QED
    BY <2>1, <2>2, <2>3, <2>4, <2>5 DEF StoreInv
<1>11. ASSUME NEW c \in Call, Release(c) PROVE StoreInv'
  <2>1. TypeOK'
    BY <1>11 DEF StoreInv, TypeOK, Promised, Guarded, Release
  <2>2. ResidentIsLive' /\ NoRegistryConflict' /\ MarkerClears'
    BY <1>11 DEF StoreInv, TypeOK, ResidentIsLive, NoRegistryConflict, MarkerClears, Guarded, Release
  <2>3. Guarded'
    BY <1>11 DEF StoreInv, TypeOK, ResidentIsLive, Guarded, Promised, Release
  <2>4. Promised'
    BY <1>11 DEF StoreInv, TypeOK, Guarded, Promised, Release
  <2>5. Accounted'
    BY <1>11 DEF StoreInv, TypeOK, Guarded, Accounted, InHand, Leaving, Release
  <2>. QED
    BY <2>1, <2>2, <2>3, <2>4, <2>5 DEF StoreInv
<1>12. ASSUME NEW c \in Call, Unloaded(c) PROVE StoreInv'
  <2>1. TypeOK'
    BY <1>12 DEF StoreInv, TypeOK, Promised, Guarded, Unloaded
  <2>2. ResidentIsLive' /\ NoRegistryConflict' /\ MarkerClears'
    BY <1>12 DEF StoreInv, TypeOK, ResidentIsLive, NoRegistryConflict, MarkerClears, Guarded, Unloaded
  <2>3. Guarded'
    BY <1>12 DEF StoreInv, TypeOK, ResidentIsLive, Guarded, Promised, Unloaded
  <2>4. Promised'
    BY <1>12 DEF StoreInv, TypeOK, Guarded, Promised, Unloaded
  <2>5. Accounted'
    BY <1>12 DEF StoreInv, TypeOK, Guarded, Accounted, InHand, Leaving, Unloaded
  <2>. QED
    BY <2>1, <2>2, <2>3, <2>4, <2>5 DEF StoreInv
<1>13. ASSUME NEW c \in Call, UnloadReturns(c) PROVE StoreInv'
  <2>1. TypeOK'
    BY <1>13 DEF StoreInv, TypeOK, Promised, Guarded, UnloadReturns, UnmarkOwn
  <2>2. ResidentIsLive' /\ NoRegistryConflict' /\ MarkerClears'
    BY <1>13 DEF StoreInv, TypeOK, ResidentIsLive, NoRegistryConflict, MarkerClears, Guarded, UnloadReturns, UnmarkOwn
  <2>3. Guarded'
    BY <1>13 DEF StoreInv, TypeOK, ResidentIsLive, Guarded, Promised, UnloadReturns, UnmarkOwn
  <2>4. Promised'
    BY <1>13 DEF StoreInv, TypeOK, Guarded, Promised, UnloadReturns, UnmarkOwn
  <2>5. Accounted'
    BY <1>13 DEF StoreInv, TypeOK, Guarded, Accounted, InHand, Leaving, UnloadReturns, UnmarkOwn
  <2>. QED
    BY <2>1, <2>2, <2>3, <2>4, <2>5 DEF StoreInv
<1>14. CASE UNCHANGED vars
  BY <1>14 DEF vars, StoreInv, TypeOK, ResidentIsLive, NoRegistryConflict, MarkerClears,
     Guarded, Promised, Accounted, InHand, Leaving
<1>. QED
  BY <1>1, <1>2, <1>3, <1>4, <1>5, <1>6, <1>7, <1>8, <1>9, <1>10, <1>11, <1>12, <1>13, <1>14 DEF Next, Continues

\* The invariant, of every reachable state.
THEOREM StoreInvariant == Spec => []StoreInv
BY StoreInit, StoreStep, PTL DEF Spec

\* However creations, loads and unloads interleave, fail or overtake each other,
\* the persisted state of a map has at most one authority (livehost.persistent-store.ts).
THEOREM OneAuthorityAtATime == Spec => []OneAuthority
<1>1. StoreInv => OneAuthority
  BY NoCallAssumption DEF StoreInv, TypeOK, OneAuthority, Accounted, InHand, Leaving, Guarded, Alone
<1>. QED
  BY <1>1, StoreInvariant, PTL

\* The registry-changed check of a load (livehost.persistent-store.ts:64) never
\* fires, and the resident host has never been disposed.
THEOREM LoadsNeverConflict == Spec => [](NoRegistryConflict /\ ResidentIsLive /\ MarkerClears)
<1>1. StoreInv => NoRegistryConflict /\ ResidentIsLive /\ MarkerClears
  BY DEF StoreInv
<1>. QED
  BY <1>1, StoreInvariant, PTL

\* What the store's tables say is true: the resident host is live, and the marker
\* in flight is that of a running operation (livehost.persistent-store.ts).
THEOREM StoreTablesTrue == Spec => []StoreConsistent
<1>1. StoreInv => StoreConsistent
  BY DEF StoreInv, StoreConsistent
<1>. QED
  BY <1>1, StoreInvariant, PTL

-----------------------------------------------------------------------------

\* A non-empty set of naturals has a least element.
LEMMA LeastNatural ==
  ASSUME NEW T, T \subseteq Nat, T # {}
  PROVE \E x \in T : \A y \in T : x <= y
<1> DEFINE R == OpToRel(<, Nat)
<1>1. IsWellFoundedOn(R, Nat)
  BY NatLessThanWellFounded, Zenon
<1> HIDE DEF R
<1>2. PICK x \in T : \A y \in T : ~(<<y, x>> \in R)
  BY <1>1, WFMin
<1>3. \A y \in T : <<y, x>> \in R <=> y < x
  BY DEF R, OpToRel
<1>4. \A y \in T : x \in Nat /\ y \in Nat /\ ~(y < x)
  BY <1>2, <1>3
<1>5. \A y \in T : x <= y
  BY <1>4
<1> QED
  BY <1>5

\* A set with zero, and with the successor of what it has below N, has 0 .. N.
LEMMA CountUp ==
  ASSUME NEW N \in Nat, NEW T, 0 \in T, \A n \in Nat : n < N /\ n \in T => n + 1 \in T
  PROVE \A n \in 0 .. N : n \in T
<1> DEFINE Missing == {n \in 0 .. N : n \notin T}
<1>1. SUFFICES ASSUME Missing # {} PROVE FALSE
  OBVIOUS
<1>2. PICK x \in Missing : \A y \in Missing : x <= y
  <2>1. Missing \subseteq Nat
    OBVIOUS
  <2> HIDE DEF Missing
  <2> QED
    BY <1>1, <2>1, LeastNatural
<1>3. x \in 0 .. N /\ x \notin T /\ x # 0
  BY <1>2
<1>4. x - 1 \in Nat /\ x - 1 < N /\ x - 1 + 1 = x
  BY <1>3
<1>5. x - 1 \notin T
  BY <1>3, <1>4
<1>6. x - 1 \in Missing
  BY <1>4, <1>5
<1>7. x <= x - 1
  BY <1>2, <1>6
<1> QED
  BY <1>7, <1>3

Payload == [id : Nat, bytes : Sizes]

\* What Sums is: nothing of no message, and each message adds its bytes.
LEMMA SumsSteps ==
  ASSUME NEW messages, Len(messages) \in Nat
  PROVE /\ Sums(messages)[0] = 0
        /\ \A n \in 1 .. Len(messages) :
              Sums(messages)[n] = Sums(messages)[n - 1] + messages[n].bytes
<1> DEFINE Fits(f, m) == f = [n \in 0 .. m |-> IF n = 0 THEN 0 ELSE f[n - 1] + messages[n].bytes]
           T == {m \in Nat : \E f : Fits(f, m)}
<1>1. 0 \in T
  <2>1. Fits([n \in 0 .. 0 |-> 0], 0)
    OBVIOUS
  <2> QED
    BY <2>1
<1>2. ASSUME NEW m \in Nat, m \in T PROVE m + 1 \in T
  <2>1. PICK f : Fits(f, m)
    BY <1>2
  <2> DEFINE g == [n \in 0 .. (m + 1) |-> IF n = m + 1 THEN f[m] + messages[m + 1].bytes ELSE f[n]]
  <2>2. ASSUME NEW n \in 0 .. (m + 1)
        PROVE g[n] = IF n = 0 THEN 0 ELSE g[n - 1] + messages[n].bytes
    <3>1. CASE n = m + 1
      <4>1. g[n] = f[m] + messages[m + 1].bytes /\ n # 0
        BY <3>1
      <4>2. n - 1 = m /\ g[m] = f[m]
        BY <3>1
      <4> QED
        BY <4>1, <4>2, <3>1
    <3>2. CASE n # m + 1
      <4>1. n \in 0 .. m
        BY <3>2
      <4>2. g[n] = f[n]
        BY <3>2
      <4>3. f[n] = IF n = 0 THEN 0 ELSE f[n - 1] + messages[n].bytes
        BY <4>1, <2>1
      <4>4. n # 0 => n - 1 \in 0 .. (m + 1) /\ n - 1 # m + 1
        BY <4>1
      <4>5. n # 0 => g[n - 1] = f[n - 1]
        BY <4>4
      <4> QED
        BY <4>2, <4>3, <4>5
    <3> QED
      BY <3>1, <3>2
  <2> HIDE DEF g
  <2>3. g = [n \in 0 .. (m + 1) |-> g[n]]
    BY DEF g
  <2>4. Fits(g, m + 1)
    BY <2>2, <2>3
  <2> QED
    BY <2>4
<1>3. Len(messages) \in T
  <2> HIDE DEF T
  <2>1. \A n \in 0 .. Len(messages) : n \in T
    BY <1>1, <1>2, CountUp
  <2> QED
    BY <2>1
<1>4. Fits(Sums(messages), Len(messages))
  <2>1. PICK f : Fits(f, Len(messages))
    BY <1>3
  <2> QED
    BY <2>1 DEF Sums
<1> DEFINE sum == Sums(messages)
<1> HIDE DEF sum
<1>5. sum = [n \in 0 .. Len(messages) |-> IF n = 0 THEN 0 ELSE sum[n - 1] + messages[n].bytes]
  BY <1>4 DEF sum
<1>6. sum[0] = 0
  BY <1>5
<1>7. \A n \in 1 .. Len(messages) : n \in 0 .. Len(messages) /\ n # 0
  OBVIOUS
<1>8. \A n \in 1 .. Len(messages) : sum[n] = sum[n - 1] + messages[n].bytes
  BY <1>5, <1>7
<1> QED
  BY <1>6, <1>8 DEF sum

LEMMA BytesNatural ==
  ASSUME NEW s \in Seq(Payload), NEW i \in 1 .. Len(s)
  PROVE s[i].bytes \in Nat
<1>1. s[i] \in Payload
  OBVIOUS
<1> QED
  BY <1>1, QueueAssumption DEF Payload

\* Bytes are naturals, and so is their sum.
LEMMA SumsNatural ==
  ASSUME NEW s \in Seq(Payload)
  PROVE \A n \in 0 .. Len(s) : Sums(s)[n] \in Nat
<1> DEFINE T == {n \in Nat : Sums(s)[n] \in Nat}
<1>1. 0 \in T
  BY SumsSteps
<1>2. ASSUME NEW n \in Nat, n < Len(s), n \in T PROVE n + 1 \in T
  <2>1. n + 1 \in 1 .. Len(s) /\ n + 1 - 1 = n
    BY <1>2
  <2>2. Sums(s)[n + 1] = Sums(s)[n] + s[n + 1].bytes
    BY <2>1, SumsSteps
  <2>3. s[n + 1].bytes \in Nat
    BY <2>1, BytesNatural
  <2> QED
    BY <2>2, <2>3, <1>2
<1> HIDE DEF T
<1>3. \A n \in 0 .. Len(s) : n \in T
  BY <1>1, <1>2, CountUp
<1> QED
  BY <1>3 DEF T

\* A stretch of a sequence adds what it adds on its own.
LEMMA SumsJoin ==
  ASSUME NEW s \in Seq(Payload), NEW t \in Seq(Payload), NEW d \in Nat, NEW N \in Nat,
         N <= Len(t), d + N <= Len(s), \A i \in 1 .. N : s[d + i] = t[i]
  PROVE Sums(s)[d + N] = Sums(s)[d] + Sums(t)[N]
<1> DEFINE T == {n \in Nat : Sums(s)[d + n] = Sums(s)[d] + Sums(t)[n]}
<1>1. 0 \in T
  <2>1. Sums(t)[0] = 0 /\ d \in 0 .. Len(s)
    BY SumsSteps
  <2>2. Sums(s)[d] \in Nat
    BY <2>1, SumsNatural
  <2> QED
    BY <2>1, <2>2
<1>2. ASSUME NEW n \in Nat, n < N, n \in T PROVE n + 1 \in T
  <2>1. /\ n + 1 \in 1 .. Len(t) /\ n + 1 - 1 = n /\ n + 1 \in 1 .. N /\ n \in 0 .. Len(t)
        /\ d + (n + 1) \in 1 .. Len(s) /\ d + (n + 1) - 1 = d + n /\ d \in 0 .. Len(s)
    BY <1>2
  <2>2. Sums(t)[n + 1] = Sums(t)[n] + t[n + 1].bytes
    <3>1. Len(t) \in Nat
      OBVIOUS
    <3>2. \A k \in 1 .. Len(t) : Sums(t)[k] = Sums(t)[k - 1] + t[k].bytes
      BY <3>1, SumsSteps, Zenon
    <3> QED
      BY <2>1, <3>2
  <2>3. Sums(s)[d + (n + 1)] = Sums(s)[d + n] + s[d + (n + 1)].bytes
    <3>1. Len(s) \in Nat
      OBVIOUS
    <3>2. \A k \in 1 .. Len(s) : Sums(s)[k] = Sums(s)[k - 1] + s[k].bytes
      BY <3>1, SumsSteps, Zenon
    <3> QED
      BY <2>1, <3>2
  <2>4. s[d + (n + 1)] = t[n + 1]
    BY <2>1
  <2>5. t[n + 1].bytes \in Nat
    BY <2>1, BytesNatural
  <2>6. Sums(s)[d] \in Nat /\ Sums(t)[n] \in Nat
    BY <2>1, SumsNatural
  <2> QED
    BY <2>2, <2>3, <2>4, <2>5, <2>6, <1>2
<1> HIDE DEF T
<1>3. \A n \in 0 .. N : n \in T
  BY <1>1, <1>2, CountUp
<1>4. N \in T
  BY <1>3
<1> QED
  BY <1>4 DEF T

\* The bytes of two sequences together.
LEMMA TotalJoin ==
  ASSUME NEW s \in Seq(Payload), NEW t \in Seq(Payload)
  PROVE Total(s \o t) = Total(s) + Total(t)
<1> DEFINE u == s \o t
<1>1. u \in Seq(Payload) /\ Len(u) = Len(s) + Len(t)
  OBVIOUS
<1>2. \A i \in 1 .. Len(s) : u[0 + i] = s[i]
  OBVIOUS
<1>3. \A i \in 1 .. Len(t) : u[Len(s) + i] = t[i]
  OBVIOUS
<1>4. Len(s) \in Nat /\ Len(t) \in Nat /\ Len(s) <= Len(s) /\ Len(t) <= Len(t)
      /\ 0 + Len(s) <= Len(u) /\ Len(s) + Len(t) <= Len(u)
  BY <1>1
<1> HIDE DEF u
<1>5. Sums(u)[0 + Len(s)] = Sums(u)[0] + Sums(s)[Len(s)]
  <2>1. 0 \in Nat
    OBVIOUS
  <2> QED
    BY <1>1, <1>2, <1>4, <2>1, SumsJoin
<1>6. Sums(u)[Len(s) + Len(t)] = Sums(u)[Len(s)] + Sums(t)[Len(t)]
  BY <1>1, <1>3, <1>4, SumsJoin
<1>7. Sums(u)[0] = 0
  BY <1>1, SumsSteps
<1>8. Sums(s)[Len(s)] \in Nat
  BY SumsNatural
<1>9. 0 + Len(s) = Len(s)
  OBVIOUS
<1>10. Total(u) = Total(s) + Total(t)
  BY <1>1, <1>5, <1>6, <1>7, <1>8, <1>9 DEF Total
<1> QED
  BY <1>10 DEF u

\* A sequence divided behind its first n messages.
LEMMA TotalDivided ==
  ASSUME NEW s \in Seq(Payload), NEW n \in 0 .. Len(s)
  PROVE /\ SubSeq(s, 1, n) \in Seq(Payload) /\ SubSeq(s, n + 1, Len(s)) \in Seq(Payload)
        /\ Len(SubSeq(s, 1, n)) = n /\ Len(SubSeq(s, n + 1, Len(s))) = Len(s) - n
        /\ s = SubSeq(s, 1, n) \o SubSeq(s, n + 1, Len(s))
        /\ Total(SubSeq(s, 1, n)) = Sums(s)[n]
        /\ Total(s) = Sums(s)[n] + Total(SubSeq(s, n + 1, Len(s)))
        /\ Total(s) \in Nat /\ Sums(s)[n] \in Nat /\ Total(SubSeq(s, n + 1, Len(s))) \in Nat
<1> DEFINE p == SubSeq(s, 1, n)
           q == SubSeq(s, n + 1, Len(s))
<1>1. p \in Seq(Payload) /\ q \in Seq(Payload)
  OBVIOUS
<1>2. Len(p) = n /\ Len(q) = Len(s) - n
  OBVIOUS
<1>3. (\A i \in 1 .. n : p[i] = s[i]) /\ (\A i \in 1 .. Len(s) - n : q[i] = s[n + i])
  OBVIOUS
<1> HIDE DEF p, q
<1>4. s = p \o q
  <2>1. p \o q \in Seq(Payload) /\ Len(p \o q) = Len(s)
    BY <1>1, <1>2
  <2>2. ASSUME NEW i \in 1 .. Len(s) PROVE s[i] = (p \o q)[i]
    <3>1. CASE i <= n
      BY <3>1, <1>1, <1>2, <1>3
    <3>2. CASE ~(i <= n)
      <4>1. (p \o q)[i] = q[i - n] /\ i - n \in 1 .. Len(s) - n /\ n + (i - n) = i
        BY <3>2, <1>1, <1>2
      <4> QED
        BY <4>1, <1>3
    <3> QED
      BY <3>1, <3>2
  <2> QED
    BY <2>1, <2>2, SeqEqual
<1>5. Sums(s)[0 + n] = Sums(s)[0] + Sums(p)[n]
  <2>1. 0 \in Nat /\ n \in Nat /\ n <= Len(p) /\ 0 + n <= Len(s) /\ \A i \in 1 .. n : s[0 + i] = p[i]
    BY <1>2, <1>3
  <2> QED
    BY <1>1, <2>1, SumsJoin
<1>6. Sums(s)[0] = 0 /\ Sums(p)[n] \in Nat /\ Sums(s)[n] \in Nat /\ Sums(s)[Len(s)] \in Nat
      /\ Sums(q)[Len(q)] \in Nat
  BY <1>1, <1>2, SumsSteps, SumsNatural
<1>7. Total(p) = Sums(s)[n]
  BY <1>2, <1>5, <1>6 DEF Total
<1>8. Total(s) = Total(p) + Total(q)
  BY <1>1, <1>4, TotalJoin
<1> QED
  BY <1>1, <1>2, <1>4, <1>6, <1>7, <1>8 DEF p, q, Total

\* One message more, and the first one gone.
LEMMA TotalAppend ==
  ASSUME NEW s \in Seq(Payload), NEW m \in Payload
  PROVE Total(Append(s, m)) = Total(s) + m.bytes
<1>1. <<m>> \in Seq(Payload) /\ Append(s, m) = s \o <<m>> /\ Len(<<m>>) = 1 /\ <<m>>[1] = m
  OBVIOUS
<1>2. Total(s \o <<m>>) = Total(s) + Total(<<m>>)
  BY <1>1, TotalJoin
<1>3. Sums(<<m>>)[0] = 0 /\ Sums(<<m>>)[1] = Sums(<<m>>)[1 - 1] + <<m>>[1].bytes
  BY <1>1, SumsSteps
<1>4. m.bytes \in Nat
  BY QueueAssumption DEF Payload
<1> QED
  BY <1>1, <1>2, <1>3, <1>4 DEF Total
LEMMA TotalTail ==
  ASSUME NEW s \in Seq(Payload), s # <<>>
  PROVE Total(Tail(s)) \in Nat /\ Total(Tail(s)) <= Total(s)
<1>1. 1 \in 0 .. Len(s) /\ Tail(s) = SubSeq(s, 1 + 1, Len(s))
  OBVIOUS
<1>2. Total(Tail(s)) \in Nat /\ Sums(s)[1] \in Nat /\ Total(s) = Sums(s)[1] + Total(Tail(s))
  BY <1>1, TotalDivided
<1> QED
  BY <1>2

\* How many messages a flush hands over: it stops at the first that finds the
\* buffer above the limit, so they overfill the buffer by one message at most.
LEMMA TakesFew ==
  ASSUME NEW waiting \in Seq(Payload), NEW buffer \in Nat,
         NEW largest \in Sizes, \A size \in Sizes : size <= largest
  PROVE /\ Takes(waiting, buffer) \in 0 .. Len(waiting)
        /\ Takes(waiting, buffer) # 0 =>
             buffer + Sums(waiting)[Takes(waiting, buffer)] <= MaxBufferedAmount + largest
<1> DEFINE sum == Sums(waiting)
           Over == {n \in 0 .. Len(waiting) :
                      n < Len(waiting) => buffer + sum[n] > MaxBufferedAmount}
           First(n) == /\ \A k \in 0 .. n - 1 : buffer + sum[k] <= MaxBufferedAmount
                       /\ n < Len(waiting) => buffer + sum[n] > MaxBufferedAmount
<1>1. \A n \in 0 .. Len(waiting) : sum[n] \in Nat
  BY SumsNatural
<1>2. Len(waiting) \in Over
  OBVIOUS
<1>3. PICK n \in Over : \A m \in Over : n <= m
  <2>1. Over \subseteq Nat /\ Over # {}
    BY <1>2
  <2> HIDE DEF Over
  <2> QED
    BY <2>1, LeastNatural
<1> HIDE DEF sum
<1>4. n \in 0 .. Len(waiting) /\ First(n)
  <2>1. ASSUME NEW k \in 0 .. n - 1 PROVE buffer + sum[k] <= MaxBufferedAmount
    <3>1. k \in 0 .. Len(waiting) /\ k < n
      BY <1>3
    <3>2. k \notin Over
      BY <3>1, <1>3
    <3>3. ~(buffer + sum[k] > MaxBufferedAmount)
      BY <3>1, <3>2
    <3> QED
      BY <3>1, <3>3, <1>1, QueueAssumption
  <2> QED
    BY <2>1, <1>3
<1> DEFINE t == Takes(waiting, buffer)
<1> HIDE DEF Over, First
<1>5. t = CHOOSE m \in 0 .. Len(waiting) : First(m)
  BY DEF Takes, First, sum
<1>6. t \in 0 .. Len(waiting) /\ First(t)
  <2> HIDE DEF t
  <2> QED
    BY <1>4, <1>5
<1> HIDE DEF t
<1>7. ASSUME t # 0 PROVE buffer + sum[t] <= MaxBufferedAmount + largest
  <2>1. t - 1 \in 0 .. t - 1 /\ t \in 1 .. Len(waiting) /\ t - 1 \in 0 .. Len(waiting)
    BY <1>6, <1>7
  <2>2. buffer + sum[t - 1] <= MaxBufferedAmount
    BY <2>1, <1>6 DEF First
  <2>3. sum[t] = sum[t - 1] + waiting[t].bytes
    BY <2>1, SumsSteps DEF sum
  <2>4. waiting[t] \in Payload
    BY <2>1
  <2>5. waiting[t].bytes \in Sizes
    BY <2>4 DEF Payload
  <2>6. waiting[t].bytes <= largest /\ waiting[t].bytes \in Nat /\ largest \in Nat
    BY <2>5, QueueAssumption
  <2>7. sum[t - 1] \in Nat
    BY <2>1, <1>1
  <2> QED
    BY <2>2, <2>3, <2>6, <2>7, QueueAssumption
<1> QED
  BY <1>6, <1>7 DEF t, sum

-----------------------------------------------------------------------------

\* What the connection keeps: the count in flight is that of the buffer, what
\* was taken went out or waits, and queue and buffer exceed the limit by one
\* message at most.
MessagesOK ==
  /\ queued \in Seq(Payload) /\ wire \in Seq(Payload) /\ transmitted \in Seq(Payload)
  /\ pinged \in Nat /\ inFlight \in Nat /\ accepted \in Nat
Bounded(largest) ==
  /\ Total(queued) <= MaxBufferedAmount + largest
  /\ Total(wire) <= MaxBufferedAmount + largest
QueueInv(largest) == MessagesOK /\ QTypeOK /\ NothingOvertaken /\ Bounded(largest)

LEMMA Regrouped ==
  \A s, t, u \in Seq(Payload) : (s \o t) \o u = s \o (t \o u)
BY ConcatAssociative

\* A flush moves messages from the queue to the buffer: it loses none, keeps
\* their order, and keeps both within bounds.
LEMMA FlushKeeps ==
  ASSUME NEW largest \in Sizes, \A size \in Sizes : size <= largest,
         NEW waiting \in Seq(Payload), NEW buffer \in Seq(Payload), NEW flying \in Nat,
         NEW timer, transmitted \in Seq(Payload), pinged \in Nat,
         Total(waiting) <= MaxBufferedAmount + largest, Total(buffer) <= MaxBufferedAmount + largest,
         Flush(waiting, buffer, flying, timer)
  PROVE /\ queued' \in Seq(Payload) /\ wire' \in Seq(Payload) /\ transmitted' \in Seq(Payload)
        /\ inFlight' \in Nat
        /\ inFlight' - flying = Len(wire') - Len(buffer)
        /\ transmitted' \o queued' = transmitted \o waiting
        /\ Total(queued') <= MaxBufferedAmount + largest
        /\ Total(wire') <= MaxBufferedAmount + largest
<1> DEFINE n == Takes(waiting, Total(buffer) + pinged)
           p == SubSeq(waiting, 1, n)
           q == SubSeq(waiting, n + 1, Len(waiting))
<1>1. Total(buffer) \in Nat
  <2>1. 0 \in 0 .. Len(buffer)
    OBVIOUS
  <2> QED
    BY <2>1, TotalDivided
<1>2. Total(buffer) + pinged \in Nat
  BY <1>1
<1>3. /\ n \in 0 .. Len(waiting)
      /\ n # 0 => Total(buffer) + pinged + Sums(waiting)[n] <= MaxBufferedAmount + largest
  BY <1>2, TakesFew
<1>4. queued' = q /\ wire' = buffer \o p /\ inFlight' = flying + n /\ transmitted' = transmitted \o p
  BY DEF Flush
<1> HIDE DEF n
<1>5. /\ p \in Seq(Payload) /\ q \in Seq(Payload) /\ Len(p) = n /\ waiting = p \o q
      /\ Total(p) = Sums(waiting)[n] /\ Total(waiting) = Sums(waiting)[n] + Total(q)
      /\ Total(waiting) \in Nat /\ Sums(waiting)[n] \in Nat /\ Total(q) \in Nat
  BY <1>3, TotalDivided
<1> HIDE DEF p, q
<1>6. transmitted' \o queued' = transmitted \o waiting
  <2>1. (transmitted \o p) \o q = transmitted \o (p \o q)
    BY <1>5, Regrouped, Zenon
  <2> QED
    BY <2>1, <1>4, <1>5
<1>7. Total(queued') <= MaxBufferedAmount + largest
  BY <1>4, <1>5, QueueAssumption
<1>8. Total(wire') <= MaxBufferedAmount + largest
  <2>1. Total(wire') = Total(buffer) + Total(p)
    BY <1>4, <1>5, TotalJoin
  <2>2. Total(wire') = Total(buffer) + Sums(waiting)[n]
    BY <2>1, <1>5
  <2>3. Sums(waiting)[n] \in Nat
    BY <1>5
  <2> DEFINE sum == Sums(waiting)[n]
             old == Total(buffer)
             bound == MaxBufferedAmount + largest
  <2>4. old + sum <= bound
    <3>1. CASE n = 0
      <4>1. sum = 0
        BY <3>1, SumsSteps
      <4> HIDE DEF sum
      <4> QED
        BY <4>1, <1>1
    <3>2. CASE n # 0
      <4>1. old + pinged + sum <= bound
        BY <3>2, <1>3
      <4>2. bound \in Nat /\ sum \in Nat /\ old \in Nat
        BY <1>1, <2>3, QueueAssumption
      <4> HIDE DEF sum, old, bound
      <4> QED
        BY <4>1, <4>2
    <3> QED
      BY <3>1, <3>2
  <2> QED
    BY <2>2, <2>4
<1>9. Len(wire') = Len(buffer) + n /\ wire' \in Seq(Payload) /\ transmitted' \in Seq(Payload)
  <2>1. buffer \o p \in Seq(Payload) /\ Len(buffer \o p) = Len(buffer) + Len(p)
    BY <1>5, ConcatProperties, Zenon
  <2>2. transmitted \o p \in Seq(Payload)
    BY <1>5, ConcatProperties, Zenon
  <2> QED
    BY <2>1, <2>2, <1>4, <1>5
<1>10. n \in Nat /\ Len(buffer) \in Nat
  BY <1>3
<1> QED
  BY <1>4, <1>5, <1>6, <1>7, <1>8, <1>9, <1>10

LEMMA TotalNatural ==
  ASSUME NEW s \in Seq(Payload)
  PROVE Total(s) \in Nat
<1>1. 0 \in 0 .. Len(s)
  OBVIOUS
<1> QED
  BY <1>1, TotalDivided

LEMMA TotalNothing == Total(<<>>) = 0
<1>1. Len(<<>>) = 0 /\ Len(<<>>) \in Nat
  OBVIOUS
<1> QED
  BY <1>1, SumsSteps DEF Total

\* The limit of the queue is that of the buffer and the largest message.
LEMMA LimitBound ==
  ASSUME NEW largest \in Sizes, \A size \in Sizes : size <= largest,
         queued \in Seq(Payload), NEW size \in Sizes
  PROVE QueueLimit(size) \in Nat /\ QueueLimit(size) <= MaxBufferedAmount + largest
<1> DEFINE sizes == {size} \cup {message.bytes : message \in ToSet(queued)}
           Spare == {largest - s : s \in sizes}
           chosen == CHOOSE l \in sizes : \A other \in sizes : other <= l
<1>1. sizes \subseteq Sizes
  <2>1. ASSUME NEW i \in DOMAIN queued PROVE queued[i].bytes \in Sizes
    <3>1. queued[i] \in Payload
      BY <2>1
    <3> QED
      BY <3>1 DEF Payload
  <2> QED
    BY <2>1 DEF ToSet
<1>2. \A s \in sizes : s \in Nat /\ s <= largest /\ largest \in Nat
  BY <1>1, QueueAssumption
<1>3. size \in sizes
  OBVIOUS
<1>4. PICK x \in Spare : \A y \in Spare : x <= y
  <2>1. Spare \subseteq Nat /\ Spare # {}
    <3> HIDE DEF sizes
    <3> QED
      BY <1>2, <1>3
  <2> HIDE DEF Spare
  <2> QED
    BY <2>1, LeastNatural
<1> HIDE DEF sizes
<1>5. PICK s \in sizes : x = largest - s
  BY <1>4
<1>6. \A other \in sizes : other <= s
  <2> TAKE other \in sizes
  <2>1. largest - s <= largest - other
    BY <1>4, <1>5
  <2> QED
    BY <2>1, <1>2
<1>7. chosen \in sizes
  BY <1>6
<1>8. QueueLimit(size) = MaxBufferedAmount + chosen
  BY DEF QueueLimit, sizes
<1> HIDE DEF chosen
<1> QED
  BY <1>2, <1>7, <1>8, QueueAssumption

LEMMA QueueInit ==
  ASSUME NEW largest \in Sizes, QInit
  PROVE QueueInv(largest)
<1>1. Total(<<>>) = 0 /\ largest \in Nat
  BY TotalNothing, QueueAssumption
<1>2. MessagesOK
  BY DEF QInit, MessagesOK
<1>3. QTypeOK
  BY DEF QInit, QTypeOK
<1>4. NothingOvertaken
  BY DEF QInit, NothingOvertaken
<1>5. Bounded(largest)
  BY <1>1, QueueAssumption DEF QInit, Bounded
<1> QED
  BY <1>2, <1>3, <1>4, <1>5 DEF QueueInv

\* What went out and what waits, when one message more was taken.
LEMMA TakenInOrder ==
  ASSUME NEW all \in Seq(Payload), accepted \in Nat, Len(all) = accepted,
         \A n \in 1 .. accepted : all[n].id = n,
         NEW message \in Payload, message.id = accepted + 1
  PROVE /\ Len(Append(all, message)) = accepted + 1
        /\ \A n \in 1 .. accepted + 1 : Append(all, message)[n].id = n
<1>1. Len(Append(all, message)) = accepted + 1
  OBVIOUS
<1>2. ASSUME NEW n \in 1 .. accepted + 1 PROVE Append(all, message)[n].id = n
  <2>1. CASE n = accepted + 1
    <3>1. Append(all, message)[n] = message
      BY <2>1
    <3> QED
      BY <3>1, <2>1
  <2>2. CASE n # accepted + 1
    <3>1. n \in 1 .. accepted /\ Append(all, message)[n] = all[n]
      BY <2>2
    <3> QED
      BY <3>1
  <2> QED
    BY <2>1, <2>2
<1> QED
  BY <1>1, <1>2

\* Closing the connection, in whatever way, drops the queue.
LEMMA GiveUpKeeps ==
  ASSUME NEW largest \in Sizes, QueueInv(largest), shut', ReleaseQueue,
         readyState' \in {"OPEN", "CLOSING", "CLOSED"}, shut' \in BOOLEAN,
         wire' \in Seq(Payload), Total(wire') <= MaxBufferedAmount + largest,
         pinged' \in Nat, UNCHANGED <<accepted, transmitted>>
  PROVE QueueInv(largest)'
<1>1. Total(queued') <= MaxBufferedAmount + largest
  BY TotalNothing, QueueAssumption DEF ReleaseQueue
<1>2. MessagesOK'
  BY DEF QueueInv, MessagesOK, ReleaseQueue
<1>3. QTypeOK'
  BY DEF QTypeOK, ReleaseQueue
<1>4. NothingOvertaken'
  BY DEF NothingOvertaken
<1>5. Bounded(largest)'
  BY <1>1 DEF Bounded
<1> QED
  BY <1>2, <1>3, <1>4, <1>5 DEF QueueInv

\* A message is taken into the queue, or goes out at once.
LEMMA SendStep ==
  ASSUME NEW largest \in Sizes, \A size \in Sizes : size <= largest,
         QueueInv(largest), NEW size \in Sizes, Send(size)
  PROVE QueueInv(largest)'
<1> DEFINE message == [id |-> accepted + 1, bytes |-> size]
           all == transmitted \o queued
<1>1. message \in Payload /\ size \in Nat /\ size <= largest /\ largest \in Nat
      /\ message.id = accepted + 1 /\ message.bytes = size
  BY QueueAssumption DEF Payload, QueueInv, MessagesOK
<1>2. ~shut /\ readyState = "OPEN" /\ MessagesOK /\ inFlight = Len(wire)
  BY DEF Send, QueueInv, QTypeOK
<1>3. all \in Seq(Payload) /\ Len(all) = accepted /\ (\A n \in 1 .. accepted : all[n].id = n)
  <2>1. all \in Seq(Payload)
    BY <1>2, ConcatProperties, Zenon DEF MessagesOK
  <2> QED
    BY <2>1, <1>2 DEF QueueInv, NothingOvertaken
<1> HIDE DEF all
<1>4. /\ Append(all, message) \in Seq(Payload) /\ Len(Append(all, message)) = accepted + 1
      /\ \A n \in 1 .. accepted + 1 : Append(all, message)[n].id = n
  BY <1>1, <1>2, <1>3, TakenInOrder DEF MessagesOK
<1> HIDE DEF message
<1>5. Total(queued) \in Nat /\ Total(wire) \in Nat
  BY <1>2, TotalNatural DEF MessagesOK
<1>6. CASE Holds /\ Refuses(size) /\ GiveUp
  <2>1. shut' /\ shut' \in BOOLEAN /\ ReleaseQueue /\ UNCHANGED <<wire, pinged, accepted, transmitted>>
        /\ readyState' \in {"OPEN", "CLOSING", "CLOSED"}
    BY <1>6 DEF GiveUp, AskClose, QueueInv, QTypeOK
  <2> QED
    BY <2>1, <1>2, GiveUpKeeps DEF QueueInv, MessagesOK, Bounded
<1>7. CASE /\ Holds /\ ~Refuses(size)
           /\ accepted' = accepted + 1
           /\ Flush(Append(queued, message), wire, inFlight, drainTimer)
           /\ UNCHANGED <<pinged, shut, readyState>>
  <2> DEFINE waiting == Append(queued, message)
  <2>1. waiting \in Seq(Payload) /\ Total(waiting) = Total(queued) + size
    BY <1>1, <1>2, TotalAppend DEF MessagesOK
  <2>2. Total(queued) + size <= MaxBufferedAmount + largest
    <3>1. QueueLimit(size) \in Nat /\ QueueLimit(size) <= MaxBufferedAmount + largest
      BY <1>2, LimitBound DEF MessagesOK
    <3>2. ~(Total(queued) + size > QueueLimit(size))
      BY <1>7 DEF Refuses
    <3> QED
      BY <3>1, <3>2, <1>1, <1>5, QueueAssumption
  <2>3. transmitted \o waiting = Append(all, message)
    BY <1>1, <1>2 DEF MessagesOK, all
  <2> HIDE DEF waiting
  <2>4. /\ queued' \in Seq(Payload) /\ wire' \in Seq(Payload) /\ transmitted' \in Seq(Payload)
        /\ inFlight' \in Nat
        /\ inFlight' - inFlight = Len(wire') - Len(wire)
        /\ transmitted' \o queued' = transmitted \o waiting
        /\ Total(queued') <= MaxBufferedAmount + largest
        /\ Total(wire') <= MaxBufferedAmount + largest
    <3>1. wire \in Seq(Payload) /\ inFlight \in Nat /\ transmitted \in Seq(Payload) /\ pinged \in Nat
          /\ Total(wire) <= MaxBufferedAmount + largest
      BY <1>2 DEF MessagesOK, QueueInv, Bounded
    <3>2. Flush(waiting, wire, inFlight, drainTimer)
      BY <1>7 DEF waiting
    <3> QED
      BY <2>1, <2>2, <3>1, <3>2, FlushKeeps
  <2>5. MessagesOK'
    BY <2>4, <1>2, <1>7 DEF MessagesOK
  <2>6. QTypeOK'
    <3>1. inFlight' = Len(wire')
      <4>1. Len(wire) \in Nat /\ Len(wire') \in Nat
        BY <2>4, <1>2 DEF MessagesOK
      <4> QED
        BY <4>1, <2>4, <1>2
    <3> QED
      BY <3>1, <1>2, <1>7 DEF QueueInv, QTypeOK
  <2>7. NothingOvertaken'
    BY <2>3, <2>4, <1>4, <1>7 DEF NothingOvertaken
  <2> QED
    BY <2>4, <2>5, <2>6, <2>7 DEF QueueInv, Bounded
<1>8. CASE /\ ~Holds
           /\ accepted' = accepted + 1 /\ transmitted' = Append(transmitted, message)
           /\ wire' = Append(wire, message) /\ inFlight' = inFlight + 1
           /\ UNCHANGED <<queued, pinged, drainTimer, shut, readyState>>
  <2>1. queued = <<>> /\ Total(wire) + pinged <= MaxBufferedAmount
    <3>1. BufferedAmount \in Nat
      BY <1>2, <1>5 DEF BufferedAmount, MessagesOK
    <3> QED
      BY <1>8, <3>1, QueueAssumption DEF Holds, BufferedAmount
  <2>2. MessagesOK'
    BY <1>1, <1>2, <1>8 DEF MessagesOK
  <2>3. QTypeOK'
    <3>1. inFlight' = Len(wire')
      BY <1>2, <1>8 DEF MessagesOK
    <3> QED
      BY <3>1, <1>2, <1>8 DEF QueueInv, QTypeOK
  <2>4. transmitted' \o queued' = Append(all, message)
    BY <2>1, <1>1, <1>2, <1>8 DEF MessagesOK, all
  <2>5. NothingOvertaken'
    BY <2>4, <1>4, <1>8 DEF NothingOvertaken
  <2>6. Total(wire') = Total(wire) + size
    BY <1>1, <1>2, <1>8, TotalAppend DEF MessagesOK
  <2>7. Bounded(largest)'
    BY <2>1, <2>6, <1>1, <1>2, <1>5, <1>8, QueueAssumption DEF Bounded, MessagesOK, QueueInv
  <2> QED
    BY <2>2, <2>3, <2>5, <2>7 DEF QueueInv
<1> QED
  BY <1>6, <1>7, <1>8 DEF Send, message

\* What a callback or a timer leaves behind when it flushed the queue.
LEMMA FlushStep ==
  ASSUME NEW largest \in Sizes, \A size \in Sizes : size <= largest, QueueInv(largest),
         NEW buffer \in Seq(Payload), Total(buffer) <= MaxBufferedAmount + largest,
         NEW flying \in Nat, NEW timer,
         ~shut /\ readyState = "OPEN" => flying = Len(buffer),
         timer = drainTimer \/ ~timer,
         FlushOrRelease(buffer, flying, timer),
         UNCHANGED <<pinged, shut, readyState, accepted>>
  PROVE QueueInv(largest)'
<1>1. MessagesOK /\ QTypeOK /\ NothingOvertaken /\ Bounded(largest) /\ largest \in Nat
  BY QueueAssumption DEF QueueInv
<1>2. CASE shut
  <2>1. wire' = buffer /\ drainTimer' = timer /\ UNCHANGED <<queued, inFlight, transmitted>>
    BY <1>2 DEF FlushOrRelease
  <2>2. MessagesOK'
    BY <2>1, <1>1 DEF MessagesOK
  <2>3. QTypeOK'
    BY <2>1, <1>1, <1>2 DEF QTypeOK
  <2>4. NothingOvertaken'
    BY <1>2 DEF NothingOvertaken
  <2>5. Bounded(largest)'
    BY <2>1, <1>1 DEF Bounded
  <2> QED
    BY <2>2, <2>3, <2>4, <2>5 DEF QueueInv
<1>3. CASE ~shut /\ ~(readyState = "OPEN" \/ queued = <<>>)
  <2>1. ReleaseQueue /\ wire' = buffer /\ UNCHANGED transmitted
    BY <1>3 DEF FlushOrRelease
  <2>2. MessagesOK'
    BY <2>1, <1>1 DEF MessagesOK, ReleaseQueue
  <2>3. QTypeOK'
    BY <2>1, <1>1, <1>3 DEF QTypeOK, ReleaseQueue
  <2>4. NothingOvertaken'
    BY <1>3 DEF NothingOvertaken
  <2>5. Bounded(largest)'
    BY <2>1, <1>1, TotalNothing, QueueAssumption DEF Bounded, ReleaseQueue
  <2> QED
    BY <2>2, <2>3, <2>4, <2>5 DEF QueueInv
<1>4. CASE ~shut /\ (readyState = "OPEN" \/ queued = <<>>)
  <2>1. Flush(queued, buffer, flying, timer)
    BY <1>4 DEF FlushOrRelease
  <2>2. queued \in Seq(Payload) /\ transmitted \in Seq(Payload) /\ pinged \in Nat
        /\ Total(queued) <= MaxBufferedAmount + largest
    BY <1>1 DEF MessagesOK, Bounded
  <2>3. /\ queued' \in Seq(Payload) /\ wire' \in Seq(Payload) /\ transmitted' \in Seq(Payload)
        /\ inFlight' \in Nat
        /\ inFlight' - flying = Len(wire') - Len(buffer)
        /\ transmitted' \o queued' = transmitted \o queued
        /\ Total(queued') <= MaxBufferedAmount + largest
        /\ Total(wire') <= MaxBufferedAmount + largest
    BY <2>1, <2>2, FlushKeeps
  <2>4. MessagesOK'
    BY <2>3, <1>1 DEF MessagesOK
  <2>5. readyState = "OPEN" => inFlight' = Len(wire')
    <3>1. Len(buffer) \in Nat /\ Len(wire') \in Nat
      BY <2>3
    <3> QED
      BY <3>1, <2>3, <1>4
  <2>6. QTypeOK'
    BY <2>5, <1>1, <1>4 DEF QTypeOK
  <2>7. NothingOvertaken'
    BY <2>3, <1>1, <1>4 DEF NothingOvertaken
  <2> QED
    BY <2>3, <2>4, <2>6, <2>7 DEF QueueInv, Bounded
<1> QED
  BY <1>2, <1>3, <1>4

\* No step takes the connection beyond its bounds, loses or reorders a message.
LEMMA QueueStep ==
  ASSUME NEW largest \in Sizes, \A size \in Sizes : size <= largest,
         QueueInv(largest), [QNext]_qVars
  PROVE QueueInv(largest)'
<1>1. MessagesOK /\ QTypeOK /\ NothingOvertaken /\ Bounded(largest) /\ largest \in Nat
  BY QueueAssumption DEF QueueInv
<1>2. ASSUME NEW size \in Sizes, Send(size) PROVE QueueInv(largest)'
  BY <1>2, SendStep
<1>3. ASSUME wire # <<>> PROVE /\ Tail(wire) \in Seq(Payload) /\ Len(Tail(wire)) = Len(wire) - 1
                              /\ Len(wire) > 0 /\ Len(wire) \in Nat
                              /\ Total(Tail(wire)) <= MaxBufferedAmount + largest
  <2>1. wire \in Seq(Payload)
    BY <1>1 DEF MessagesOK
  <2>2. Total(Tail(wire)) \in Nat /\ Total(Tail(wire)) <= Total(wire) /\ Total(wire) \in Nat
    BY <2>1, <1>3, TotalTail, TotalNatural
  <2>3. Total(Tail(wire)) <= MaxBufferedAmount + largest
    BY <2>2, <1>1, QueueAssumption DEF Bounded
  <2> QED
    BY <2>1, <2>3, <1>3
<1>4. CASE Written
  <2> DEFINE flying == IF inFlight = 0 THEN 0 ELSE inFlight - 1
  <2>1. wire # <<>> /\ FlushOrRelease(Tail(wire), flying, drainTimer)
        /\ UNCHANGED <<pinged, shut, readyState, accepted>>
    BY <1>4 DEF Written
  <2>2. flying \in Nat
    BY <1>1 DEF MessagesOK
  <2>3. ~shut /\ readyState = "OPEN" => flying = Len(Tail(wire))
    BY <1>1, <1>3, <2>1 DEF QTypeOK
  <2>4. drainTimer = drainTimer \/ ~drainTimer
    OBVIOUS
  <2> HIDE DEF flying
  <2>5. Tail(wire) \in Seq(Payload) /\ Total(Tail(wire)) <= MaxBufferedAmount + largest
    BY <1>3, <2>1
  <2> QED
    BY <2>1, <2>2, <2>3, <2>4, <2>5, FlushStep, Zenon
<1>5. CASE WriteFails
  <2>1. wire # <<>> /\ shut' /\ shut' \in BOOLEAN /\ ReleaseQueue /\ wire' = Tail(wire)
        /\ readyState' \in {"OPEN", "CLOSING", "CLOSED"} /\ UNCHANGED <<pinged, accepted, transmitted>>
    BY <1>1, <1>5 DEF WriteFails, AskClose, QTypeOK
  <2> QED
    BY <2>1, <1>1, <1>3, GiveUpKeeps DEF MessagesOK
<1>6. CASE DrainTimerFires
  <2>1. drainTimer /\ FlushOrRelease(wire, inFlight, FALSE)
        /\ UNCHANGED <<pinged, shut, readyState, accepted>>
    BY <1>6 DEF DrainTimerFires
  <2> QED
    BY <2>1, <1>1, FlushStep DEF MessagesOK, QTypeOK, Bounded
<1>7. CASE Ping \/ PingWritten
  <2>1. pinged' \in Nat /\ UNCHANGED <<queued, wire, inFlight, drainTimer, shut, readyState, accepted, transmitted>>
    BY <1>7 DEF Ping, PingWritten
  <2>2. MessagesOK'
    BY <2>1, <1>1 DEF MessagesOK
  <2>3. QTypeOK'
    BY <2>1, <1>1 DEF QTypeOK
  <2>4. NothingOvertaken'
    BY <2>1, <1>1 DEF NothingOvertaken
  <2>5. Bounded(largest)'
    BY <2>1, <1>1 DEF Bounded
  <2> QED
    BY <2>2, <2>3, <2>4, <2>5 DEF QueueInv
<1>8. CASE CloseConnection
  <2>1. shut' /\ shut' \in BOOLEAN /\ ReleaseQueue /\ UNCHANGED <<wire, pinged, accepted, transmitted>>
        /\ readyState' \in {"OPEN", "CLOSING", "CLOSED"}
    BY <1>1, <1>8 DEF CloseConnection, GiveUp, AskClose, QTypeOK
  <2> QED
    BY <2>1, <1>1, GiveUpKeeps DEF MessagesOK, Bounded
<1>9. CASE SocketCloses
  <2>1. readyState' = "CLOSING"
        /\ UNCHANGED <<queued, wire, pinged, inFlight, drainTimer, shut, accepted, transmitted>>
    BY <1>9 DEF SocketCloses
  <2>2. MessagesOK'
    BY <2>1, <1>1 DEF MessagesOK
  <2>3. QTypeOK'
    BY <2>1, <1>1 DEF QTypeOK
  <2>4. NothingOvertaken'
    BY <2>1 DEF NothingOvertaken
  <2>5. Bounded(largest)'
    BY <2>1, <1>1 DEF Bounded
  <2> QED
    BY <2>2, <2>3, <2>4, <2>5 DEF QueueInv
<1>10. CASE SocketClosed
  <2>1. shut' /\ shut' \in BOOLEAN /\ ReleaseQueue /\ wire' = <<>> /\ pinged' = 0 /\ readyState' = "CLOSED"
        /\ UNCHANGED <<accepted, transmitted>>
    BY <1>10 DEF SocketClosed
  <2>2. wire' \in Seq(Payload) /\ Total(wire') <= MaxBufferedAmount + largest /\ pinged' \in Nat
        /\ readyState' \in {"OPEN", "CLOSING", "CLOSED"}
    BY <2>1, <1>1, TotalNothing, QueueAssumption
  <2> QED
    BY <2>1, <2>2, GiveUpKeeps
<1>11. CASE UNCHANGED qVars
  <2>1. MessagesOK'
    BY <1>1, <1>11 DEF MessagesOK, qVars
  <2>2. QTypeOK'
    BY <1>1, <1>11 DEF QTypeOK, qVars
  <2>3. NothingOvertaken'
    BY <1>1, <1>11 DEF NothingOvertaken, qVars
  <2>4. Bounded(largest)'
    BY <1>1, <1>11 DEF Bounded, qVars
  <2> QED
    BY <2>1, <2>2, <2>3, <2>4 DEF QueueInv
<1> QED
  BY <1>2, <1>4, <1>5, <1>6, <1>7, <1>8, <1>9, <1>10, <1>11 DEF QNext

\* What send() takes goes out in order and once while the connection is open, the
\* count of messages in flight is right, and queue and buffer exceed the limit by one
\* message at most (livehost.node-application-host.ts, make_connection).  The size of
\* a message is bounded by no code of the connection: the bound is in terms of the
\* largest message the application sends.
THEOREM QueueStaysSound ==
  ASSUME NEW largest \in Sizes, \A size \in Sizes : size <= largest
  PROVE QInit /\ [][QNext]_qVars => []QueueSound
<1>1. QInit => QueueInv(largest)
  BY QueueInit
<1>2. QueueInv(largest) /\ [QNext]_qVars => QueueInv(largest)'
  BY QueueStep
<1>3. QueueInv(largest) => QueueSound
  <2> SUFFICES ASSUME QueueInv(largest) PROVE QueueSound
    OBVIOUS
  <2>1. QTypeOK /\ NothingOvertaken /\ Bounded(largest)
    BY DEF QueueInv
  <2> DEFINE chosen == CHOOSE s \in Sizes : \A t \in Sizes : t <= s
  <2>2. chosen \in Sizes /\ \A t \in Sizes : t <= chosen
    OBVIOUS
  <2> HIDE DEF chosen
  <2>3. chosen = largest
    BY <2>2, QueueAssumption
  <2>4. MemoryBounded
    BY <2>1, <2>3 DEF Bounded, MemoryBounded, chosen
  <2> QED
    BY <2>1, <2>4 DEF QueueSound
<1> QED
  BY <1>1, <1>2, <1>3, PTL
=============================================================================
