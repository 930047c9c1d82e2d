--------------------------- MODULE LocusSessions ---------------------------
(***************************************************************************)
(* The connections of one Locus and the sessions they speak for:           *)
(* locus.session.ts, connect() of locus.core.ts, the subscriptions of      *)
(* locus.sync.ts and the blockers of locus.activity.ts that both hold.     *)
(*                                                                         *)
(* A session is named by the connection that created it.  A message or a   *)
(* close is one synchronous handler, hence one action, with one exception: *)
(* reattach() sends "session-fenced" on the old transport in its middle,   *)
(* and a peer in the same process may answer before send() returns.        *)
(* `fencing' is that window; in it only the old connection can act.        *)
(***************************************************************************)
EXTENDS Naturals, FiniteSets

CONSTANTS
    Conn,       \* connections, each of one transport
    NoConn,     \* none of them
    Principal

ASSUME ConnAssumption == NoConn \notin Conn

VARIABLES
    principal,   \* connectionContext.principalId of each transport
    transport,   \* "none", "open", "closed", or "inert" (connect() on a stopped Locus)
    fenced,      \* the connection was fenced or said goodbye
    bound,       \* its sessionId, or NoConn
    boundEpoch,  \* its connectionEpoch
    recordState, \* SessionRecord.state, "none" before the session exists
    resumable,   \* it has a credential
    epoch,       \* SessionRecord.epoch
    attachment,  \* SessionRecord.attachment, or NoConn
    timers,      \* the epochs whose expiry timer is armed
    synced,      \* sessions the sync manager knows
    sender,      \* the connection whose send() the sync manager uses
    subscribed,  \* sessions with a subscribed path
    retained,    \* sessions that hold a "session" activity
    held,        \* connections that hold a "connection" activity
    fencing,     \* the reattachment in whose middle we are, or NotFencing
    managerGone, \* the session manager was disposed
    failed,      \* the authority failed: every connection was shut down
    stoppedLocus \* the Locus was disposed

connVars == <<transport, fenced, bound, boundEpoch, held>>
sessVars == <<recordState, resumable, epoch, attachment, timers, synced, sender, subscribed, retained>>
lifeVars == <<managerGone, failed, stoppedLocus>>
sVars == <<principal, connVars, sessVars, fencing, lifeVars>>

Session == Conn
Live == {"attached", "disconnected"}
Gone == {"expired", "revoked"}
NotFencing == [conn |-> NoConn, sid |-> NoConn, prev |-> NoConn]

STypeOK ==
    /\ principal \in [Conn -> Principal]
    /\ transport \in [Conn -> {"none", "open", "closed", "inert"}]
    /\ fenced \in [Conn -> BOOLEAN]
    /\ bound \in [Conn -> Session \cup {NoConn}]
    /\ boundEpoch \in [Conn -> Nat]
    /\ recordState \in [Session -> {"none"} \cup Live \cup Gone]
    /\ resumable \in [Session -> BOOLEAN]
    /\ epoch \in [Session -> Nat]
    /\ attachment \in [Session -> Conn \cup {NoConn}]
    /\ timers \in [Session -> SUBSET Nat]
    /\ synced \in SUBSET Session
    /\ sender \in [Session -> Conn \cup {NoConn}]
    /\ subscribed \in SUBSET synced
    /\ retained \in SUBSET Session
    /\ held \in SUBSET Conn
    /\ fencing \in [conn : Conn \cup {NoConn}, sid : Session \cup {NoConn}, prev : Conn \cup {NoConn}]
    /\ managerGone \in BOOLEAN /\ failed \in BOOLEAN /\ stoppedLocus \in BOOLEAN

SInit ==
    /\ principal \in [Conn -> Principal]
    /\ transport = [c \in Conn |-> "none"]
    /\ fenced = [c \in Conn |-> FALSE]
    /\ bound = [c \in Conn |-> NoConn]
    /\ boundEpoch = [c \in Conn |-> 0]
    /\ recordState = [s \in Session |-> "none"]
    /\ resumable = [s \in Session |-> FALSE]
    /\ epoch = [s \in Session |-> 0]
    /\ attachment = [s \in Session |-> NoConn]
    /\ timers = [s \in Session |-> {}]
    /\ synced = {} /\ subscribed = {} /\ retained = {} /\ held = {}
    /\ sender = [s \in Session |-> NoConn]
    /\ fencing = NotFencing
    /\ managerGone = FALSE /\ failed = FALSE /\ stoppedLocus = FALSE

-----------------------------------------------------------------------------
(* sessions.is_active(sessionId, epoch) for the session of connection c. *)
IsActive(c) ==
    /\ bound[c] # NoConn
    /\ recordState[bound[c]] = "attached"
    /\ epoch[bound[c]] = boundEpoch[c]
    /\ attachment[bound[c]] # NoConn

(* authoritative(): c may speak for its session. *)
Authoritative(c) == transport[c] = "open" /\ ~fenced[c] /\ IsActive(c)

(* Nothing is in the middle of a send, or c is the one that was sent to. *)
MayAct(c) == fencing = NotFencing \/ fencing.prev = c

(* dispose_resources(record) and the release of the session's activity: the *)
(* sync manager forgets the sessions in S.                                  *)
FreeResources(S) ==
    /\ synced' = synced \ S
    /\ subscribed' = subscribed \ S
    /\ sender' = [s \in Session |-> IF s \in S THEN NoConn ELSE sender[s]]
    /\ retained' = retained \ S

-----------------------------------------------------------------------------
Connect(c) ==
    /\ fencing = NotFencing
    /\ transport[c] = "none"
    /\ IF stoppedLocus \/ failed
       THEN transport' = [transport EXCEPT ![c] = "inert"] /\ UNCHANGED held
       ELSE transport' = [transport EXCEPT ![c] = "open"] /\ held' = held \cup {c}
    /\ UNCHANGED <<principal, fenced, bound, boundEpoch, sessVars, fencing, lifeVars>>

(* sessions.create() and the registration with the sync manager: the session *)
(* of c, when the manager still takes one.                                   *)
CreateSession(c, resume) ==
    /\ ~managerGone
    /\ recordState' = [recordState EXCEPT ![c] = "attached"]
    /\ resumable' = [resumable EXCEPT ![c] = resume]
    /\ epoch' = [epoch EXCEPT ![c] = 1]
    /\ attachment' = [attachment EXCEPT ![c] = c]
    /\ synced' = synced \cup {c}
    /\ sender' = [sender EXCEPT ![c] = c]
    /\ retained' = retained \cup {c}
    /\ bound' = [bound EXCEPT ![c] = c]
    /\ boundEpoch' = [boundEpoch EXCEPT ![c] = 1]
    /\ UNCHANGED <<timers, subscribed>>

(* The message session-create, or the first other message (bind_new_session). *)
Bind(c, resume) ==
    /\ MayAct(c)
    /\ transport[c] = "open" /\ ~fenced[c] /\ bound[c] = NoConn
    /\ CreateSession(c, resume)
    /\ UNCHANGED <<principal, transport, fenced, held, fencing, lifeVars>>

(* The rest of reattach(), once the previous attachment (if any) is fenced. *)
TakeOver(c, s, others) ==
    /\ timers' = [timers EXCEPT ![s] = {}]
    /\ epoch' = [epoch EXCEPT ![s] = @ + 1]
    /\ attachment' = [attachment EXCEPT ![s] = c]
    /\ recordState' = [recordState EXCEPT ![s] = "attached"]
    /\ retained' = IF managerGone THEN retained ELSE retained \cup {s}
    /\ bound' = [bound EXCEPT ![c] = s]
    /\ boundEpoch' = [boundEpoch EXCEPT ![c] = epoch[s] + 1]
    /\ sender' = IF s \in synced THEN [sender EXCEPT ![s] = c] ELSE sender
    /\ fenced' = [d \in Conn |-> fenced[d] \/ d \in others]
    /\ UNCHANGED <<principal, resumable, synced, subscribed, transport, held, lifeVars>>

(* The checks of reattach() on the credential of session s. *)
Admits(c, s) ==
    /\ ~managerGone
    /\ resumable[s]
    /\ recordState[s] \in Live
    /\ principal[s] = principal[c]

(* The message session-attach: it takes over an unattached session at once, *)
(* and fences the transport of an attached one first.                       *)
Reattach(c, s) ==
    /\ fencing = NotFencing
    /\ transport[c] = "open" /\ ~fenced[c] /\ bound[c] = NoConn
    /\ Admits(c, s)
    /\ \/ /\ attachment[s] = NoConn
          /\ TakeOver(c, s, {})
          /\ UNCHANGED fencing
       \/ /\ attachment[s] # NoConn
          /\ fencing' = [conn |-> c, sid |-> s, prev |-> attachment[s]]
          /\ UNCHANGED <<principal, connVars, sessVars, lifeVars>>

(* send("session-fenced") returned. *)
FinishReattach ==
    /\ fencing # NotFencing
    /\ TakeOver(fencing.conn, fencing.sid, {fencing.prev})
    /\ fencing' = NotFencing

-----------------------------------------------------------------------------
(* The message session-goodbye from the connection that speaks for s. *)
Goodbye(c) ==
    /\ MayAct(c)
    /\ Authoritative(c)
    /\ LET s == bound[c]
       IN  /\ timers' = [timers EXCEPT ![s] = {}]
           /\ attachment' = [attachment EXCEPT ![s] = NoConn]
           /\ recordState' = [recordState EXCEPT ![s] = "revoked"]
           /\ FreeResources({s})
    /\ fenced' = [fenced EXCEPT ![c] = TRUE]
    /\ UNCHANGED <<principal, transport, bound, boundEpoch, held, resumable, epoch,
                   fencing, lifeVars>>

(* sessions.detach(): a resumable session starts its grace time, another one *)
(* expires in the same call.                                                 *)
DetachSession(s) ==
    /\ attachment' = [attachment EXCEPT ![s] = NoConn]
    /\ IF resumable[s]
       THEN /\ recordState' = [recordState EXCEPT ![s] = "disconnected"]
            /\ timers' = [timers EXCEPT ![s] = {epoch[s]}]
            /\ sender' = [sender EXCEPT ![s] = NoConn]
            /\ UNCHANGED <<synced, subscribed, retained>>
       ELSE /\ recordState' = [recordState EXCEPT ![s] = "expired"]
            /\ FreeResources({s})
            /\ UNCHANGED timers
    /\ UNCHANGED <<resumable, epoch>>

(* Mutation: a late close detaches whatever session the connection once had. *)
CloseAnyEpoch(c) ==
    /\ MayAct(c)
    /\ transport[c] = "open"
    /\ transport' = [transport EXCEPT ![c] = "closed"]
    /\ held' = held \ {c}
    /\ IF bound[c] # NoConn /\ recordState[bound[c]] = "attached"
       THEN DetachSession(bound[c]) ELSE UNCHANGED sessVars
    /\ UNCHANGED <<principal, fenced, bound, boundEpoch, fencing, lifeVars>>

(* detach_transport(): the socket closed, or the holder disconnected. *)
Close(c) ==
    /\ MayAct(c)
    /\ transport[c] = "open"
    /\ transport' = [transport EXCEPT ![c] = "closed"]
    /\ held' = held \ {c}
    /\ IF IsActive(c) THEN DetachSession(bound[c]) ELSE UNCHANGED sessVars
    /\ UNCHANGED <<principal, fenced, bound, boundEpoch, fencing, lifeVars>>

(* A timer armed by schedule_expiry() fires: expire(). *)
Expire(s) ==
    /\ fencing = NotFencing
    /\ \E e \in timers[s] : timers' = [timers EXCEPT ![s] = @ \ {e}]
    /\ IF recordState[s] = "disconnected"
       THEN recordState' = [recordState EXCEPT ![s] = "expired"] /\ FreeResources({s})
       ELSE UNCHANGED <<recordState, synced, subscribed, sender, retained>>
    /\ UNCHANGED <<principal, connVars, resumable, epoch, attachment, fencing, lifeVars>>

(* subscribe and unsubscribe, on the session the connection speaks for. *)
Subscribe(c) ==
    /\ MayAct(c)
    /\ Authoritative(c)
    /\ bound[c] \in synced
    /\ subscribed' = IF bound[c] \in subscribed
                     THEN subscribed \ {bound[c]} ELSE subscribed \cup {bound[c]}
    /\ UNCHANGED <<principal, connVars, recordState, resumable, epoch, attachment, timers,
                   synced, sender, retained, fencing, lifeVars>>

-----------------------------------------------------------------------------
(* sessions.dispose(), which the Locus also exposes. *)
RevokeAll ==
    /\ recordState' = [s \in Session |-> IF recordState[s] \in Live THEN "revoked" ELSE recordState[s]]
    /\ attachment' = [s \in Session |-> NoConn]
    /\ timers' = [s \in Session |-> {}]
    /\ FreeResources(Session)
    /\ UNCHANGED <<resumable, epoch>>

DisposeSessions ==
    /\ fencing = NotFencing
    /\ ~managerGone
    /\ managerGone' = TRUE
    /\ RevokeAll
    /\ UNCHANGED <<principal, connVars, fencing, failed, stoppedLocus>>

(* shutdown_for_host() on every connection: the sessions are not told. *)
ShutdownConnections ==
    /\ transport' = [c \in Conn |-> IF transport[c] = "open" THEN "closed" ELSE transport[c]]
    /\ held' = {}
    /\ UNCHANGED <<fenced, bound, boundEpoch>>

(* terminal(): the authority failed. *)
Fail ==
    /\ fencing = NotFencing
    /\ ~failed /\ ~stoppedLocus
    /\ failed' = TRUE
    /\ ShutdownConnections
    /\ UNCHANGED <<principal, sessVars, fencing, managerGone, stoppedLocus>>

(* dispose() of the Locus. *)
DisposeLocus ==
    /\ fencing = NotFencing
    /\ ~stoppedLocus
    /\ stoppedLocus' = TRUE
    /\ managerGone' = TRUE
    /\ ShutdownConnections
    /\ IF managerGone THEN UNCHANGED sessVars ELSE RevokeAll
    /\ UNCHANGED <<principal, fencing, failed>>

(* Any step of the connections and sessions. *)
SessionStep ==
    \/ \E c \in Conn :
          \/ Connect(c) \/ Goodbye(c) \/ Close(c) \/ Subscribe(c)
          \/ \E resume \in BOOLEAN : Bind(c, resume)
          \/ \E s \in Session : Reattach(c, s)
    \/ FinishReattach
    \/ \E s \in Session : Expire(s)
    \/ DisposeSessions \/ Fail \/ DisposeLocus

SSpec == SInit /\ [][SessionStep]_sVars

(* Timers fire, and a send returns.  Nobody has to close, reattach or stop. *)
SessionFairness ==
    /\ WF_sVars(FinishReattach)
    /\ \A s \in Session : WF_sVars(Expire(s))

SFairSpec == SSpec /\ SessionFairness

-----------------------------------------------------------------------------
(* One transport speaks for a session: however reattachments, late closes     *)
(* and goodbyes interleave, no two connections pass authoritative() for the   *)
(* same session, and the one that does has the session's principal.           *)
OneSpeaker ==
    \A c, d \in Conn : Authoritative(c) /\ Authoritative(d) /\ bound[c] = bound[d]
                          => c = d /\ principal[c] = principal[bound[c]]

(* Only the grace time of the present disconnection runs: an armed expiry     *)
(* timer belongs to a session that is disconnected, and to its present epoch; *)
(* so no session expires under its transport or before its time.              *)
TimerIsCurrent ==
    \A s \in Session : timers[s] # {} => recordState[s] = "disconnected" /\ timers[s] = {epoch[s]}

(* What a session holds outside its record follows its life: it keeps the     *)
(* Locus from being evicted exactly while it can still be used, and what the  *)
(* sync manager has of it sends to the connection it is attached to.          *)
ResourcesFollowSession ==
    /\ retained = {s \in Session : recordState[s] \in Live}
    /\ synced \subseteq retained
    /\ \A s \in synced : sender[s] = attachment[s]

(* Seen from outside, the sessions give connections authority as             *)
(* ConnectionAuthority says: a connection speaks for at most one session,     *)
(* alone, and authority that was fenced, ended, expired or revoked stays lost, *)
(* whatever closes, timers and reattachments come late.                       *)
StandingOf(c) ==
    CASE transport[c] = "none" -> "none"
      [] transport[c] = "open" -> IF bound[c] = NoConn THEN "open"
                                  ELSE IF Authoritative(c) THEN "speaks" ELSE "lost"
      [] OTHER -> IF /\ bound[c] # NoConn /\ recordState[bound[c]] = "disconnected"
                     /\ epoch[bound[c]] = boundEpoch[c]
                  THEN "away" ELSE "closed"
Authority == INSTANCE ConnectionAuthority WITH
    standing <- [c \in Conn |-> StandingOf(c)], subject <- bound,
    stopped <- IF failed \/ stoppedLocus THEN "all" ELSE IF managerGone THEN "sessions" ELSE "no"
GivesAuthority == Authority!AuthoritySpec

(* An expired or revoked session stays so, unless its transport said goodbye  *)
(* in the middle of being fenced: then the reattachment that was fencing it   *)
(* attaches it again, without its subscriptions.                              *)
GoneStaysGone ==
    [][\A s \in Session : recordState[s] \in Gone /\ recordState'[s] \notin Gone
                             => fencing # NotFencing /\ fencing.sid = s /\ s \notin synced']_sVars

(* Once no transport is open, the sessions stop keeping the Locus from being  *)
(* evicted, after their grace time; only a failure of the authority leaves    *)
(* sessions attached to transports it has closed.                             *)
SessionsDrain ==
    (\A c \in Conn : transport[c] \in {"closed", "inert"}) ~> (retained = {} \/ failed)

(* One transport speaks for a session, the timer that runs is the one of the *)
(* last disconnection, and what a session holds goes when it goes.           *)
SessionsSound == STypeOK /\ OneSpeaker /\ TimerIsCurrent /\ ResourcesFollowSession

(* Authority passes only to who presents the credential, a session that ended *)
(* never speaks again, and abandoned sessions end.                            *)
SessionSteps == GivesAuthority /\ GoneStaysGone /\ SessionsDrain
=============================================================================
