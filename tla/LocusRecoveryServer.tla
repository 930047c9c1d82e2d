------------------------- MODULE LocusRecoveryServer -------------------------
(***************************************************************************)
(* The server half of Locus recovery for one connection: the canonical     *)
(* stream and its bounded history (api/locus/locus.history.ts), the        *)
(* recovery planner (locus.recovery.ts) and the recovery channel of a      *)
(* connection (handle_recover in locus.core.ts).                           *)
(*                                                                         *)
(* handle_recover is one synchronous function, but each socket.send in it  *)
(* may call back into the program: an in-process client, or a transport    *)
(* that fails on send.  An action below therefore ends at a send, and      *)
(* whatever a callback may do is another action in between.                *)
(*                                                                         *)
(* A commit is named by its incarnation and its revision, which a Locus    *)
(* never gives to two commits; the state at a revision is the sequence of  *)
(* the commits up to it.                                                   *)
(***************************************************************************)
EXTENDS Naturals, Sequences

CONSTANTS MaxHistory, \* commits the canonical history retains
          MaxTail,    \* commits a recovery attempt may queue
          MaxRev,     \* model bound: commits per incarnation
          MaxInc      \* model bound: incarnations

ASSUME HistoryAssumption == MaxHistory \in Nat
ASSUME TailAssumption == MaxTail \in Nat
ASSUME BoundAssumption == MaxRev \in Nat /\ MaxInc \in Nat \ {0}

VARIABLES
  up,       \* the Locus serves: neither disposed nor terminally failed
  inc,      \* incarnation of the stream
  mapRev,   \* revision of the authoritative map
  head,     \* head revision of the canonical stream
  floor,    \* revision below the oldest retained commit
  conn,     \* recovery phase of the connection, or "closed"
  request,  \* identifier of the recovery the connection last began
  step,     \* where handle_recover is
  cut,      \* head revision the plan was made at
  outbox,   \* messages the running handler is about to send
  queued,   \* commits observed and not yet sent: the tail, then pendingLive
  toClient, \* messages on their way to the client
  toServer  \* messages on their way to the server

streamVars == <<up, inc, mapRev, head, floor>>
channelVars == <<conn, request, step, cut, outbox, queued>>

\* "idle": no handler runs and, when caught up, commits are sent as they come.
\* "body": plan and body are being sent and the planner queues the tail.
\* "tail", "drain": the planner is done and commits wait in pendingLive.
\* "aborted": the planner's tail overflowed.
Step == {"idle", "body", "tail", "drain", "aborted"}
Conn == {"closed", "awaiting", "recovering", "caught-up", "failed"}

Commits(i, n) == [k \in 1..n |-> [inc |-> i, rev |-> k]]

Message(type, id, rev, how) ==
  [type |-> type, id |-> id, inc |-> inc, rev |-> rev, how |-> how]

CommitMessages(id, revs, phase) ==
  [k \in 1..Len(revs) |-> Message("commit", id, revs[k], phase)]

Send(m) == toClient' = Append(toClient, m)

StreamInit == up = TRUE /\ inc = 1 /\ mapRev = 0 /\ head = 0 /\ floor = 0

ChannelIdle ==
  /\ step' = "idle"
  /\ cut' = 0
  /\ outbox' = << >>
  /\ queued' = << >>

ServerInit ==
  /\ StreamInit
  /\ conn = "closed"
  /\ request = 0
  /\ step = "idle"
  /\ cut = 0
  /\ outbox = << >>
  /\ queued = << >>
  /\ toClient = << >>
  /\ toServer = << >>

-----------------------------------------------------------------------------
(* The canonical stream.                                                    *)

TrimmedFloor(f, h) == IF h - f > MaxHistory THEN h - MaxHistory ELSE f

Following(from, n) == [k \in 1..n |-> from + k]

\* The commits after revision from, or none when the history lacks one.
ReplayAfter(from) ==
  IF from >= floor THEN Following(from, head - from) ELSE << >>

\* The map takes a commit; its listeners run before the history ingests it.
Install ==
  /\ up
  /\ mapRev = head
  /\ mapRev < MaxRev
  /\ mapRev' = mapRev + 1
  /\ UNCHANGED <<up, inc, head, floor, channelVars, toClient, toServer>>

\* The planner observes a commit while the body is being sent.
EnqueueTail(rev) ==
  IF rev <= cut THEN UNCHANGED <<step, queued>>
  ELSE \/ /\ Len(queued) >= MaxTail
          /\ step' = "aborted"
          /\ queued' = << >>
       \/ /\ Len(queued) < MaxTail
          /\ queued' = Append(queued, rev)
          /\ UNCHANGED step

LiveReady == step = "idle" /\ conn = "caught-up"
Unobserved == step = "aborted" \/ (step = "idle" /\ conn # "caught-up")

SendLive(rev) ==
  /\ Send(Message("commit", request, rev, "live"))
  /\ UNCHANGED <<step, queued>>

HoldLive(rev) ==
  /\ queued' = Append(queued, rev)
  /\ UNCHANGED <<step, toClient>>

\* Mutation: a commit made while pendingLive is being emptied is lost.
ObserveNotDraining(rev) ==
  \/ step = "body" /\ EnqueueTail(rev) /\ UNCHANGED toClient
  \/ step = "tail" /\ HoldLive(rev)
  \/ LiveReady /\ SendLive(rev)
  \/ (Unobserved \/ step = "drain") /\ UNCHANGED <<step, queued, toClient>>

\* What the listeners of the connection do with a new commit.
Observe(rev) ==
  \/ step = "body" /\ EnqueueTail(rev) /\ UNCHANGED toClient
  \/ step \in {"tail", "drain"} /\ HoldLive(rev)
  \/ LiveReady /\ SendLive(rev)
  \/ Unobserved /\ UNCHANGED <<step, queued, toClient>>

\* The history ingests the commit, trims itself and publishes it.
Ingest ==
  /\ up
  /\ mapRev = head + 1
  /\ head' = mapRev
  /\ floor' = TrimmedFloor(floor, head')
  /\ Observe(head')
  /\ UNCHANGED <<up, inc, mapRev, conn, request, cut, outbox, toServer>>

-----------------------------------------------------------------------------
(* Planning and the channel.  A cursor is an incarnation and a revision; a  *)
(* client without one sends incarnation 0.                                  *)

Outcome(c) ==
  CASE c.inc = inc /\ c.rev > head -> "reject"
    [] c.inc = inc /\ c.rev = head -> "current"
    [] c.inc = inc /\ c.rev < head /\ ReplayAfter(c.rev) # << >> -> "replay"
    [] OTHER -> "snapshot"

\* A snapshot is of the map as it is, the other plans are of the stream.
PlanHead(c) == IF Outcome(c) = "snapshot" THEN mapRev ELSE head

Body(c) ==
  CASE Outcome(c) = "snapshot" -> <<Message("snapshot", c.id, mapRev, "body")>>
    [] Outcome(c) = "replay" -> CommitMessages(c.id, ReplayAfter(c.rev), "body")
    [] OTHER -> << >>

\* begin_recovery refuses: one is running, has failed, or this one is done.
Refused(c) ==
  \/ conn \in {"recovering", "failed"}
  \/ conn = "caught-up" /\ request = c.id

\* Mutation: a snapshot may be ahead of the stream.
SnapshotNeverTorn(c) == FALSE

\* The snapshot would be of a revision the stream has not reached.
SnapshotTorn(c) == Outcome(c) = "snapshot" /\ mapRev # head

Refuse(c) ==
  /\ Refused(c)
  /\ Send(Message("error", c.id, 0, "refused"))
  /\ conn' = IF conn = "recovering" /\ request = c.id THEN "failed" ELSE conn
  /\ UNCHANGED <<request, step, cut, outbox, queued>>

PlanFails(c) ==
  /\ ~Refused(c)
  /\ SnapshotTorn(c)
  /\ Send(Message("error", c.id, 0, "planning"))
  /\ conn' = "failed"
  /\ request' = c.id
  /\ ChannelIdle

Reject(c) ==
  /\ ~Refused(c)
  /\ Outcome(c) = "reject"
  /\ Send(Message("plan", c.id, head, "reject"))
  /\ conn' = "failed"
  /\ request' = c.id
  /\ ChannelIdle

\* The plan is made and sent; the body will follow and the tail is observed.
Plan(c) ==
  /\ ~Refused(c)
  /\ ~SnapshotTorn(c)
  /\ Outcome(c) # "reject"
  /\ Send(Message("plan", c.id, PlanHead(c), Outcome(c)))
  /\ conn' = "recovering"
  /\ request' = c.id
  /\ step' = "body"
  /\ cut' = PlanHead(c)
  /\ outbox' = Body(c)
  /\ queued' = << >>

HandleRecover ==
  /\ up /\ conn # "closed"
  /\ toServer # << >>
  /\ LET c == Head(toServer) IN
       Refuse(c) \/ PlanFails(c) \/ Reject(c) \/ Plan(c)
  /\ toServer' = Tail(toServer)
  /\ UNCHANGED streamVars

\* The next message of the body or of the tail.
SendNext ==
  /\ conn = "recovering"
  /\ step \in {"body", "tail"}
  /\ outbox # << >>
  /\ Send(Head(outbox))
  /\ outbox' = Tail(outbox)
  /\ UNCHANGED <<streamVars, conn, request, step, cut, queued, toServer>>

ThroughRev == IF queued = << >> THEN cut ELSE queued[Len(queued)]

\* The body is sent: the planner hands over its tail and is done.
Complete ==
  /\ conn = "recovering"
  /\ step = "body"
  /\ outbox = << >>
  /\ LET rest == Append(CommitMessages(request, queued, "tail"),
                        Message("caught-up", request, ThroughRev, "end")) IN
       /\ Send(Head(rest))
       /\ outbox' = Tail(rest)
  /\ step' = "tail"
  /\ queued' = << >>
  /\ UNCHANGED <<streamVars, conn, request, cut, toServer>>

\* Mutation: only the oldest of what waits in pendingLive goes out.
DrainOnlyOne ==
  /\ step \in {"tail", "drain"}
  /\ outbox = << >>
  /\ conn' = "caught-up"
  /\ ChannelIdle
  /\ IF queued # << >>
     THEN Send(Message("commit", request, Head(queued), "live"))
     ELSE UNCHANGED toClient
  /\ UNCHANGED <<streamVars, request, toServer>>

\* Caught-up is sent: what waits in pendingLive goes out before liveReady.
Drain ==
  /\ conn = "recovering" \/ conn = "caught-up"
  /\ step \in {"tail", "drain"}
  /\ outbox = << >>
  /\ conn' = "caught-up"
  /\ IF queued # << >>
     THEN /\ Send(Message("commit", request, Head(queued), "live"))
          /\ queued' = Tail(queued)
          /\ step' = "drain"
          /\ UNCHANGED <<cut, outbox>>
     ELSE ChannelIdle /\ UNCHANGED toClient
  /\ UNCHANGED <<streamVars, request, toServer>>

\* The attempt is lost: its tail overflowed, or a send found it interrupted.
Abort ==
  /\ step = "aborted" \/ (step \in {"body", "tail"} /\ conn = "failed")
  /\ Send(Message("error", request, 0, "aborted"))
  /\ conn' = "failed"
  /\ ChannelIdle
  /\ UNCHANGED <<streamVars, request, toServer>>

ServerStep == Install \/ Ingest \/ HandleRecover \/ SendNext \/ Complete
                \/ Drain \/ Abort
=============================================================================
