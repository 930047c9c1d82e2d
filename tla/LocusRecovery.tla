---------------------------- MODULE LocusRecovery ----------------------------
(***************************************************************************)
(* A Locus client's mirror (api/locus/locus.client.ts) against the server  *)
(* half of recovery, over a transport that keeps messages in order until   *)
(* it drops the connection with all that is on its way.                    *)
(*                                                                         *)
(* The transport may also lose, repeat and reorder messages to the client, *)
(* which the client's own checks must survive: it may fail, and it may not *)
(* be wrong.                                                               *)
(***************************************************************************)
EXTENDS LocusRecoveryServer, SequencesExt

CONSTANTS MaxCalls, \* model bound: calls of recover()
          MaxCuts   \* model bound: lost connections, restarts and faults

ASSUME CallsAssumption == MaxCalls \in Nat /\ MaxCuts \in Nat

VARIABLES
  life,    \* the client's recovery lifecycle
  plan,    \* outcome of the plan being consumed, "none" without one
  planRev, \* head revision of that plan
  planInc, \* incarnation of that plan
  got,     \* its snapshot has been installed
  tailing, \* its tail has begun
  cinc,    \* incarnation of the mirror, 0 before the first snapshot
  applied, \* lastAppliedRev
  mirror,  \* the commits whose effects the mirror shows, oldest first
  calls,   \* calls of recover() so far; the last one's number is its request
  failure, \* why the client last failed
  asked,   \* history variable: the stream's position at the last recover()
  cuts,    \* connections lost, restarts and faults so far
  misdelivered \* one of them was a message lost, repeated or overtaken

clientVars == <<life, plan, planRev, planInc, got, tailing, cinc, applied,
                mirror, calls, failure, asked>>
environment == <<cuts, misdelivered>>
vars == <<streamVars, channelVars, toClient, toServer, clientVars, environment>>

\* recoveryStatus follows: "recovering" while awaiting or consuming a plan,
\* "caught_up" in "caught-up", "disposed" in "disposed".
Life == {"disconnected", "idle", "awaiting-plan", "consuming", "caught-up",
         "failed", "disposed"}
Outcomes == {"current", "replay", "snapshot", "reject"}
OrderFailures == {"stream", "gap", "order", "cursor", "snapshot", "mismatch"}
Failure == OrderFailures
             \cup {"none", "observer", "conflict", "install", "disconnected",
                   "rejected", "server"}

Recovering == life \in {"awaiting-plan", "consuming"}

Init ==
  /\ ServerInit
  /\ life = "disconnected"
  /\ plan = "none" /\ planRev = 0 /\ planInc = 0
  /\ got = FALSE /\ tailing = FALSE
  /\ cinc = 0 /\ applied = 0 /\ mirror = << >>
  /\ calls = 0
  /\ failure = "none"
  /\ asked = [inc |-> 1, rev |-> 0]
  /\ cuts = 0 /\ misdelivered = FALSE

-----------------------------------------------------------------------------
(* The client's calls.                                                      *)

NoPlan ==
  /\ plan' = "none" /\ planRev' = 0 /\ planInc' = 0
  /\ got' = FALSE /\ tailing' = FALSE

Fail(why) == life' = "failed" /\ failure' = why /\ NoPlan

\* connect(): over the transport that is up, or a new one.
Connect ==
  /\ life = "disconnected"
  /\ life' = "idle"
  /\ failure' = "none"
  /\ conn' = IF up /\ conn = "closed" THEN "awaiting" ELSE conn
  /\ UNCHANGED <<plan, planRev, planInc, got, tailing, cinc, applied, mirror,
                 calls, asked, streamVars, request, step, cut, outbox, queued,
                 toClient, toServer, environment>>

CursorMessage == [id |-> calls + 1, inc |-> cinc, rev |-> applied]

\* recover(): refused while one is pending and after a failure.
Recover ==
  /\ life \in {"idle", "caught-up"}
  /\ calls < MaxCalls
  /\ calls' = calls + 1
  /\ life' = "awaiting-plan"
  /\ NoPlan
  /\ asked' = [inc |-> inc, rev |-> head]
  /\ toServer' = Append(toServer, CursorMessage)
  /\ UNCHANGED <<cinc, applied, mirror, failure, streamVars, channelVars,
                 toClient, environment>>

DisconnectClient ==
  /\ life' = IF life = "disposed" THEN life ELSE "disconnected"
  /\ failure' = IF Recovering \/ life = "caught-up" THEN "disconnected"
                ELSE failure
  /\ NoPlan
  /\ UNCHANGED <<cinc, applied, mirror, calls, asked>>

\* disconnect(): the client stops listening, the transport stays up.
Disconnect ==
  /\ life \notin {"disconnected", "disposed"}
  /\ DisconnectClient
  /\ UNCHANGED <<streamVars, channelVars, toClient, toServer, environment>>

\* recovery.dispose()
DisposeRecovery ==
  /\ life # "disposed"
  /\ life' = "disposed"
  /\ NoPlan
  /\ UNCHANGED <<cinc, applied, mirror, calls, failure, asked, streamVars,
                 channelVars, toClient, toServer, environment>>

-----------------------------------------------------------------------------
(* handle_recovery_message: one operator for each kind of message m.        *)

KeepMirror == UNCHANGED <<cinc, applied, mirror>>

\* The plan goes on, with got and tailing as given.
GoOn(g, t) ==
  /\ got' = g /\ tailing' = t
  /\ UNCHANGED <<life, failure, plan, planRev, planInc>>

\* After the mirror changed, one of its observers may throw.
Shown(g, t) == GoOn(g, t) \/ Fail("observer")

OnPlan(m) ==
  /\ IF life # "awaiting-plan" THEN Fail("order")
     ELSE IF m.how = "reject" THEN Fail("rejected")
     ELSE IF m.how # "snapshot" /\ cinc # m.inc THEN Fail("cursor")
     ELSE /\ life' = "consuming"
          /\ plan' = m.how /\ planRev' = m.rev /\ planInc' = m.inc
          /\ got' = FALSE /\ tailing' = FALSE
          /\ failure' = failure
  /\ KeepMirror

\* apply_commit: t says whether the tail has begun with this commit.  The
\* mirror may refuse the replay, by its own schema for one.
Apply(m, t) ==
  IF m.inc # cinc THEN Fail("stream") /\ KeepMirror
  ELSE IF m.rev <= applied THEN GoOn(got, t) /\ KeepMirror
  ELSE IF m.rev # applied + 1 THEN Fail("gap") /\ KeepMirror
  ELSE \/ Fail("conflict") /\ KeepMirror
       \/ /\ mirror' = Append(mirror, [inc |-> m.inc, rev |-> m.rev])
          /\ applied' = m.rev
          /\ cinc' = cinc
          /\ Shown(got, t)

\* Which commits the lifecycle admits.
CommitInOrder(m) ==
  CASE life = "caught-up" -> m.how = "live"
    [] life = "consuming" /\ m.how = "body" -> plan = "replay" /\ ~tailing
    [] life = "consuming" /\ m.how = "tail" -> plan = "snapshot" => got
    [] OTHER -> FALSE

OnCommit(m) ==
  IF CommitInOrder(m) THEN Apply(m, tailing \/ m.how = "tail")
  ELSE Fail("order") /\ KeepMirror

\* map.restore throws: before it changed the mirror, or for an observer or a
\* schema of the mirror when the document is already in place.  The cursor
\* stays where it was.
InstallFails(m) ==
  /\ mirror' \in {mirror, Commits(m.inc, m.rev)}
  /\ UNCHANGED <<cinc, applied>>
  /\ Fail("install")

\* Mutation: a snapshot that is not newer leaves the mirror as it is.
OnSnapshotIfNewer(m) ==
  IF life # "consuming" \/ plan # "snapshot" \/ got \/ tailing
    THEN Fail("order") /\ KeepMirror
  ELSE IF m.inc # planInc \/ m.rev # planRev THEN Fail("snapshot") /\ KeepMirror
  ELSE \/ InstallFails(m)
       \/ /\ mirror' = IF m.rev > applied THEN Commits(m.inc, m.rev) ELSE mirror
          /\ applied' = m.rev
          /\ cinc' = m.inc
          /\ Shown(TRUE, tailing)

\* install_snapshot replaces the mirror, and then moves the cursor.
OnSnapshot(m) ==
  IF life # "consuming" \/ plan # "snapshot" \/ got \/ tailing
    THEN Fail("order") /\ KeepMirror
  ELSE IF m.inc # planInc \/ m.rev # planRev THEN Fail("snapshot") /\ KeepMirror
  ELSE \/ InstallFails(m)
       \/ /\ mirror' = Commits(m.inc, m.rev)
          /\ applied' = m.rev
          /\ cinc' = m.inc
          /\ Shown(TRUE, tailing)

\* The boundary the server declares is the cursor the mirror has.
AtBoundary(m) ==
  /\ m.inc = planInc
  /\ m.rev >= planRev
  /\ cinc = m.inc
  /\ Len(mirror) = applied
  /\ applied = m.rev

OnCaughtUp(m) ==
  /\ IF life # "consuming" \/ (plan = "snapshot" /\ ~got) THEN Fail("order")
     ELSE IF ~AtBoundary(m) THEN Fail("mismatch")
     ELSE life' = "caught-up" /\ failure' = failure /\ NoPlan
  /\ KeepMirror

\* Messages of another request, and all of them when no recovery is under
\* way or done, are ignored.
Ignored(m) ==
  \/ life \notin {"awaiting-plan", "consuming", "caught-up"}
  \/ m.id # calls

Receive ==
  /\ toClient # << >>
  /\ LET m == Head(toClient) IN
       IF Ignored(m)
       THEN KeepMirror /\ GoOn(got, tailing)
       ELSE CASE m.type = "plan" -> OnPlan(m)
              [] m.type = "commit" -> OnCommit(m)
              [] m.type = "snapshot" -> OnSnapshot(m)
              [] m.type = "caught-up" -> OnCaughtUp(m)
              [] m.type = "error" -> Fail("server") /\ KeepMirror
  /\ toClient' = Tail(toClient)
  /\ UNCHANGED <<calls, asked, streamVars, channelVars, toServer, environment>>

-----------------------------------------------------------------------------
(* The transport and the server process.                                    *)

CloseChannel ==
  /\ conn' = "closed"
  /\ request' = 0
  /\ ChannelIdle

LoseConnection ==
  /\ CloseChannel
  /\ toClient' = << >>
  /\ toServer' = << >>
  /\ DisconnectClient

\* The connection is lost with what is on its way; both ends are told.
Drop ==
  /\ conn # "closed"
  /\ cuts < MaxCuts
  /\ cuts' = cuts + 1 /\ UNCHANGED misdelivered
  /\ LoseConnection
  /\ UNCHANGED streamVars

\* The process starts again without its state: a new incarnation.
RestartFresh ==
  /\ inc < MaxInc
  /\ inc' = inc + 1
  /\ up' = TRUE /\ mapRev' = 0 /\ head' = 0 /\ floor' = 0
  /\ LoseConnection
  /\ UNCHANGED environment

\* The process starts again from a durable checkpoint and the commits after
\* it: the incarnation goes on, its history begins at the checkpoint, which
\* is none older than the one before.  A checkpoint below the floor leaves the
\* same history as one at the floor.
RestartRestored ==
  /\ cuts < MaxCuts
  /\ cuts' = cuts + 1 /\ UNCHANGED misdelivered
  /\ up' = TRUE
  /\ head' = mapRev
  /\ \E checkpoint \in floor..mapRev : floor' = TrimmedFloor(checkpoint, mapRev)
  /\ LoseConnection
  /\ UNCHANGED <<inc, mapRev>>

\* Disposal or terminal failure: the server stops listening, and a client on
\* a transport that stays up is not told.
Halt ==
  /\ up
  /\ up' = FALSE
  /\ CloseChannel
  /\ UNCHANGED <<inc, mapRev, head, floor, clientVars, toClient, toServer, environment>>

\* One message to the client is lost, repeated, or overtaken by the next.
Misdeliver ==
  /\ cuts < MaxCuts
  /\ cuts' = cuts + 1 /\ misdelivered' = TRUE
  /\ \E k \in 1..Len(toClient) :
       \/ toClient' = RemoveAt(toClient, k)
       \/ toClient' = InsertAt(toClient, k, toClient[k])
       \/ /\ k < Len(toClient)
          /\ toClient' = [toClient EXCEPT ![k] = toClient[k + 1],
                                          ![k + 1] = toClient[k]]
  /\ UNCHANGED <<streamVars, channelVars, toServer, clientVars>>

Serve == ServerStep /\ UNCHANGED <<clientVars, environment>>

Next ==
  \/ Serve
  \/ Connect \/ Recover \/ Disconnect \/ DisposeRecovery
  \/ Receive
  \/ Drop \/ RestartFresh \/ RestartRestored \/ Halt \/ Misdeliver

Spec == Init /\ [][Next]_vars

\* Code that has begun runs on and messages arrive; nobody has to call
\* recover(), change the map or lose a connection.
HandlerGoesOn ==
  Ingest \/ HandleRecover \/ SendNext \/ Complete \/ Drain \/ Abort

Fairness ==
  /\ WF_vars(HandlerGoesOn /\ UNCHANGED <<clientVars, environment>>)
  /\ WF_vars(Receive)

FairSpec == Spec /\ Fairness

-----------------------------------------------------------------------------
(* Properties.                                                              *)

MessageSet ==
  [type : {"plan", "commit", "snapshot", "caught-up", "error"},
   id : 0..MaxCalls, inc : 1..MaxInc, rev : 0..MaxRev,
   how : Outcomes \cup {"body", "tail", "live", "end", "refused", "planning",
                        "aborted"}]

(* The variables keep to their types.                                       *)
TypeOK ==
  /\ up \in BOOLEAN
  /\ inc \in 1..MaxInc
  /\ mapRev \in 0..MaxRev /\ head \in 0..MaxRev /\ floor \in 0..MaxRev
  /\ conn \in Conn /\ request \in 0..MaxCalls /\ step \in Step
  /\ cut \in 0..MaxRev
  /\ outbox \in Seq(MessageSet) /\ toClient \in Seq(MessageSet)
  /\ toServer \in Seq([id : 1..MaxCalls, inc : 0..MaxInc, rev : 0..MaxRev])
  /\ queued \in Seq(1..MaxRev)
  /\ life \in Life /\ plan \in Outcomes \cup {"none"}
  /\ planRev \in 0..MaxRev /\ planInc \in 0..MaxInc
  /\ got \in BOOLEAN /\ tailing \in BOOLEAN
  /\ cinc \in 0..MaxInc /\ applied \in 0..MaxRev
  /\ mirror \in Seq([inc : 1..MaxInc, rev : 1..MaxRev])
  /\ calls \in 0..MaxCalls /\ failure \in Failure
  /\ asked \in [inc : 1..MaxInc, rev : 0..MaxRev]
  /\ cuts \in 0..MaxCuts /\ misdelivered \in BOOLEAN

AtCursor == mirror = Commits(cinc, applied)

\* The planner can answer the client's cursor with a snapshot only.
CursorOutrun == cinc # inc \/ applied < floor

\* A state the authority has had, in this incarnation or an earlier one.
ShowsAuthority ==
  \E i \in 1..inc : mirror = Commits(i, Len(mirror)) /\ (i = inc => Len(mirror) <= head)

(* Whatever the transport does, the cursor is never ahead of the authority  *)
(* and the mirror shows the state the authority had there.  The exception   *)
(* is a snapshot whose install threw when the mirror was replaced and the   *)
(* cursor not yet moved (install_snapshot's catch): the mirror then shows a *)
(* state of the authority all the same, the cursor is one the planner can   *)
(* answer with another snapshot only, and until that is in, no commit is    *)
(* replayed on the mirror and nobody is told that it caught up.             *)
MirrorIsAuthoritative ==
  /\ cinc = inc => applied <= head
  /\ \/ AtCursor
     \/ /\ ShowsAuthority /\ CursorOutrun
        /\ life # "caught-up"
        /\ life = "consuming" => plan = "snapshot" /\ ~got

(* A cursor the server is asked to recover from is never ahead of it: the   *)
(* planner's REVISION_AHEAD_OF_AUTHORITY is never needed by such a client.  *)
NeverRejected == failure # "rejected"

(* Once the client is told it has caught up, the commits on their way to it *)
(* and those waiting in pendingLive are exactly the ones it lacks, in order *)
(* and once each: the subscription taken in handle_recover after the tail   *)
(* leaves neither a hole nor an overlap.  Only messages of other requests,  *)
(* which the client ignores, may be ahead of them.                          *)
NothingMissed ==
  life = "caught-up" /\ conn = "caught-up" /\ request = calls /\ cinc = inc /\ ~misdelivered =>
    \E n \in 0..Len(toClient) :
      LET others == Len(toClient) - n IN
      /\ \A k \in 1..others : toClient[k].id # calls
      /\ \A k \in 1..n :
           toClient[others + k] = Message("commit", calls, applied + k, "live")
      /\ queued = [k \in 1..(head - applied - n) |-> applied + n + k]

(* On a transport that keeps order, none of the client's ordering checks    *)
(* ever fires: plan, body, tail, boundary and live commits come as          *)
(* handle_recovery_message demands, across every interleaving of commits    *)
(* with the sends of handle_recover.                                        *)
OrderNeverBroken == ~misdelivered => failure \notin OrderFailures

(* The mirror follows the authoritative log as MirroredLog promises: it     *)
(* only becomes a state the log has now, never goes back, and "caught up"   *)
(* covers all the log had at the call of recover().                         *)
Log == Commits(inc, head)
Mirrored == INSTANCE MirroredLog WITH
  log <- Log, copy <- mirror, asked <- Commits(asked.inc, asked.rev),
  synced <- (life = "caught-up")
FollowsAuthority == Mirrored!MirrorSpec

(* The promise of recover() settles while the server serves.                *)
RecoverSettles == Recovering ~> (~Recovering \/ ~up \/ misdelivered)

(* A client that stays caught up with a server that stays up comes to hold  *)
(* every commit.                                                            *)
CaughtUpConverges ==
  []<>(life # "caught-up" \/ ~up \/ misdelivered \/ (cinc = inc /\ applied = head))

(* What the client receives is a gapless run of the history in order, so    *)
(* its own checks of continuity never reject a message of the server.       *)
ChannelInOrder == TypeOK /\ NothingMissed /\ OrderNeverBroken /\ NeverRejected

(* recover() answers, and a client left alone with its server catches up.   *)
RecoveryConverges == RecoverSettles /\ CaughtUpConverges
=============================================================================
