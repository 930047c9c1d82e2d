------------------------------ MODULE LocusSync ------------------------------
(***************************************************************************)
(* Path synchronisation of a projected map (locus.sync.ts) next to the     *)
(* recovery of the same client: a "sync" message carries the value a       *)
(* subscribed path has when it is sent and is written into the mirror that *)
(* recovery replays canonical commits on (locus.client.ts).                *)
(*                                                                         *)
(* The map has keys with one value each.  One client is followed: with     *)
(* recovery and a session it resumes, or a plain one that begins with      *)
(* "hello".  Recovery is that of LocusRecovery, on a transport that keeps  *)
(* order, with sends that do not call back: plan, body and caught-up of a  *)
(* request leave together, and the map is at the head of its stream.       *)
(***************************************************************************)
EXTENDS Naturals, Sequences, SequencesExt

CONSTANTS
  SyncKey,     \* keys of the map
  SyncVal,     \* their values
  NoValue,        \* no value
  RootPath,    \* the path of the whole map
  SyncPath,    \* the paths clients subscribe to: keys or RootPath
  MaxCommits,  \* model bound: canonical commits
  MaxRequests, \* model bound: messages of the client
  MaxLosses    \* model bound: transports lost

ASSUME SyncAssumption ==
  /\ NoValue \notin SyncVal /\ RootPath \notin SyncKey
  /\ SyncPath \subseteq SyncKey \cup {RootPath}
  /\ MaxCommits \in Nat /\ MaxRequests \in Nat /\ MaxLosses \in Nat

VARIABLES
  store,    \* the authoritative map
  log,      \* its canonical commits: the key, its value before and after
  paths,    \* the paths of the client's session, in order of subscription
  sending,  \* the session's send: the transport is attached to it
  channel,  \* the recovery whose commits go out as they come, 0 without one
  answers,  \* actions that were executed and whose answer is still to come
  requests, \* messages on their way to the Locus
  replies,  \* messages on their way to the client
  plain,    \* the client has neither recovery nor a session of its own
  listens,  \* isConnected
  recovery, \* its recovery lifecycle
  copy,     \* its mirror
  copyRev,  \* revision of the mirror
  cursor,   \* lastAppliedRev, or NoCursor
  why,      \* why its recovery last failed
  asking,   \* messages it has sent; the last recover() is named by its number
  asks,     \* that number
  losses,   \* transports lost
  owed      \* history variable: the keys whose present value it was not sent

hostVars == <<store, log, paths, sending, channel, answers>>
peerVars == <<plain, listens, recovery, copy, copyRev, cursor, why, asking, asks>>
syncVars == <<hostVars, requests, replies, peerVars, losses, owed>>

NoCursor == MaxCommits + 1
NoMapValue == [k \in SyncKey |-> NoValue]

\* The map after the first n commits, from the one it began with.
StateAt(first, n) ==
  [k \in SyncKey |->
     LET touching == {i \in 1..n : log[i].key = k}
     IN  IF touching = {} THEN first[k] ELSE log[Max(touching)].next]
First == [k \in SyncKey |->
  LET touching == {i \in DOMAIN log : log[i].key = k}
  IN  IF touching = {} THEN store[k] ELSE log[Min(touching)].prev]

Asked(type, path) == [type |-> type, id |-> asking + 1, path |-> path, from |-> cursor]
Reply(type, id, at, body) == [type |-> type, id |-> id, at |-> at, body |-> body]
\* send_sync: the value is read when the message is sent.
SyncOf(path) == Reply("sync", 0, path, IF path = RootPath THEN store ELSE store[path])

\* The keys a value sent for a path says everything of.
Covered(path) == IF path = RootPath THEN SyncKey ELSE {path}

SyncInit ==
  /\ store \in [SyncKey -> SyncVal] /\ log = <<>>
  /\ plain \in BOOLEAN
  /\ paths \in IF plain THEN {<<>>} ELSE {<<>>} \cup {<<p>> : p \in SyncPath}
  /\ sending = FALSE /\ channel = 0 /\ answers = 0
  /\ requests = <<>> /\ replies = <<>>
  /\ listens = FALSE /\ recovery = "disconnected"
  /\ \/ copy = store /\ cursor = 0
     \/ copy = NoMapValue /\ cursor = NoCursor
  /\ plain => cursor = NoCursor
  /\ copyRev = 0 /\ why = "none" /\ asking = 0 /\ asks = 0 /\ losses = 0
  /\ owed = SyncKey

-----------------------------------------------------------------------------
(* The Locus.                                                               *)

\* A commit: the recovery channel of the connection sends it at once.
Commit(k, v) ==
  /\ Len(log) < MaxCommits
  /\ store[k] # v
  /\ store' = [store EXCEPT ![k] = v]
  /\ log' = Append(log, [key |-> k, prev |-> store[k], next |-> v])
  /\ replies' = IF sending /\ channel # 0
                THEN Append(replies, Reply("live", channel, Len(log'), log'[Len(log')]))
                ELSE replies
  /\ owed' = owed \cup {k}
  /\ UNCHANGED <<paths, sending, channel, requests, peerVars, losses>>

\* A write of the host, or of an action that fails after it: nobody is synced.
HostWrites == \E k \in SyncKey, v \in SyncVal \cup {NoValue} : Commit(k, v) /\ UNCHANGED answers

\* An action of some client is executed; its answer waits for a promise.
ActionWrites ==
  /\ answers < 1
  /\ \E k \in SyncKey, v \in SyncVal \cup {NoValue} : Commit(k, v)
  /\ answers' = answers + 1

\* sync_all() to this session.
Syncs == [i \in DOMAIN paths |-> SyncOf(paths[i])]

\* handle_deduped_action goes on: the answer is sent, and sync_all().
ActionAnswered ==
  /\ answers > 0
  /\ answers' = answers - 1
  /\ IF sending
     THEN /\ replies' = replies \o Syncs
          /\ owed' = owed \ UNION {Covered(paths[i]) : i \in DOMAIN paths}
     ELSE UNCHANGED <<replies, owed>>
  /\ UNCHANGED <<store, log, paths, sending, channel, requests, peerVars, losses>>

\* handle_message, one operator for each message r of the client.
OnAttach(r) ==
  /\ sending' = TRUE
  /\ UNCHANGED <<paths, channel, replies, owed>>

OnHello(r) ==
  /\ sending' = TRUE
  /\ replies' = Append(replies, Reply("hello", 0, RootPath, store))
  /\ owed' = {}
  /\ UNCHANGED <<paths, channel>>

OnSubscribe(r) ==
  /\ paths' = IF Contains(paths, r.path) THEN paths ELSE Append(paths, r.path)
  /\ replies' = Append(replies, SyncOf(r.path))
  /\ owed' = owed \ Covered(r.path)
  /\ UNCHANGED <<sending, channel>>

OnUnsubscribe(r) ==
  /\ \/ ~Contains(paths, r.path) /\ UNCHANGED paths
     \/ \E i \in DOMAIN paths : paths[i] = r.path /\ paths' = RemoveAt(paths, i)
  /\ UNCHANGED <<sending, channel, replies, owed>>

\* Recovery from the cursor of the request: what it lacks, or a snapshot.
OnRecover(r) ==
  LET head == Len(log)
      body == IF r.from = NoCursor THEN <<Reply("snapshot", r.id, head, store)>>
              ELSE [i \in 1..(head - r.from) |-> Reply("body", r.id, r.from + i, log[r.from + i])]
  IN  /\ replies' = replies \o <<Reply("plan", r.id, head, "none")>> \o body
                            \o <<Reply("caught-up", r.id, head, "none")>>
      /\ channel' = r.id
      /\ UNCHANGED <<paths, sending, owed>>

HandleMessage ==
  /\ requests # <<>>
  /\ LET r == Head(requests)
     IN  \/ r.type = "attach" /\ OnAttach(r)
         \/ r.type = "hello" /\ OnHello(r)
         \/ r.type = "subscribe" /\ OnSubscribe(r)
         \/ r.type = "unsubscribe" /\ OnUnsubscribe(r)
         \/ r.type = "recover" /\ OnRecover(r)
  /\ requests' = Tail(requests)
  /\ UNCHANGED <<store, log, answers, peerVars, losses>>

-----------------------------------------------------------------------------
(* The client.                                                              *)

Ask(type, path) ==
  /\ asking < MaxRequests
  /\ requests' = Append(requests, Asked(type, path))
  /\ asking' = asking + 1

\* connect() on a new transport, and what makes it speak for a session.
ConnectPeer ==
  /\ ~listens /\ ~sending
  /\ listens' = TRUE
  /\ recovery' = "idle" /\ why' = "none"
  /\ Ask(IF plain THEN "hello" ELSE "attach", RootPath)
  /\ UNCHANGED <<hostVars, replies, plain, copy, copyRev, cursor, asks, losses, owed>>

AskRecovery ==
  /\ listens /\ ~plain /\ recovery \in {"idle", "caught-up"}
  /\ Ask("recover", RootPath)
  /\ asks' = asking + 1
  /\ recovery' = "awaiting"
  /\ UNCHANGED <<hostVars, replies, plain, listens, copy, copyRev, cursor, why, losses, owed>>

AskPath ==
  /\ listens
  /\ \E type \in {"subscribe", "unsubscribe"}, p \in SyncPath : Ask(type, p)
  /\ UNCHANGED <<hostVars, replies, plain, listens, recovery, copy, copyRev, cursor, why, asks,
                 losses, owed>>

Keep == UNCHANGED <<copy, copyRev, cursor, owed>>

\* fail_recovery: whatever it was sent before may be undone by half a replay.
FailPeer(reason) ==
  /\ recovery' = "failed" /\ why' = reason
  /\ owed' = SyncKey
  /\ UNCHANGED <<copy, copyRev, cursor>>

\* A write into the mirror that is not a replay: an equal one is no commit.
WriteCopy(next) ==
  /\ copy' = next
  /\ copyRev' = IF next = copy THEN copyRev ELSE copyRev + 1
  /\ UNCHANGED <<recovery, why, cursor, owed>>

OnSync(m) ==
  WriteCopy(IF m.at = RootPath THEN m.body ELSE [copy EXCEPT ![m.at] = m.body])

OnPlanned(m) ==
  /\ recovery' = "consuming"
  /\ Keep /\ UNCHANGED why

\* map.replay checks the value before, and that something changes.
Replayable(commit) == copy[commit.key] = commit.prev

OnCommitted(m) ==
  IF cursor # NoCursor /\ m.at <= cursor THEN Keep /\ UNCHANGED <<recovery, why>>
  ELSE IF m.at # cursor + 1 THEN FailPeer("gap")
  ELSE IF ~Replayable(m.body) THEN FailPeer("conflict")
  ELSE /\ copy' = [copy EXCEPT ![m.body.key] = m.body.next]
       /\ copyRev' = copyRev + 1 /\ cursor' = m.at
       /\ UNCHANGED <<recovery, why, owed>>

\* restore() of the snapshot: the mirror takes its revision.  That restore()
\* throws half way is left to LocusRecovery.
OnRestored(m) ==
  /\ copy' = m.body /\ copyRev' = m.at /\ cursor' = m.at
  /\ UNCHANGED <<recovery, why, owed>>

\* Mutation: the revision of the mirror is not looked at.
OnBoundaryByCursor(m) ==
  IF cursor # m.at THEN FailPeer("mismatch")
  ELSE recovery' = "caught-up" /\ Keep /\ UNCHANGED why

OnBoundary(m) ==
  IF copyRev # cursor \/ cursor # m.at THEN FailPeer("mismatch")
  ELSE recovery' = "caught-up" /\ Keep /\ UNCHANGED why

\* The recovery listener takes the messages of the present recovery only.
Takes(m) ==
  /\ m.id = asks
  /\ \/ m.type = "plan" /\ recovery = "awaiting"
     \/ m.type \in {"body", "snapshot", "caught-up"} /\ recovery = "consuming"
     \/ m.type = "live" /\ recovery = "caught-up"

TakeRecovery(m) ==
  \/ m.type = "plan" /\ OnPlanned(m)
  \/ m.type \in {"body", "live"} /\ OnCommitted(m)
  \/ m.type = "snapshot" /\ OnRestored(m)
  \/ m.type = "caught-up" /\ OnBoundary(m)

ReceiveReply ==
  /\ replies # <<>>
  /\ replies' = Tail(replies)
  /\ LET m == Head(replies)
     IN  \/ ~listens /\ Keep /\ UNCHANGED <<recovery, why>>
         \/ listens /\ m.type \in {"sync", "hello"} /\ OnSync(m)
         \/ listens /\ m.type \notin {"sync", "hello"} /\ Takes(m) /\ TakeRecovery(m)
         \/ /\ listens /\ m.type \notin {"sync", "hello"} /\ ~Takes(m)
            /\ Keep /\ UNCHANGED <<recovery, why>>
  /\ UNCHANGED <<hostVars, requests, plain, listens, asking, asks, losses>>

\* disconnect(): the client stops listening, the transport stays up.
StopListening ==
  /\ listens /\ sending
  /\ listens' = FALSE /\ recovery' = "disconnected"
  /\ owed' = SyncKey
  /\ UNCHANGED <<hostVars, requests, replies, plain, copy, copyRev, cursor, why, asking, asks,
                 losses>>

\* connect() again over the transport that stayed up.
ListenAgain ==
  /\ ~listens /\ sending
  /\ listens' = TRUE /\ recovery' = "idle" /\ why' = "none"
  /\ owed' = SyncKey
  /\ UNCHANGED <<hostVars, requests, replies, plain, copy, copyRev, cursor, asking, asks, losses>>

\* The transport is lost with what is on its way.  The session of a plain
\* client ends with it, the other keeps its paths.
LoseTransport ==
  /\ losses < MaxLosses
  /\ losses' = losses + 1
  /\ sending' = FALSE /\ channel' = 0
  /\ paths' = IF plain THEN <<>> ELSE paths
  /\ requests' = <<>> /\ replies' = <<>>
  /\ listens' = FALSE /\ recovery' = "disconnected"
  /\ owed' = SyncKey
  /\ UNCHANGED <<store, log, answers, plain, copy, copyRev, cursor, why, asking, asks>>

SyncNext ==
  \/ HostWrites \/ ActionWrites \/ ActionAnswered \/ HandleMessage
  \/ ConnectPeer \/ AskRecovery \/ AskPath \/ ReceiveReply
  \/ StopListening \/ ListenAgain \/ LoseTransport

SyncSpec == SyncInit /\ [][SyncNext]_syncVars

-----------------------------------------------------------------------------
(* A client that is told it has caught up has exactly the state of its      *)
(* cursor, whatever was synced into the same mirror before, between and     *)
(* after: either the replay notices and recovery fails, or nothing differs. *)
CaughtUpIsExact ==
  recovery = "caught-up" => copy = StateAt(First, cursor) /\ copyRev = cursor

(* A value that was synced after the last write to its path is what the     *)
(* mirror shows once everything sent has arrived: no live commit, replay or *)
(* earlier sync puts an older value back, unless a recovery fails.          *)
SyncedIsShown ==
  listens /\ replies = <<>> => \A k \in SyncKey \ owed : copy[k] = store[k]

(* docs/contracts/locus-recovery.md:421: path subscriptions "must not share *)
(* the full-map revision cursor unless they define their own [...] recovery *)
(* semantics".  They write the mirror that recovery goes on from, and no    *)
(* replay should be impossible because of it.                               *)
RecoverySurvivesSync == why \notin {"gap", "conflict", "mismatch"}

(* A mirror that is written by sync and by recovery shows what it was told. *)
SyncIsSafe == CaughtUpIsExact /\ SyncedIsShown
=============================================================================
