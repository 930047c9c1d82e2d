# hson-live: a verification development

`hson-live` represents data and documents as one graph of nodes and builds four
systems on it: transformations between notations (HSON, JSON, markup), LiveMap
(local state), LiveTree (the browser) and Locus (authoritative hosting), with
LiveHost around Locus. This project models the state each of them keeps and what
can happen to it, checks the models on small instances with TLC, and proves the
most important properties of the concurrent services for every instance with
TLAPS.

JavaScript runs one callback at a time. What interleaves is stretches of code
separated by an `await`, a timer, a message or a call into foreign code: a
listener, a hook, a `send`. An action of these modules is one such stretch, with
everything it calls. Where code calls a listener in the middle of a function, the
function is several actions and the listener may do whatever its caller may.

## 1. Inventory

Paths are relative to `src/src/api/`.

| Component | State it keeps | Operations | Talks to |
|---|---|---|---|
| Authority `locus/locus.authority.ts`, `livemap/livemap.authority.ts` | FIFO of tasks, the running one, `open/closing/failed/closed`, ownership of the map | `mutate`, `runExclusive`, the scheduler of links, `dispose`; gate, acceptance, ingestion, drain | map (stage, accept, release), history (`accepted`), Locus (`terminal`) |
| Persistence `locus/locus.persistence.ts` | identity of the stream; the adapter keeps a checkpoint and the commits after it | durable gate, `checkpoint`, create, restore, unload | authority (as its gate and its barriers), adapter |
| Canonical stream `locus/locus.history.ts` | head revision, bounded history, publication queue | ingest, trim, replay after a revision, publish | authority, recovery, connections |
| Recovery planner `locus/locus.recovery.ts`, channel in `locus/locus.core.ts` | attempt: cut, body, tail; connection: phase, request, `pendingLive` | plan (current, replay, snapshot, reject), complete, abort; send, switch to live commits | stream, map, socket |
| Client `locus/locus.client.ts` | mirror, cursor, recovery lifecycle, pending actions, session | connect, disconnect, recover, subscribe, action, one handler for each message | socket |
| Sessions `locus/locus.session.ts`, activity `locus/locus.activity.ts` | sessions, credentials, epochs, expiry timers, blockers of eviction | create, reattach (with fencing), detach, goodbye, expire, dispose | connections, synchronisation |
| Actions `locus/locus.actions.ts`, `locus.core.ts` | pending and terminal outcomes, tombstones | execute, join, cached answer, expire, status | authority, sessions |
| Path synchronisation `locus/locus.sync.ts` | the paths of each session, and its `send` | subscribe, unsubscribe, `sync_all` after an action | sessions, map, client |
| Codec and bootstrap `locus/locus.protocol.ts`, `locus.document-snapshot.ts`, `locus.bootstrap.ts` | none | encode and decode commits, graphs, snapshots, artifacts | recovery, persistence |
| Bounded registry `livehost/services/livehost.authority-registry.ts` | entries by key (loading, ready, disposing), leases, admission queue, sweep, disposal | `acquire`, release, `evict`, `sweep`, `dispose` | application's `create` and `dispose`, activity of a Locus |
| Persistent store `livehost/services/livehost.persistent-store.ts` | resident hosts, operations in flight | `create`, `load`, `connect`, `unload` | persistence, adapter |
| Node host `livehost/node/livehost.node-application-host.ts` | applications, counted connections, queues, heartbeat, shutdown | start, admit, upgrade, send, ping, stop | `ws`, Node's server |
| LiveMap core, feeds, watches, links `livemap/` | value, identity overlay, ledger of QUIDs, revision, schema, one staged transition, publication queue, subscriptions | set, delete, replace, batch, stage, accept, restore, apply, replay | listeners, links, authority |
| LiveMap documents `livemap/livemap.document*.ts` | root, overlay, ledger, revision | nine graph operations, logical locations, install, restore, replay | Reflect, authority |
| LiveTree `livetree/` | ownership, QUID registries, disposables, host roots; DOM; stylesheets | create, append, insert, detach, remove, dispose, mount; rules and keyframes | DOM |
| Reflect `reflect/` | correspondence of a document and a tree; keyed branches of an array | observe, delegate, mount, dispose; render, update, replace the source | LiveMap, LiveTree |
| Transform `transform/`, `core/`, `diagnostics/` | none; the circuit's lap | tokenise, parse, normalise, serialise, compare | everybody |
| LiveInspect, handles and proxies, bridge, tracing, events, motion | views | | |

What is hard, and what makes each component correct:

- **Authority.** A mutation is prepared, waits for a gate and is accepted later;
  listeners run between the map and the history; any of it fails, or the Locus is
  disposed meanwhile. Tasks are served in call order, a rejected one leaves no
  trace, an acknowledged one is in the history, clients are only served from a
  history that is current, every call settles, and the map is given back.
- **Persistence.** Crashes between the steps, an adapter that reports a stored
  commit as failed, checkpoints next to commits. Nothing visible is undurable, and
  nothing acknowledged is lost.
- **Recovery.** Commits between any two messages of a recovery, histories and
  tails that overflow, restarts, misdelivery. The mirror is always a state the
  authority had, no commit is missed or doubled, and a recovery settles.
- **Sessions, actions, paths.** Timers that race reattachment, late detaches, a
  goodbye in the middle of being fenced; duplicates and retries against bounded
  memory; values written beside a replay. One transport speaks for a session, a
  request runs at most once, a mirror that is told it caught up did.
- **Registry, store, host.** Admissions that wait for evictions that wait for
  disposals; loads and unloads that overlap; upgrades that pass their policies
  together; a stop that races everything. Bounds are kept, each thing is disposed
  once, nothing is left, everything settles.
- **LiveMap.** Listeners that write, stage, restore and throw while a commit is
  shown; identity kept by path arithmetic; a staged value that outlives its base.
  Value, overlay, ledger and schema agree, and whoever follows the map ends with
  what it holds.
- **Documents and projections.** The same by path arithmetic over graphs with
  carriers that come and go; a tree, a registry and a DOM that have to say the same
  after an operation that fails half way; user hooks in the middle of an update.
- **Notations.** What is written in one notation is read from it again, and the
  three agree on one graph.

`PROJECT.json` lists every component with its status, and under "hazards" the
places in the code where these behaviours bite.

## 2. Modules

| Module | Models | Built on |
|---|---|---|
| `LocusAuthority` | the exclusive authority | |
| `LocusPersistence`, `DurableLog` | the persistent Locus and its adapter; what it promises | `LocusAuthority`; the second is implemented by the first |
| `LocusRecoveryServer`, `LocusRecovery`, `MirroredLog` | stream, planner and channel; client, transport and restarts; what recovery promises | each EXTENDS the one before; the last is implemented |
| `LocusSessions`, `ConnectionAuthority` | connections and sessions; what they promise | the last is implemented by `LocusSessions` |
| `LocusActions` | actions and their outcomes | EXTENDS `ConnectionAuthority` |
| `LocusSync` | path synchronisation beside recovery | |
| `LocusWire` | commits, snapshots, artifacts, checkpoints of a document | EXTENDS `DocumentGraph`, INSTANCE `HsonText` |
| `LocusRegistry` | the bounded registry | |
| `LocusStore` | the persistent store for one logical map | |
| `LiveHostNode`, `NodeConnection` | the application host; the sending half of one connection | |
| `LiveMapCore` | one projected map and all that hangs on it | |
| `ProjectedValue`, `LiveMapSchema`, `ProjectedEditor` | values, plans, transport and in-place editing; schemas; a map edited through its calls | each EXTENDS the one before |
| `HsonGraph`, `DocumentGraph`, `LiveTreeGraph` | nodes and canonical form; paths, overlay and graph operations; ownership, registries and DOM | each EXTENDS the one before |
| `LiveMapDocument`, `ReflectDocument` | a document; its binding to a tree | EXTENDS `LiveTreeGraph`; EXTENDS `LiveMapDocument` |
| `LiveTree` | standalone trees | EXTENDS `LiveTreeGraph` |
| `ReflectCollection` | the keyed branches of an array | |
| `StyleSheet` | the stylesheet of one runtime | |
| `HsonText`, `JsonText`, `HtmlText`, `TransformCircuit` | the notations, and a source sent round them | the last EXTENDS the others |
| `LocusPersistenceProofs`, `LocusRecoveryProofs`, `LocusRegistryProofs`, `LocusActionsProofs`, `LocusSessionsProofs`, `LocusSyncProofs`, `LiveHostProofs`, `LiveMapProofs` | theorems | the module they are named after; the first also `LocusAuthority`, `LocusSyncProofs` also `MCLocus`, `LiveHostProofs` `LiveHostNode`, `LocusStore` and `NodeConnection`, `LiveMapProofs` `LiveMapCore`, `StyleSheet` and `ReflectCollection` |
| `MC...` | the instances TLC checks | |

Where a component has several properties of one concern, they are named parts of
one conjunction (`ActionsOnce == ATypeOK /\ AtMostOnce /\ ...`): a run checks the
conjunction, and TLC names the part that fails. Operators marked "Mutation" or
"Mutant" are plausible mistakes in the definition that follows them; no
specification uses them. `PROJECT.json` names the property each one breaks.

### Authority, persistence, recovery

`state`, `queue`, `active` are the variables of `make_locus_exclusive_authority`.
A commit is named by the call that made it, so `mapLog` is at once the content of
the map and, by its length, the map's revision; `headRev` is the head of the
stream. `phase` says where the running task is: `gate` (the prepared transition
awaits its gate), `notify` (the map has the commit and its listeners run, which may
call `Submit` and `Dispose`), `settled` (the promise is settled, `running.finally`
has yet to run). `DirectWrite` is a mutation by someone else once the map is
released. `Accept` and `Ingest` may fail for no reason the model sees.

In `LocusPersistence` the gate is an append and the barriers are checkpoints. The
disk is one log with a mark up to which it is in the checkpoint. The adapter is
external: the type's contract and the storage of the acceptance tests make it
append only what continues the log, accept an exact repeat, and replace a
checkpoint atomically. It may fail, and may fail after having stored, which the
code cannot tell apart. `Crash` can happen anywhere. `Edit` gives the content of a
commit: the calls of `Alike` make the same edit, so that a retry repeats a stored
commit.
`DurableLog` has one growing log and a visible prefix that never goes back.

`handle_recover` is one synchronous function that sends many messages; a `send` may call
back into the program, so each action of `LocusRecoveryServer` ends at a send, and a
commit may come between any two. `step` is the position in the function, `cut` the
revision of the plan, `queued` the tail or `pendingLive`. The byte limits of the code
act like its counts and are left out. The client has one operator for each message, with
the checks of `handle_recovery_message` in their order. `mirror` is the sequence of
commits whose effects it shows, kept apart from the cursor, because that they agree is
what is to be shown. `Misdeliver` loses, repeats or reorders messages and is remembered
in `misdelivered`: the safety of the mirror is claimed regardless, order and liveness
without it. The mirror may refuse a commit ("conflict") or throw once it has it
("observer"); `InstallFails` is a `map.restore` that throws before the document is
replaced or after it, by a watch or an observer of the mirror, while the cursor stays
where it was. `MirrorIsAuthoritative` says what is left then: another state the
authority has had, a cursor that only a snapshot can answer, and no commit, boundary or
"caught up" until one is installed. `MirroredLog` has a log, a copy that only becomes a
prefix of it, and the promise that a client told it is up to date has all the log had
when it asked.

### Sessions, actions, path synchronisation

A session is named by the connection that created it. Every message and every
close is one synchronous handler, except that a reattachment sends "session-fenced"
on the old transport in its middle; `fencing` is that window, in which the old
connection may say goodbye, close or be answered. `ConnectionAuthority` reduces all
of it to what actions rely on: `standing` ("open", "speaks", "lost", "away",
"closed") and `subject`.

`LocusActions` follows two attempts through `handle_deduped_action`: validation, which
may throw and then ends the handler (`thrown`), and authorization behind an await, then
a new execution, a join, a cached answer, or a refusal as a conflict, as expired or as
unknown. A handler settles at any time; the outcome is trimmed to a tombstone and the
tombstone is dropped when there are too many. An execution is named by its number, so an
outcome says which one it is of.

`LocusSync` follows one client over one loss of its transport. The map has keys with one
value each. A sync message carries the value a path has when it is sent; the client
writes it into the mirror on which recovery replays commits, which moves the mirror's
revision and not the recovery cursor. Recovery itself is that of `LocusRecovery` with a
transport that keeps order and sends that do not call back; the failures of a mirror's
own watches and observers are left to `LocusRecovery`. `owed` is a history variable: the
keys written since they were last synced.

### Registry, store, host

Entries, creations and authorities of the registry are named by the `acquire()`
call that reserved them. The pending entry and the ready entry are two objects in
the code, hence `waits` and `leases`. `pc` follows a call through `acquire`;
`closes` counts the disposals of an authority that run or succeeded. Idle times,
generations and the order of candidates are abstracted: any idle entry may be swept
or evicted first.

The store has one logical map, since ids do not interact. Between the settlement of
a promise and the continuation of the call that made it there is a step, in which
other calls see the marker.

`LiveHostNode` has one action for each continuation of a request or an upgrade, a
heartbeat, and the shutdown with its timer. `NodeConnection` is the queue in front
of one WebSocket; the buffer of `ws`, its callbacks and its close timer are
external.

### LiveMap

`LiveMapCore` is one map with two keys, the identity of one container, and one of
everything that can follow it: watches, a link, a raw feed, a store subscription, a
commit observer with a replica, a staged transition, a capture. `stage.call` says
that a listener is on the call stack; it may write, stage, accept, restore, attach a
schema, acquire an identity or throw. A call is prepared (`PrepareBatch` plans its
writes, `PrepareDetached` the writes of a staged draft) and installed, and `Replayed`
is what a replica makes of the commit; a publication shows the
root it was made on (`frozen` once a restore has installed another), that of an
accepted draft whatever root the map has (`follows`). `ProjectedValue` has the deep values: plans,
the transport, the path transformation of identities and the editing of the node
graph in place. `ProjectedEditor` runs the public calls and batches over them, with
a replica that decodes and replays.

A document (`LiveMapDocument`) is its root, the overlay of QUIDs by path, the ledger
and the queue of publications; `DocumentGraph` plans each operation on a candidate
root as the code does, carriers included.

### Trees and notations

A world of `LiveTreeGraph` has nodes and elements named by numbers, with the ownership,
registries and disposables the code keeps in weak maps. One call of `LiveTree` is one
step. `ReflectDocument` is an observer of a document and the delegate of its tree; at a
new epoch it empties the mount, disposes of its nodes and resets the ledger of the
runtime, which is refused while a QUID of the epoch still names a node or is reserved
(`EpochResettable`), and the binding then fails. An update of `ReflectCollection` is a
frame that stops at every hook. A text of `StyleSheet` is the data it renders; a
microtask and an animation frame are actions.

`LocusWire` takes a document through the codec: the canonical operations of a commit,
snapshots, bootstrap artifacts and persisted records are encoded to the values JSON
has and decoded with the checks of the decoder in their order, and the mirror replays
what came out. A snapshot holds its graph as HSON or as a view state. The document
actions are there too: the client encodes the content, the server resolves a name and
its fields to one call of the document or answers that they are invalid. A QUID that
was retired before a checkpoint may be given again by an authority restored from it;
a live mirror that saw it retire refuses that commit (`reused` in the properties).
Left out are the limits of the codec that lie beyond what the reader takes (256
levels, 100,000 nodes, 4 MB), the limits of an artifact, its selector and endpoint,
style records and data maps, and the answer that a projected map has no document
actions.

A source of `HsonText` is a sequence of lexemes, and the scanner, the assembler and
the serializer work on them; what happens within a lexeme is left out. A JSON
document is its ordered value, a markup document the nodes its text denotes.
`TransformCircuit` edits a source a lexeme at a time and sends its graph round the
notations in both directions. These modules recurse on trees and serve TLC only.

## 3. Runs

| Run | Instance | States | Shows |
|---|---|---|---|
| `authority` (`MCLocus`) | 3 calls with and without gate; 3 connections of 2 principals; a client, 2 keys, 2 commits, 3 messages, 1 lost transport | 278,578 | calls are answered truly and in order, the served history is current, nothing prepared is stale, a failure freezes history, every call settles; one speaker for each session, expiry belongs to the last disconnection, lost authority stays lost; a caught-up mirror is exact and a synced value is shown |
| `persistence` | 3 calls, 2 of them the same edit, 2 reloads | 228,965 | write-ahead, checkpoints cover what was accepted, acknowledged survives, rejected is durable only when the adapter misreported, implements `DurableLog` |
| `recovery` | history 1, tail 1, 2 commits, 2 incarnations, 2 recoveries, 1 fault or lost connection | 1,008,989 | the mirror is authoritative, after a failed install too; nothing missed or out of order, never rejected; implements `MirroredLog`; recoveries settle and converge |
| `registry` | 3 calls, 2 keys, 1 place | 290,938 | bounded, disposed once, no leaked lease, nothing left behind, acquisitions and disposal settle |
| `actions` | 2 attempts in 4 scenarios, 2 connections, 1 record, 0 or 1 tombstone | 876,104 | a request runs at most once while it is remembered, everybody is told one outcome, refusals are true, answers follow authority, promises settle unless the validation of the attempt threw |
| `livemap` | 2 keys, 2 values, 1 QUID, 4 calls | 3,309,184 | value, overlay, ledger and schema agree; watches, links, feeds and replicas converge; staging loses nothing |
| `algorithms` | batches and calls on deep values; sources edited twice, 2 laps | 398,966 | editor, plan, replica and schema agree; a portable source goes all the way round |
| `trees` | see below | 461,652 | graph, registry and DOM agree; overlay exact; a binding, a collection, a stylesheet and a mirror show their source; nothing is taken away |
| `apphost` | 2 applications, 1 HTTP and 2 WebSocket sockets; a queue of 5 sends; 4 calls on a store | 121,957 | limits are kept, messages go out in order and once, one authority, no conflict, everything stops and drains |
| `reflect_dom` (violation) | the documents of `trees` | | section 5 |
| `wire_depth` (violation) | the wire of `trees` | | section 5 |
| `sync_recovery` (violation) | the client of `authority` | | section 5 |

`MCLocus`, `MCTrees`, `MCAlgorithms` and `MCLiveHostNode` check several systems that
do not interact in one run: a behaviour belongs to one of them, and the others stay
as they begin. Their states add up and do not multiply.

Why the bounds are enough to be interesting:

- Three calls give the authority one running, one waiting and one that re-enters or
  comes too late. In `persistence` they make a commit, its failed retry and one
  after it; two reloads let a restored state be extended, stored and restored again.
- Three connections are a session's speaker, the one that takes it over and the one
  that comes too late for either; two principals make a wrong credential. For
  actions two are enough: the one an attempt was sent on and the one it is repeated
  on. The scenarios are a retry, a repetition without memory, the id reused for
  other content, and another request that pushes the first out of memory.
- A path with two values that changes twice can come back to the value it had, which
  a check of values cannot notice and a check of revisions can. One loss divides the
  subscriptions made before it from the recovery after it.
- With a history and a tail of one, two commits trim the history below a cursor,
  overflow the tail, and put one commit in the tail and one in `pendingLive`. Two
  recoveries are a first snapshot whose install fails half way and the one that repairs
  it, or an install that fails on a mirror that was caught up before; the recovery after
  the latter is left to the theorems. Two incarnations with two commits let the second
  reach the cursor of the first.
- Three calls on one place give the registry a holder, an admission that runs and
  one that waits; the third also takes a key again while its first creation fails.
  `MCAsked` gives the calls their keys up to renaming. Four calls on the store are a
  resident host, its unload, and two operations that meet it.
- Four calls on the map are a stage, a write that comes between, its acceptance, and
  a listener's write; two keys are one that is renamed and one in its way, and one
  batch replaces the root beside another write.
- `trees`: three calls of LiveTree with at most 12 nodes; three writes of a document,
  the last of them from the listed last requests, and a logical location tried while
  another call may follow; three calls or deviations of hooks
  on arrays of up to two items; three calls on a stylesheet with two handles and
  two documents; four calls on the wire, where the reader's depth of 75 is scaled to
  13 and the documents with it (chains of up to four elements). An instance starts from the documents of
  `MCDocStarts`, which have QUIDs on nested elements, adjacent texts and a fragment.
  Writes to one map of a collection while the other publishes are left out, and
  so are listeners of `notify` and cleanups that call back.
- `apphost`: limits of one and two with two sockets of two applications make every
  limit the one that decides. Messages of 1 to 3 bytes against a buffer of 2 fit,
  fill it exactly, and exceed it.

`CHECK_DEADLOCK FALSE` is set everywhere: when all calls were made and answered,
the system rests.

**Fairness.** Weak fairness is assumed of continuations only: the event loop runs
what is ready, timers fire, and promises of foreign code settle (a gate, a barrier
operation, `create` and `dispose` of an application, an authorizer, a handler, the
adapter; in the store, that a disposed authority releases its map, which section 5
shows it may fail to do). In `recovery`, a handler that has begun runs on and
messages on a connection that stays up arrive. In `apphost`, the shutdown timer and
the heartbeat fire and `ws` ends a close it was asked for. Nobody has to make a
call, release a lease, reattach or lose a connection.

## 4. Proofs

The theorems hold for every value of the constants: any calls, keys, limits,
numbers of commits, incarnations and faults.

- **LocusPersistenceProofs, the authority.** `TypeCorrect`, then `ControlInvariant`: `ControlInv` =
  `TypeOK` and what `state` says of the rest (served exactly while open, owned
  until closed, only an open authority has a queue) and where the history stands
  (equal to the map while open or while a transition is under way, one behind at
  `notify`). The last part has to cover `closing`, where clients are no longer
  served, since a transition that waits for its gate is still accepted and ingested
  there. From it `HistoryCurrent`, `PreparedCurrent` and the action property
  `FailureFreezes`. `CallsTrue` (`CallsServedTruly`) needs to know where a call is:
  `CallInv` numbers the calls by their place in `called`, keeps the waiting ones its
  last part and the running one just before them, and has nobody pending who is
  neither; `MapInv` gives every installed commit an outcome that admits it. A call
  made after another is then neither settled in turn nor in the map before it,
  although refusals by `dispose` and failure settle calls out of turn. Assumption:
  `NoTask` is not a call.
- **LocusPersistenceProofs, the durable gate.** `DurableInvariant`: the commits on disk start with those
  of the map and are at most one more; with a good verdict at the gate that one is the
  running call's; checkpoint and tail make up the map. The authority's own
  `ControlInv` is part of it, since only the order of gate, acceptance and
  notification keeps a second append from starting. From it `AcceptedIsDurable`
  and, with `TraceInv` (who has not come to the adapter, or was refused by it, is
  neither in the map nor on disk), the action property `RefusedStaysOut`.
  `HostIsDurableLog` is the refinement of `DurableLog`: the adapter's append is
  `Append1`, acceptance and the map of a restored host are `Reveal`, everything else
  stutters. Assumption: `NoTask` is not a call.
- **LocusRecoveryProofs.** `RecoveryInvariant`: no queued commit, message or cut is
  ahead of the head, and all messages on their way are of the present incarnation
  (`RecoveryInv`); a plan for the pending request is not older than the call of
  `recover()` (`AskedInv`); and `ShownInv` is about what the mirror shows. After an
  install that threw half way the cursor is not where the mirror is, and what keeps the
  client from replaying on it is several steps away: the planner answered this cursor
  with a snapshot, since it was below the floor or of another incarnation, it stays so
  because floor and incarnation only grow, the next request carries this cursor as long
  as its plan is awaited, and so that plan is a snapshot again. It makes no claim about
  order or completeness, so it holds whatever the transport does, `Misdeliver` included;
  from it `MirrorAuthoritative`, and `FollowsMirroredLog` is the refinement of
  `MirroredLog`. `ChannelKeepsOrder` (`ChannelInOrder`) is about order and completeness
  and needs four more invariants. `QueueInv`: outbox and queue of the channel are
  gapless runs that end where the stream is. `RequestInv`: requests arrive in order,
  none ahead of the authority. `OrderInv`: there is a run (a kind of plan, its base and
  the head it was made at) that client, messages on their way (`InLine`) and server
  (`Link`) agree on, each message acceptable after the one before it and the server's
  next after the last; what belongs to older requests is ahead of it. `TypesInv`: the
  bounds. The run has to be guessed, existentially, as soon as `recover()` is called,
  because the client may already be waiting while the server still answers an older
  request. Assumptions: limits and bounds are naturals, at least one incarnation.
- **LocusRegistryProofs.** `RegistryBounded`: a call beyond the queue is its head,
  and one that was promised a place finds fewer than `maxLoci` entries. A miss takes
  a place past the queue only when the queue is empty, so nobody takes the place an
  admission found across its awaits. `AuthorityDisposedOnce`: the count of disposals
  is tied to the status of the entry and the promise of its creation, and whoever
  disposes changes the status first. `NothingLeaksEver` (`NothingLeaks`): the lease
  count of an entry is at most the number of calls that wait for it or hold it
  (`LeaseInv`, by the cardinality of that set), and while `dispose()` runs every
  authority not yet disposed is in its list, in the eviction it awaits or the one it
  closes (`DisposalInv`); both rest on when an entry is still the one in the map
  (`LifeInv`). Assumptions: finitely many calls and keys, each call asks for one key
  (`Asked`), `maxLoci` positive.
- **LocusSessionsProofs.** `SessionsStaySound` (`SessionsSound`, which the run checks
  as part of `ConversationSound`) and the refinement `SessionsGiveAuthority` rest on one
  `SessionInv`. A session counts its attachments and every connection remembers the
  count it was given: `HolderInv` says that a count names one connection, `BoundInv`
  that it is not ahead of the session, `AttachInv` that the attachment is the connection
  of the present count, and that a disconnected session has no open one. So whoever
  comes late has an old count. `FencingInv` is the middle of a reattachment, in which
  the new connection is open and bound to nothing yet; `LifeInv` says what failure and
  disposal leave. The end of a reattachment is the step `CSpeak` of the abstract module,
  goodbye and expiry are `CEnd`, a closed transport is `CClose`, disposal is
  `CStopSessions` and `CStopAll`, and the rest stutters. `GoneSessionsStayGone` is the
  action property that an expired or revoked session comes back only through the
  reattachment that was fencing it at that moment. Assumption: `NoConn` is not a
  connection.
- **LocusSyncProofs.** `SyncStaysSafe` (`SyncIsSafe`), and with the sessions
  `ConversationStaysSound`, the run's `ConversationSound`. The sync messages have no
  revision of their own, so the invariant places them. `LogInv` makes a commit a step
  between two past states of the map. `Line` numbers what is on its way with the commit
  it was sent at: behind the boundary of the present channel every commit sends a
  message, so a value that is synced there is one the mirror has anyway, and a mirror
  that has caught up moves only by the next commit. `PeerInv` says that a mirror whose
  revision is its cursor is the state of its cursor: a sync that changes anything takes
  the revision ahead of it, and the boundary is refused. `ShownNow` and
  `ShownLater` say where a key that is owed nothing has its value: in the mirror or in
  a message, or, during a replay, in the state of the boundary or a message behind it,
  with nothing after it that says otherwise. `RequestInv` has to know that requests
  arrive in order and that a transport which is not attached has no channel.
  Assumptions: `NoValue` is not a value, `RootPath` is not a key, the bounds are naturals.
- **LocusActionsProofs.** `RequestsRunOnce` (`ActionsOnce`). The store knows a request
  as long as it has a record or a tombstone; what it does not know ran as often as it was
  forgotten, so a run that starts on an unknown request is at most one more (`RunsInv`).
  Who waits, waits for the run of the pending record and asked for the same content
  (`WaitInv`); who was told an outcome was told what is in the record, unless the request
  was forgotten (`ToldInv`), so all were told the same (`AgreeInv`). `ListsInv` is the
  bounds. Assumption: the attempts of a scenario name requests, contents are naturals.
- **LiveHostProofs.** For the host, `HostKeepsLimits` (`HostWithinLimits`): the counter
  of handshakes is the cardinality of the set of upgrades that wait for their policies
  (`CountInv`), so a decrement in the wrong branch or twice would show; `dispose()` was
  called exactly for the applications that left "no", one at a time, and the server is
  closed behind the last of them (`ServerInv`). There may be infinitely many sockets:
  those in use are finitely many. Assumption: limits are positive. For the store,
  `StoreInvariant`: the operations that may construct or finish an authority run behind
  their own marker with nothing resident (`Guarded`), and a running authority is
  resident, in the hand of its call, or awaited by an unload (`Accounted`). Neither is
  inductive alone. From it `OneAuthorityAtATime` and `LoadsNeverConflict`: the check for
  a registry conflict in `get_or_load` cannot fire; `StoreTablesTrue` states the run's
  `StoreConsistent`. Assumption: `NoCall` is not a call. For one connection,
  `QueueStaysSound` (`QueueSound`): the bytes of a queue are sums of a recursive
  function, and that taking a prefix takes exactly its sum is an induction over the
  length. Nothing in the code bounds a message, so the theorem has the hypothesis that
  there is a largest one, which is the amount by which queue and buffer may exceed
  their limit.
- **LiveMapProofs.** `MapStaysCoherent`, `SubscribersEndUpToDate`, `StagingStaysSafe`
  and `ReplicaEndsAsTheMap` are the four properties of the `livemap` run and rest on
  one invariant with a part for each thing that follows a map. The plans of a batch
  are recursive functions over its writes; what they keep of value, overlay and ledger
  is shown by induction over the length, as induction in sets, from the
  well-foundedness of `<`. `MapOK` and `PlaceOK`: identities lie on what exists and are
  on the ledger of their epoch. `StagedOK` and `SavedOK` say the same of what a staged
  transition and a capture would install, since either may come long after the state it
  was made on. `WatchesOK`, `LinkOK` and `FeedsOK` say of the publications not yet
  shown that together they lead a follower from what it has to what the map holds: the
  listeners in the middle of the first may have added more behind it. For `ReplicaOK` the
  commits behind the last snapshot are ordered by revision, and a replica that is shown
  all that is queued is the map, or it is behind because a commit was cut off and then
  refuses what follows. Every step is one of a few kinds (it installs a state, or
  prepares one), so the parts are proved once for each kind. The last theorem has a
  hypothesis, `RootsShow`: an authority decides by the writes whether a batch starts a
  new identity epoch (`livemap.core.ts:1951-1952`), a replica by the operations of the
  commit, from which a replacement of the root by an equal value is missing; a batch
  with such a write and another change would part their ledgers. The instance
  satisfies it (`MCRootsShow`).
- **LiveMapProofs, the stylesheet.** `SheetStaysExact` (`SheetExact`): the keyframes, who
  owns which name and the source of each definition are three maps written by
  different calls (`LinksAgree`, `SourcesAgree`), without which a release would take
  too much or too little; `BehindIsMarked` says that what a document does not show is
  marked as changed, with a frame requested, or announced by the microtask, unless
  the shared callback was disposed. `ReleaseSparesTheOthers` is a conjunct of the run's
  `NothingTakenAway`. Assumptions: the mark for keyframes nobody owns is not a QUID, the
  ambient document is one of the documents.
- **LiveMapProofs, the collection.** `CollectionStaysExact` (`CollectionExact`): an update
  reads its items when it begins and shows each when its hook runs, from the map as it
  is by then, and a commit is applied when the map may already be several commits on. So
  `MirrorInv` is about positions: each shows the source, or is touched by the commit
  under way, or by a publication still ahead (`Dirty`), and `shouldUpdateSurvivor` must
  touch what the splice touches. `BranchesOf` and `NestedOf` say the same of a frame in
  the middle, `HostInv` that the host has the living branches that are not staged. That
  attachment (`Attached`) puts every record in its place and duplicates none is an
  induction over the ordinals; that it never meets a dead branch is part of it, so that
  failure cannot occur. `CauseInv` needs that nothing is published behind a commit as long
  as no listener wrote. All of it is claimed as long as the collection is `Undisturbed`:
  a hook that commits outside a publication or disposes the reflector breaks it, as the
  property says. `ItemsKeepTheirBranches` is a conjunct of `NothingTakenAway`. Assumptions:
  an item has some content, and the first array has each key once (the constructor throws
  otherwise).

Only model-checked: all liveness and every use of ENABLED, which the prover does not
handle, and what rests on definitions that recurse on trees or lexemes: `TreeSound`,
`DocumentExact`, `BindingSound`, `WireIsExact`, `EditorExact` and `CircuitSound`.
Induction over the length of a sequence is done as an induction in sets; over trees
it would need an induction theorem that takes a predicate, which the provers cannot
instantiate.

## 5. Where code and documentation disagree

Three runs end in a counterexample.

- `reflect_dom`: replacing an element by one with the same tag and QUID but other
  content updates the tree and not the DOM (`reflect.document.structure.ts:150-170`,
  `426-445`); the contract says both are updated synchronously.
- `wire_depth`: the codec nests two levels or more of HSON for each node, the reader
  stops at 75 (`tokenize-hson.ts:20`), and nothing looks at the depth when a commit
  or a checkpoint is made. A Locus can store a document it cannot restore.
- `sync_recovery`: a sync message that arrives between the reattachment of a session
  and the replay of what the mirror missed is written into the mirror, and the replay
  then fails with a conflict. The contract says that path subscriptions must not
  share the revision cursor of the full map without recovery semantics of their own.
  The failure repeats at each reconnection that is synced before it has recovered,
  until a snapshot is sent. `CaughtUpIsExact` shows that it is at least noticed.

The following were met while modelling. The models do what the code does; a property
that would be false is weakened by a named exception, or stands in its module without
a run.

Locus and LiveHost:

- `terminal()` overwrites `closing` with `failed`, the drain returns before the
  release, and a `dispose()` that is under way never resolves (`DisposeReleases`;
  `locus.authority.ts:109`, `:248`). `docs/locus/overview.md:387` says that ownership
  is released after active work settles.
- `acquire()` counts the lease on the pending entry some microtasks after its
  admission; a `create` that answered synchronously has been installed by then with a
  count of zero, and the authority may be evicted under its holder (`HeldStaysReady`;
  `livehost.authority-registry.ts:265`).
- Each waiter of a failed creation deletes whatever is loading under its key, a later
  creation too (`OneCreationPerKey`; `:252`, `:273`).
- A load or connection during an unload joins the unload's promise and reports a
  stored map as unknown (`StoredIsFound`; `livehost.persistent-store.ts:151`).
  `connect()` may also hand out an inert connection to a host that was disposed while
  it awaited.
- Actions of sessions never acquire an "action" activity, so a Locus may be evicted
  while a handler runs once its client left (`ActionBlocksQuiescence`;
  `locus.core.ts:904` and `1192-1437`).
- A snapshot whose `map.restore` throws after it replaced the mirror (a watch, an
  observer or the mirror's schema) leaves the mirror at the snapshot and the cursor
  behind it (`locus.client.ts:508-555`), and the failure is reported as an invalid
  snapshot. `docs/contracts/locus-recovery.md:207` says that a client installs a snapshot
  atomically, and `:633` that it claims a revision only with the exact mirror state for
  it. `MirrorIsAuthoritative` names the exception; the next recovery repairs it.
- `terminal()` leaves sessions attached; a goodbye said while a transport is being
  fenced ends a session that the reattachment then revives (`GoneStaysGone` names
  it); a `validate_action` that throws leaves its client without an answer for as long as
  the connection lasts (`PromisesSettle` names it; `locus.core.ts:576-581`, `1698`); an HTTP
  request authorised before a disposal is dispatched after it;
  `create_locus_bootstrap_client` may report "live" or "failed" after `dispose()`.
- Writes of the host and of actions that fail after a write are never synced, and a
  reattached session is sent no values before the next action.
- A replica that replays an installation of the same epoch resets its ledger while
  the authority keeps it.
- An emptied fragment cannot be written as HSON, so its snapshot and its artifact
  fail (`detach-hson-root-value.ts:27`), and neither can `_hson_elem` directly inside
  `_hson_elem`, which the canonical form accepts (`assert-invariants.ts:249-283`).

LiveMap:

- A feed shows an event with the values of a later commit when an earlier listener
  wrote (`FeedEventIsCurrent`; `livemap.feed.ts:92-100`), and a link does not follow
  a restore (`LinkMirrors`).
- Only the paths an operation writes are validated, so a candidate the schema accepts
  may be refused and the reverse (`ValidCandidateCommits`;
  `livemap.core.ts:2326-2364`).
- `unknown`, `literal(null)` and `pick(...)` reject null (`livemap.schema.ts:1461`);
  array helpers that set throw on a root array; an equal `replace` in a batch that
  changes something else does not retire an identity; identity cannot be acquired
  inside a publication.

Documents, LiveTree and Reflect:

- A replacement reuses the carrier of the element it replaces; elements that left the
  document below it are never disposed (`CorrespondenceExact` names them;
  `reflect.document.structure.ts:296-372`, `595-606`).
- A write from a watch or an earlier observer that changes content with QUIDs makes
  the binding fail, and so do an installation of the same epoch that changes the
  root's subject and one that brings a retired QUID back. So does the epoch after a
  replacement that left an element behind: its QUID is still held, and the ledger of
  the runtime refuses to be reset (`data-quid.ts:223-227`). `NeverFailsAlone` names the
  reasons.
- Wrapping an element in place claims its carrier twice. A delegated write inside a
  publication goes to a path that is no longer right. A fragment edit that leaves a
  single element is refused.
- `detachContents().appendTo()` puts a carrier beside an existing one; a handle of a
  descendant keeps the host root of its former, disposed host; overwriting a text
  drops child nodes without disposing them; a disposable discarded at the drain limit
  registers again for a dead QUID; nodes that Reflect moves keep a stale owner.
- A hook of a collection that commits in `synchronize()`, `replaceSource()` or
  construction re-enters the update or is missed; records may be disposed and kept;
  a `dispose()` from a hook is followed by status "ready" or "failed".
- Disposing the API object of a stylesheet removes the callback its manager shares;
  a rule handle keeps declarations of its own; global rules whose selector mentions a
  QUID go with it although a comment calls durable CSS unaffected.

Notations:

- The last replacement of the markup serializer shortens any attribute whose value
  repeats the end of its name; a root fragment with text does not survive the
  circuit; object QUIDs are lost in markup and projected QUIDs in JSON; an attribute
  with an empty value becomes a flag; duplicate QUIDs are accepted although a comment
  of `parse-hson.ts` says otherwise.

## 6. Not modelled, and what could follow

- Handles and proxies of LiveMap and its bridge to LiveTree turn one call into one
  mutation, and the basic store is a synchronous map:
  nothing in them interleaves and they keep no state of their own.
- Transports, tracing, events, motion, canvas, forms and LiveInspect are I/O and
  views; sanitising depends on the platform's parser.
- In modelled components: the clock and generations of the registry's sweep; byte
  limits beside the counts; trace output; events and the debug view of the
  synchronisation manager; style attributes and the queries of LiveTree; attribute
  values with markup, escapes and the grammar of numbers; the inference of schemas.

What could follow: the sweep's clock, with the time between listing and evicting an
entry; the store composed with connections.
