----------------------------- MODULE LiveMapCore -----------------------------
(***************************************************************************)
(* One projected LiveMap (livemap.core.ts) with everything that hangs on   *)
(* it: the identity overlay and its issued-QUID ledger, the transition     *)
(* controller with one staged transition, captures, the publication queue, *)
(* location watches, a link into another map, a raw feed, a store          *)
(* subscription, and a replica map kept by a commit observer.              *)
(*                                                                         *)
(* The map is synchronous, so what interleaves is re-entrancy: a listener  *)
(* runs in the middle of a publication and may itself write, stage,        *)
(* accept, restore or throw.  stage.call says that the listener at         *)
(* (stage.phase, stage.i) is on the call stack; a write is possible when   *)
(* nothing is being published or from such a listener.                     *)
(*                                                                         *)
(* Data: the root is an object with the keys Key; a value is an array, a   *)
(* container that may carry a QUID.  ProjectedValue has the deep values.   *)
(***************************************************************************)
EXTENDS Integers, Sequences

CONSTANTS
  Key, Val, Absent,  \* keys of the root object, their values, no value
  Quid, NoQuid,      \* persisted QUIDs, none
  None,              \* no token, no capture, no schema
  Roots,             \* initial roots, and the ones apply() installs
  Writes,            \* the write intents the callers use: sequences of operations
  Watches,           \* the watched keys, in the order of registration
  LinkKey, FeedKey, SubKey, \* what the link, the raw feed and the store subscription follow
  Valid,             \* the roots the schema admits
  MaxCalls           \* bound: calls made on the map

VARIABLES
  value, quids, rev, \* owned: projected value, identity overlay, revision
  issued, epoch,     \* the identity epoch and its issued-QUID ledger
  schema,            \* TRUE once the schema is attached
  staged,            \* a prepared transition, or None; fresh while the controller's
                     \* generation is the one it was prepared in
  saved,             \* a capture, or None
  queue, stage,      \* publicationQueue and where its head is
  previous, told,    \* per watch: entry.previous, and the value the listener was given last
  linked,            \* the value at the linked path of the target map
  heard,             \* event.value of the raw feed's last event
  subPrev,           \* the store subscription's prev
  replica,           \* the map an observer keeps by replaying commits
  cut,               \* phases whose listeners threw, so that the observers missed a commit
  restored,          \* a restore has happened
  calls              \* calls made so far

mapVars == <<value, quids, rev, issued, epoch, schema>>
listenerVars == <<previous, told, linked, heard, subPrev, replica, cut>>
vars == <<mapVars, staged, saved, queue, stage, listenerVars, restored, calls>>

Root == [Key -> Val \cup {Absent}]
Overlay == [Key -> Quid \cup {NoQuid}]
Active(q) == {q[k] : k \in Key} \ {NoQuid}
Idle == queue = <<>>

-----------------------------------------------------------------------------
(* Planning.  An operation is [kind, key, to, val]: "root" replaces the    *)
(* root by val, the other kinds are named as in the code.                  *)
Operation ==
       [kind : {"set", "replace"}, key : Key, to : {None}, val : Val]
  \cup [kind : {"delete"}, key : Key, to : {None}, val : {None}]
  \cup [kind : {"rename"}, key : Key, to : Key, val : {None}]
  \cup [kind : {"root"}, key : {None}, to : {None}, val : Root]

ASSUME LiveMapAssumption ==
  /\ Roots \subseteq Root /\ Writes \subseteq Seq(Operation)
  /\ Watches \in Seq(Key) /\ {LinkKey, FeedKey, SubKey} \subseteq Key
  /\ NoQuid \notin Quid /\ MaxCalls \in Nat

(* The operation reaches an existing endpoint: must_resolved_projected_value, *)
(* OBJECT_RENAME_SOURCE_NOT_FOUND. A set may create its key (setMany).        *)
Resolves(v, op) == op.kind \in {"replace", "delete", "rename"} => v[op.key] # Absent

(* ordered_projected_value_set / _replace / _delete, ordered_projected_object_rename. *)
Renamed(v, from, to) == [v EXCEPT ![to] = v[from], ![from] = Absent]
ApplyOp(v, op) ==
  CASE op.kind = "root"   -> op.val
    [] op.kind = "delete" -> [v EXCEPT ![op.key] = Absent]
    [] op.kind = "rename" -> IF op.key = op.to THEN v ELSE Renamed(v, op.key, op.to)
    [] OTHER              -> [v EXCEPT ![op.key] = op.val]

(* A write that changes nothing leaves no transport operation behind; a     *)
(* rename always reorders the entries, unless it keeps the name.            *)
Changes(v, op) ==
  CASE op.kind = "delete" -> TRUE
    [] op.kind = "rename" -> op.key # op.to
    [] OTHER              -> ApplyOp(v, op) # v

(* One operation planned on the candidate, and the plan after each of them. *)
PlanOne(plan, op) ==
  IF plan.ok /\ Resolves(plan.value, op)
  THEN [ok |-> TRUE, value |-> ApplyOp(plan.value, op),
        ops |-> IF Changes(plan.value, op) THEN Append(plan.ops, op) ELSE plan.ops]
  ELSE [plan EXCEPT !.ok = FALSE]

Plans(root, writes) ==
  LET plan[n \in 0..Len(writes)] ==
        IF n = 0 THEN [ok |-> TRUE, value |-> root, ops |-> <<>>]
        ELSE PlanOne(plan[n - 1], writes[n])
  IN plan

plan_write_ops(root, writes) == Plans(root, writes)[Len(writes)]

(* An equal replacement of something that carries identity retires it. *)
Retires(root, q, op) ==
  \/ op.kind = "replace" /\ q[op.key] # NoQuid /\ root[op.key] = op.val
  \/ op.kind = "root" /\ Active(q) # {} /\ root = op.val

(* The retiring operations among the first 0, 1, ... *)
Retirements(root, q, writes) ==
  LET retired[n \in 0..Len(writes)] ==
        IF n = 0 THEN <<>>
        ELSE IF Retires(root, q, writes[n]) THEN Append(retired[n - 1], writes[n])
        ELSE retired[n - 1]
  IN retired

plan_write_ops_with_identity(root, q, writes) ==
  LET plan == plan_write_ops(root, writes)
  IN IF ~plan.ok \/ plan.ops # <<>> THEN plan
     ELSE [ok |-> TRUE, value |-> plan.value, ops |-> Retirements(root, q, writes)[Len(writes)]]

TransformOverlayIgnoresRename(q, op) ==
  CASE op.kind = "root"   -> [k \in Key |-> NoQuid]
    [] op.kind = "rename" -> q
    [] OTHER              -> [q EXCEPT ![op.key] = NoQuid]

(* transform_path for every entry of the overlay, operation by operation. *)
TransformOverlay(q, op) ==
  CASE op.kind = "root"   -> [k \in Key |-> NoQuid]
    [] op.kind = "rename" -> [q EXCEPT ![op.to] = q[op.key], ![op.key] = NoQuid]
    [] OTHER              -> [q EXCEPT ![op.key] = NoQuid]

Overlays(q, ops) ==
  LET overlay[n \in 0..Len(ops)] ==
        IF n = 0 THEN q ELSE TransformOverlay(overlay[n - 1], ops[n])
  IN overlay

reconcile_overlay(q, ops) == Overlays(q, ops)[Len(ops)]

ReplacesRoot(writes) == \E i \in 1..Len(writes) : writes[i].kind = "root"

(* Every batch that replaces the root has a root replacement among the       *)
(* operations of its commit, so that those who replay the commit start an    *)
(* identity epoch whenever the map does. (prepare_projected_transition looks *)
(* at the writes, a replay at the operations.)                               *)
RootsShow ==
  \A root \in Root, q \in Overlay, writes \in Writes :
    LET plan == plan_write_ops_with_identity(root, q, writes)
    IN plan.ok /\ plan.ops # <<>> /\ ReplacesRoot(writes) => ReplacesRoot(plan.ops)

(* paths_overlap of [k] and the operation's path; rename and root act at []. *)
Overlaps(k, op) == op.kind \in {"root", "rename"} \/ op.key = k

(* The operations of a commit that a listener at [k] is told of. *)
Touches(ops, k) == { i \in 1..Len(ops) : Overlaps(k, ops[i]) }
Latest(set) == CHOOSE i \in set : \A j \in set : j <= i

-----------------------------------------------------------------------------
(* Publication.                                                            *)

NoCall == [phase |-> "watch", i |-> 1, call |-> FALSE]

(* A call may come: nobody is publishing, or a listener is running. *)
CallerRuns == (Idle \/ stage.call) /\ calls < MaxCalls /\ calls' = calls + 1

(* enqueuePublication. The feeds of a commit read the root node the commit  *)
(* was made on; frozen is its value once a restore has installed another.   *)
(* Those of an accepted draft read whatever root the map has (follows).     *)
Enqueue(kind, commit, follows) ==
  queue' = Append(queue, [kind |-> kind, commit |-> commit, frozen |-> None, follows |-> follows])

(* The publications in the queue once a restore takes the root away. *)
Freeze == [i \in 1..Len(queue) |->
             IF queue[i].frozen = None /\ ~queue[i].follows
             THEN [queue[i] EXCEPT !.frozen = value] ELSE queue[i]]

Publishing == Head(queue)
Ops == Publishing.commit.ops
FeedReads(k) == IF Publishing.frozen = None THEN value[k] ELSE Publishing.frozen[k]

Goto(phase) == stage' = [phase |-> phase, i |-> 1, call |-> FALSE]

Calls == stage' = [stage EXCEPT !.call = TRUE]

NextEntry == stage' = [stage EXCEPT !.i = @ + 1, !.call = FALSE]

(* The publication is over; the loop of enqueuePublication takes the next one. *)
EndPublication == queue' = Tail(queue) /\ stage' = NoCall

(* A feed or link threw: the exception leaves emitProjected, so the feeds  *)
(* that follow and every commit observer miss this commit.                 *)
CutPublication == EndPublication /\ cut' = cut \cup {stage.phase}

-----------------------------------------------------------------------------
(* Writes.                                                                 *)

(* generation += 1: what is staged belongs to an older generation. *)
Invalidate == staged' = IF staged = None THEN None ELSE [staged EXCEPT !.fresh = FALSE]

(* install and notify of a changed commit. *)
InstallCommit(next, ops, replacesRoot, follows) ==
  /\ value' = next
  /\ quids' = reconcile_overlay(quids, ops)
  /\ rev' = rev + 1
  /\ IF replacesRoot
       THEN epoch' = epoch + 1 /\ issued' = Active(quids')
       ELSE issued' = issued \cup Active(quids') /\ UNCHANGED epoch
  /\ Enqueue("commit", [prevRev |-> rev, rev |-> rev + 1, ops |-> ops, before |-> value], follows)

SchemaAdmits(next) == schema => next \in Valid

(* commitOps: set, setMany, replace, delete, rename, batch. What does not   *)
(* resolve or is not admitted throws and leaves nothing behind.             *)
CommitOps(writes) ==
  LET plan == plan_write_ops_with_identity(value, quids, writes)
  IN /\ CallerRuns
     /\ plan.ok /\ plan.ops # <<>> /\ SchemaAdmits(plan.value)
     /\ InstallCommit(plan.value, plan.ops, ReplacesRoot(writes), FALSE)
     /\ Invalidate
     /\ UNCHANGED <<schema, saved, stage, listenerVars, restored>>

ApplyBlindly(next) ==
  LET writes == <<[kind |-> "root", key |-> None, to |-> None, val |-> next]>>
      plan == plan_write_ops_with_identity(value, quids, writes)
  IN /\ CallerRuns
     /\ saved # None
     /\ plan.ops # <<>> /\ SchemaAdmits(next)
     /\ InstallCommit(next, plan.ops, TRUE, FALSE)
     /\ Invalidate
     /\ UNCHANGED <<schema, saved, stage, listenerVars, restored>>

(* core.apply: replace the root if the revision the caller read is current. *)
Apply(next) ==
  LET writes == <<[kind |-> "root", key |-> None, to |-> None, val |-> next]>>
      plan == plan_write_ops_with_identity(value, quids, writes)
  IN /\ CallerRuns
     /\ saved # None /\ saved.rev = rev
     /\ plan.ops # <<>> /\ SchemaAdmits(next)
     /\ InstallCommit(next, plan.ops, TRUE, FALSE)
     /\ Invalidate
     /\ UNCHANGED <<schema, saved, stage, listenerVars, restored>>

(* acquire_livemap_projected_identity: mint a QUID never issued in this    *)
(* epoch and commit the registration.                                      *)
EnsureQuid(k) ==
  /\ CallerRuns
  /\ value[k] # Absent /\ quids[k] = NoQuid
  /\ \E q \in Quid \ (issued \cup Active(quids)) :
       /\ quids' = [quids EXCEPT ![k] = q]
       /\ issued' = issued \cup {q}
       /\ Enqueue("identity", [prevRev |-> rev, rev |-> rev + 1,
                               ops |-> <<[kind |-> "quid", key |-> k, to |-> None, val |-> q]>>], FALSE)
  /\ rev' = rev + 1
  /\ Invalidate
  /\ UNCHANGED <<value, epoch, schema, saved, stage, listenerVars, restored>>

(* schemaApi.use: attached once, on a root it admits; invalidates what is staged. *)
UseSchema ==
  /\ CallerRuns /\ ~schema /\ value \in Valid
  /\ schema' = TRUE
  /\ Invalidate
  /\ UNCHANGED <<value, quids, rev, issued, epoch, saved, queue, stage, listenerVars, restored>>

(* A transition token: the planned state, and the graph it is based on. *)
Stage(plan, replacesRoot, detached) ==
  staged' = [next |-> plan.value, ops |-> plan.ops, replacesRoot |-> replacesRoot,
             base |-> value, baseQuids |-> quids, rev |-> rev, fresh |-> TRUE, detached |-> detached]

(* prepareProjectedBatch: a staged batch is planned on the map itself. *)
PrepareBatch(writes) ==
  LET plan == plan_write_ops_with_identity(value, quids, writes)
  IN /\ CallerRuns /\ staged = None
     /\ plan.ok /\ plan.ops # <<>> /\ SchemaAdmits(plan.value)
     /\ Stage(plan, ReplacesRoot(writes), FALSE)
     /\ UNCHANGED <<mapVars, saved, queue, stage, listenerVars, restored>>

(* prepareDetachedCommit: anything else is done on a draft, a map of its own *)
(* made from the root, and the commit the draft made is what is staged.      *)
PrepareDetached(writes) ==
  LET plan == plan_write_ops_with_identity(value, quids, writes)
  IN /\ CallerRuns /\ staged = None
     /\ plan.ok /\ plan.ops # <<>> /\ SchemaAdmits(plan.value)
     /\ Stage(plan, ReplacesRoot(plan.ops), TRUE)
     /\ UNCHANGED <<mapVars, saved, queue, stage, listenerVars, restored>>

(* accept's checks: the revision, the generation and baseStillCurrent, which *)
(* compares the graphs only for a detached draft.                            *)
StillCurrent ==
  /\ staged.rev = rev
  /\ staged.fresh
  /\ staged.detached => staged.base = value /\ staged.baseQuids = quids

Accept ==
  /\ CallerRuns /\ staged # None
  /\ StillCurrent
  /\ InstallCommit(staged.next, staged.ops, staged.replacesRoot, staged.detached)
  /\ staged' = None
  /\ UNCHANGED <<schema, saved, stage, listenerVars, restored>>

Discard ==
  /\ CallerRuns /\ staged # None
  /\ staged' = None
  /\ UNCHANGED <<mapVars, saved, queue, stage, listenerVars, restored>>

(* capture_livemap_projected: same says that the capture carries the        *)
(* provenance of a "same-epoch" capture.                                    *)
Capture(same) ==
  /\ CallerRuns
  /\ saved' = [value |-> value, quids |-> quids, rev |-> rev, epoch |-> epoch, same |-> same]
  /\ UNCHANGED <<mapVars, staged, queue, stage, listenerVars, restored>>

(* core.restore under an identity policy. Feeds are not told; watches and   *)
(* observers are. It installs a new root node: the feeds of the commits     *)
(* still in the queue go on reading the old one.                            *)
Restore(policy) ==
  /\ CallerRuns
  /\ saved # None
  /\ SchemaAdmits(saved.value)
  /\ policy = "same-epoch" => saved.same /\ saved.epoch = epoch
  /\ value' = saved.value
  /\ quids' = IF policy = "strip" THEN [k \in Key |-> NoQuid] ELSE saved.quids
  /\ rev' = saved.rev
  /\ IF policy = "same-epoch"
       THEN UNCHANGED <<issued, epoch>>
       ELSE issued' = Active(quids') /\ epoch' = epoch + 1
  /\ Invalidate
  /\ queue' = Append(Freeze, [kind |-> "snapshot", commit |-> None, frozen |-> None, follows |-> TRUE])
  /\ restored' = TRUE
  /\ UNCHANGED <<schema, saved, stage, listenerVars>>

-----------------------------------------------------------------------------
(* The phases of a publication.                                            *)

Relevant(k) ==
  CASE Publishing.kind = "snapshot" -> TRUE
    [] Publishing.kind = "identity" -> FALSE
    [] OTHER -> Touches(Ops, k) # {} /\ previous[k] # value[k]

(* emitCommit and emitSnapshot of the watch hub: previous is set before the call. *)
EmitWatch ==
  /\ ~Idle /\ stage.phase = "watch" /\ ~stage.call
  /\ stage.i <= Len(Watches)
  /\ LET k == Watches[stage.i]
     IN IF Relevant(k)
        THEN /\ previous' = [previous EXCEPT ![k] = value[k]]
             /\ told' = [told EXCEPT ![k] = value[k]]
             /\ Calls
        ELSE NextEntry /\ UNCHANGED <<previous, told>>
  /\ UNCHANGED <<mapVars, staged, saved, queue, linked, heard, subPrev, replica, cut, restored, calls>>

WatchesDone ==
  /\ ~Idle /\ stage.phase = "watch" /\ ~stage.call
  /\ stage.i > Len(Watches)
  /\ Goto(IF Publishing.kind = "commit" THEN "link" ELSE "observer")
  /\ UNCHANGED <<mapVars, staged, saved, queue, listenerVars, restored, calls>>

LinkEffectKeepsDeleted(ops, touched, current) ==
  IF \E i \in touched : ops[i].kind # "set"
  THEN [throws |-> linked = Absent, to |-> IF current = Absent THEN linked ELSE current]
  ELSE [throws |-> FALSE, to |-> ops[Latest(touched)].val]

(* apply_projected_link_event: what the target's linked path becomes. A     *)
(* write the target refuses throws.                                         *)
LinkEffect(ops, touched, current) ==
  IF current = Absent THEN [throws |-> linked = Absent, to |-> Absent]
  ELSE IF \E i \in touched : ops[i].kind # "set"
       THEN [throws |-> linked = Absent, to |-> current]
       ELSE [throws |-> FALSE, to |-> ops[Latest(touched)].val]

EmitLink ==
  LET touched == Touches(Ops, LinkKey)
      effect == LinkEffect(Ops, touched, FeedReads(LinkKey))
  IN /\ ~Idle /\ stage.phase = "link"
     /\ \/ /\ touched = {}
           /\ Goto("feed") /\ UNCHANGED <<queue, linked, cut>>
        \/ /\ touched # {} /\ ~effect.throws
           /\ linked' = effect.to
           /\ Goto("feed") /\ UNCHANGED <<queue, cut>>
        \/ /\ touched # {} /\ effect.throws
           /\ CutPublication /\ UNCHANGED linked
     /\ UNCHANGED <<mapVars, staged, saved, previous, told, heard, subPrev, replica, restored, calls>>

(* The raw feed's listener is given the value read at its path. *)
EmitFeed ==
  /\ ~Idle /\ stage.phase = "feed" /\ ~stage.call
  /\ IF stage.i = 1 /\ Touches(Ops, FeedKey) # {}
       THEN heard' = FeedReads(FeedKey) /\ Calls
       ELSE Goto("store") /\ UNCHANGED heard
  /\ UNCHANGED <<mapVars, staged, saved, queue, previous, told, linked, subPrev, replica, cut, restored, calls>>

(* subscribePath: a feed listener that compares with its own prev and reads the map itself. *)
EmitStore ==
  /\ ~Idle /\ stage.phase = "store" /\ ~stage.call
  /\ IF stage.i = 1 /\ Touches(Ops, SubKey) # {} /\ value[SubKey] # subPrev
       THEN subPrev' = value[SubKey] /\ Calls
       ELSE Goto("observer") /\ UNCHANGED subPrev
  /\ UNCHANGED <<mapVars, staged, saved, queue, previous, told, linked, heard, replica, cut, restored, calls>>

(* replay_write_ops: what an operation overwrites must be what it recorded. *)
PriorValuesMatch(r, commit) ==
  \A i \in 1..Len(commit.ops), k \in Key :
    Overlaps(k, commit.ops[i]) => r.value[k] = commit.before[k]

ReplayPlanWithoutIdentity(r, commit) == plan_write_ops(r.value, commit.ops)

(* apply_replay_ops plans on the replica's own value and overlay: a plan    *)
(* that changes nothing does not advance the revision.                      *)
ReplayPlan(r, commit) == plan_write_ops_with_identity(r.value, r.quids, commit.ops)

(* core.replay of an identity commit: an eligible unclaimed path, a fresh QUID. *)
ReplaysQuid(r, op) ==
  /\ r.value[op.key] # Absent /\ r.quids[op.key] = NoQuid
  /\ op.val \notin Active(r.quids) \cup r.issued

(* What the replica r becomes when its observer is shown a publication: a    *)
(* commit is replayed if it starts at the replica's revision, a snapshot is  *)
(* captured from the map as it is now and restored.                          *)
Replayed(r, publication, now) ==
  LET commit == publication.commit
      op == commit.ops[1]
      plan == ReplayPlan(r, commit)
      nextQuids == reconcile_overlay(r.quids, plan.ops)
  IN CASE publication.kind = "snapshot" -> now
       [] publication.kind # "snapshot" /\ commit.prevRev # r.rev -> r
       [] publication.kind = "identity" /\ commit.prevRev = r.rev ->
            IF ReplaysQuid(r, op)
            THEN [value |-> r.value, quids |-> [r.quids EXCEPT ![op.key] = op.val],
                  rev |-> r.rev + 1, issued |-> r.issued \cup {op.val}]
            ELSE r
       [] OTHER ->
            IF PriorValuesMatch(r, commit) /\ plan.ok /\ plan.ops # <<>>
            THEN [value |-> plan.value, quids |-> nextQuids, rev |-> r.rev + 1,
                  issued |-> IF ReplacesRoot(commit.ops) THEN Active(nextQuids) ELSE r.issued]
            ELSE r

(* The map as a capture shows it. *)
Captured == [value |-> value, quids |-> quids, rev |-> rev, issued |-> Active(quids)]

EmitObserver ==
  /\ ~Idle /\ stage.phase = "observer"
  /\ replica' = Replayed(replica, Publishing, Captured)
  /\ cut' = IF Publishing.kind = "snapshot" THEN {} ELSE cut
  /\ EndPublication
  /\ UNCHANGED <<mapVars, staged, saved, previous, told, linked, heard, subPrev, restored, calls>>

ListenerReturns ==
  /\ stage.call
  /\ NextEntry
  /\ UNCHANGED <<mapVars, staged, saved, queue, listenerVars, restored, calls>>

(* A failing watch listener is isolated. *)
WatchThrows ==
  /\ stage.call /\ stage.phase = "watch"
  /\ NextEntry
  /\ UNCHANGED <<mapVars, staged, saved, queue, listenerVars, restored, calls>>

(* A failing feed listener is not. *)
FeedThrows ==
  /\ stage.call /\ stage.phase \in {"feed", "store"}
  /\ CutPublication
  /\ UNCHANGED <<mapVars, staged, saved, previous, told, linked, heard, subPrev, replica, restored, calls>>

-----------------------------------------------------------------------------
Init ==
  /\ value \in Roots
  /\ quids \in {q \in Overlay : \A k \in Key : q[k] # NoQuid =>
                  value[k] # Absent /\ \A j \in Key \ {k} : q[j] # q[k]}
  /\ rev = 0 /\ issued = Active(quids) /\ epoch = 0 /\ schema = FALSE
  /\ staged = None /\ saved = None
  /\ queue = <<>> /\ stage = NoCall
  /\ previous = value /\ told = value
  /\ linked = value[LinkKey] /\ heard = value[FeedKey] /\ subPrev = value[SubKey]
  /\ replica = [value |-> value, quids |-> quids, rev |-> rev, issued |-> issued]
  /\ cut = {} /\ restored = FALSE /\ calls = 0

Caller ==
  \/ \E writes \in Writes : CommitOps(writes) \/ PrepareBatch(writes) \/ PrepareDetached(writes)
  \/ \E next \in Roots : Apply(next)
  \/ \E k \in Key : EnsureQuid(k)
  \/ UseSchema
  \/ Accept \/ Discard
  \/ \E same \in BOOLEAN : Capture(same)
  \/ \E policy \in {"same-epoch", "preserve-metadata", "strip"} : Restore(policy)

Publish ==
  \/ EmitWatch \/ WatchesDone \/ EmitLink \/ EmitFeed \/ EmitStore \/ EmitObserver
  \/ ListenerReturns \/ WatchThrows \/ FeedThrows

Next == Caller \/ Publish

Spec == Init /\ [][Next]_vars
-----------------------------------------------------------------------------
(* The revision, the overlay and its ledger, and the place in a publication *)
(* have the shapes the code gives them.                                     *)
MTypeOK ==
  /\ value \in Root /\ quids \in Overlay /\ rev \in 0..MaxCalls
  /\ issued \subseteq Quid /\ epoch \in 0..MaxCalls
  /\ stage.phase \in {"watch", "link", "feed", "store", "observer"}
  /\ Idle => stage = NoCall
  /\ replica.value \in Root /\ replica.quids \in Overlay

(* A QUID marks only what exists, marks one place only, and is on the        *)
(* ledger of the epoch it is active in: renames, replacements, staged        *)
(* transitions and restores of every policy keep overlay, graph and ledger   *)
(* together (reconcile_livemap_projected_identity_overlay, identity-epoch). *)
IdentityCoherent ==
  /\ \A k \in Key : quids[k] # NoQuid => value[k] # Absent
  /\ \A j, k \in Key : quids[j] = quids[k] /\ quids[j] # NoQuid => j = k
  /\ Active(quids) \subseteq issued

(* stage_livemap_identity_epoch: "A retired LiveMap QUID cannot identify     *)
(* another lifetime in the same owner epoch". Only restoring a same-epoch    *)
(* capture may bring one back.                                               *)
RetiredStaysRetired ==
  [][epoch' = epoch /\ ~(\E policy \in {"same-epoch"} : Restore(policy))
       => Active(quids') \cap (issued \ Active(quids)) = {}]_vars

(* Once every publication is done, each watch listener was last given the    *)
(* value its path has now, whatever other listeners wrote, restored or threw *)
(* in between.                                                               *)
WatchConverges == Idle => \A i \in 1..Len(Watches) : told[Watches[i]] = value[Watches[i]]

(* Once every publication is done the linked path of the target equals the   *)
(* source, although the link writes op.next and not the current value, unless*)
(* the target refused a write. A restore is not shown to links.              *)
LinkConverges == Idle /\ ~restored /\ "link" \notin cut => linked = value[LinkKey]

(* docs/livemap/api-livemap.md: the link "mirrors the same prefix". A linked *)
(* path that appears by a rename or a root replacement is sent to the target *)
(* as a replace of a path that does not exist there, and throws.             *)
LinkMirrors == Idle /\ ~restored => linked = value[LinkKey]

(* The same for a raw feed and for a store subscription, unless a listener's *)
(* exception cut a publication short or a restore went past them.            *)
FeedsConverge ==
  Idle /\ cut = {} /\ ~restored => heard = value[FeedKey] /\ subPrev = value[SubKey]

(* A replica fed by a commit observer is the map again once everything is    *)
(* published, including its identity overlay, if no commit was withheld from *)
(* the observers since the last snapshot.                                    *)
ReplicaFollows ==
  Idle /\ cut = {} => replica.value = value /\ replica.quids = quids /\ replica.rev = rev

(* Even when it missed commits, a replica at the map's revision is the map:  *)
(* a replay on the wrong base is refused.                                    *)
SameRevisionSameState ==
  Idle /\ replica.rev = rev => replica.value = value /\ replica.quids = quids

(* A staged transition is installed only on the state it was prepared from,  *)
(* under the schema it was validated against: not after a restore to the     *)
(* same revision, nor after a schema was attached.                           *)
SchemaHolds == schema => value \in Valid

StagedOnItsBase ==
  [][Accept => value = staged.base /\ quids = staged.baseQuids]_vars

(* apply() loses no update: what the caller read at that revision is what    *)
(* it replaces, unless a restore has reused revision numbers.                *)
ApplyLosesNothing ==
  [][(\E next \in Roots : Apply(next)) /\ ~restored => value = saved.value]_vars

(* livemap.feed.ts: "The event value is the current value at the subscriber's *)
(* path". The feeds of a commit that was queued when a restore happened read  *)
(* the root node the restore replaced.                                        *)
FeedEventIsCurrent ==
  [][EmitFeed /\ stage'.call => heard' = value[FeedKey]]_vars

(* Between calls the value, its ledger of identities and its schema agree.   *)
MapCoherent == MTypeOK /\ IdentityCoherent /\ SchemaHolds

(* Whatever listeners write while they are told, everyone who watches, links *)
(* or feeds on the map ends with what the map holds.                         *)
SubscribersConverge == WatchConverges /\ LinkConverges /\ FeedsConverge

(* A replica that replays what is published holds the authority's state.     *)
ReplicaConverges == ReplicaFollows /\ SameRevisionSameState

(* A staged value is applied only over the one it was staged on, apply()     *)
(* loses no write it was not told of, and a retired identity stays retired.  *)
StagingIsSafe == StagedOnItsBase /\ ApplyLosesNothing /\ RetiredStaysRetired
=============================================================================
