--------------------------- MODULE ReflectCollection ---------------------------
(***************************************************************************)
(* Reflect: an array of a LiveMap kept as the keyed branches of a LiveTree *)
(* host (CollectionReflector).                                             *)
(*                                                                         *)
(* Rendering and updating a branch is user code, so an update of the       *)
(* collection is a frame that stops at every hook.  A hook returns, throws,*)
(* writes to the source or disposes the reflector.  What a hook writes     *)
(* while a commit is being published is published later; what it writes in *)
(* an update that nobody's commit caused is published at once, and the     *)
(* reflector is entered a second time before the first update is over.     *)
(*                                                                         *)
(*   arrays, crev per source map, its array and its revision              *)
(*   cpubs, cat    the publications of the subscribed map, and which       *)
(*                 listeners have seen the first: those before the         *)
(*                 reflector ("early") or the reflector too ("late")       *)
(*   coll          [status, src, subscribed, records, last, why]           *)
(*   recs, host    the records ever made, and the host's children          *)
(*   frames        the updates on the stack                                *)
(***************************************************************************)
EXTENDS Integers, Sequences, FiniteSets, SequencesExt

CONSTANTS ItemKeys, ItemVals, \* what an item's key and its content may be
          FirstItems,         \* the arrays the two source maps start with
          MaxItems,           \* bound: length of an array
          MaxCollCalls        \* bound: calls, and what hooks do but return

\* A constructor that meets one key twice throws before there is a reflector.
CollectionAssumption ==
  /\ ItemVals # {}
  /\ FirstItems \in [1..2 -> Seq([key : ItemKeys, val : ItemVals])]
  /\ IsInjective([i \in DOMAIN FirstItems[1] |-> FirstItems[1][i].key])
ASSUME CollectionAssumption

VARIABLES arrays, crev, cpubs, cat, coll, recs, host, frames, collCalls

collVars == <<arrays, crev, cpubs, cat, coll, recs, host, frames, collCalls>>

NoItem == [key |-> "", val |-> ""]
ItemAt(s, i) == IF i \in DOMAIN arrays[s] THEN arrays[s][i] ELSE NoItem
KeysOf(array) == [i \in DOMAIN array |-> array[i].key]

-----------------------------------------------------------------------------
\* Commits of the source map.
Edit(kind, at, removed, inserted) ==
  [kind |-> kind, at |-> at, removed |-> removed, inserted |-> inserted]
Spliced(array, e) ==
  SubSeq(array, 1, e.at - 1) \o e.inserted \o SubSeq(array, e.at + e.removed, Len(array))

\* What a caller may write: one item in or out or over another, the fields of
\* one item, the keys of two in one commit, or the whole array.
Splices(array) ==
  { Edit("splice", at, removed, inserted) :
      at \in 1..(Len(array) + 1), removed \in 0..1,
      inserted \in {<<>>} \union { <<[key |-> k, val |-> CHOOSE v \in ItemVals : TRUE]>> : k \in ItemKeys } }
Nested(i) == Edit("nested", i, 0, <<>>)
ArrayCommits(array) ==
  { [ops |-> <<e>>, next |-> Spliced(array, e)] :
      e \in { x \in Splices(array) : x.at + x.removed - 1 <= Len(array) /\ x.removed + Len(x.inserted) > 0 } }
  \union { [ops |-> <<Nested(i)>>, next |-> [array EXCEPT ![i].key = k]] : i \in DOMAIN array, k \in ItemKeys }
  \union { [ops |-> <<Nested(i)>>, next |-> [array EXCEPT ![i].val = v]] : i \in DOMAIN array, v \in ItemVals }
  \union { [ops |-> <<Nested(p[1]), Nested(p[2])>>,
            next |-> [array EXCEPT ![p[1]].key = array[p[2]].key, ![p[2]].key = array[p[1]].key]] :
             p \in { pair \in (DOMAIN array) \X (DOMAIN array) : pair[1] < pair[2] } }
  \union { [ops |-> <<Edit("set", 1, 0, <<>>)>>, next |-> Reverse(array)] }
Written(s, c) ==
  /\ c.next # arrays[s] /\ Len(c.next) <= MaxItems
  /\ arrays' = [arrays EXCEPT ![s] = c.next]
  /\ crev' = [crev EXCEPT ![s] = @ + 1]
  /\ cpubs' = IF coll.subscribed /\ coll.src = s
              THEN Append(cpubs, [ops |-> c.ops, rev |-> crev[s] + 1, src |-> s]) ELSE cpubs
  /\ cat' = IF cpubs = <<>> THEN "early" ELSE cat

-----------------------------------------------------------------------------
\* An update on the stack.  within: it runs inside a publication.
Frame(kind, src, ops, rev) ==
  [kind |-> kind, src |-> src, ops |-> ops, rev |-> rev, within |-> cpubs # <<>>,
   desired |-> arrays[src], ids |-> <<>>, staged |-> {}, phase |-> "create", i |-> 1,
   old |-> coll.records, list |-> <<>>, prior |-> coll.status]
Top == Last(frames)
NoUpdate == frames = <<>>
Running == IF NoUpdate THEN FALSE ELSE Top.within \/ cpubs = <<>>
Waiting == IF NoUpdate THEN TRUE ELSE ~Top.within
SetTop(f) == frames' = [frames EXCEPT ![Len(frames)] = f]
Popped == SubSeq(frames, 1, Len(frames) - 1)

\* assertUniqueKeys.
UniqueKeys(keys) == IsInjective(keys)

\* shouldUpdateSurvivor.
shouldUpdateSurvivor(ops, ordinal) ==
  LET op == ops[1]
  IN IF Len(ops) # 1 \/ op.kind # "splice" THEN TRUE
     ELSE /\ ordinal >= op.at
          /\ ordinal < op.at + Len(op.inserted) \/ Len(op.inserted) # op.removed

-----------------------------------------------------------------------------
\* The members of a sequence that are in a set, in their order.
RetainedParts(seq, set) ==
  LET kept[k \in 0..Len(seq)] ==
        IF k = 0 THEN <<>>
        ELSE IF seq[k] \in set THEN Append(kept[k - 1], seq[k]) ELSE kept[k - 1]
  IN kept
Retained(seq, set) == RetainedParts(seq, set)[Len(seq)]

\* Branches: removeRecord and disposeRecords are terminal, and once only.
Dead(r, h, gone) ==
  [recs |-> [i \in DOMAIN r |-> IF i \in gone THEN [r[i] EXCEPT !.alive = FALSE] ELSE r[i]],
   host |-> Retained(h, { i \in Range(h) : i \in gone => ~r[i].alive })]

InsertHost(h, at, ids) ==
  LET k == IF at > Len(h) + 1 THEN Len(h) + 1 ELSE at
  IN SubSeq(h, 1, k - 1) \o ids \o SubSeq(h, k, Len(h))
Rollback(r, h, f) == Dead(r, h, f.staged)
Drop(seq, id) == Retained(seq, Range(seq) \ {id})

\* Mutant: a branch that moves is put where it goes and left where it was.
PlaceTwice(acc, ordinal, id) ==
  [ok |-> TRUE, host |-> InsertHost(acc.host, ordinal, <<id>>),
   order |-> InsertHost(Drop(acc.order, id), ordinal, <<id>>)]

\* A record that is not in its place is detached and appended there; a dead
\* branch cannot be appended.
Place(acc, ordinal, id) ==
  [ok |-> TRUE, host |-> InsertHost(Drop(acc.host, id), ordinal, <<id>>),
   order |-> InsertHost(Drop(acc.order, id), ordinal, <<id>>)]

\* The attachment of an update: what is gone is removed, what is new goes in
\* in runs, the others move when they are elsewhere.
PlaceOne(acc, ordinal, id, alive) ==
  LET here == ordinal \in DOMAIN acc.order /\ acc.order[ordinal] = id
  IN IF ~acc.ok \/ here THEN acc
     ELSE IF id \notin alive THEN [acc EXCEPT !.ok = FALSE]
     ELSE Place(acc, ordinal, id)
Placements(start, ids, alive) ==
  LET placed[k \in 0..Len(ids)] ==
        IF k = 0 THEN start ELSE PlaceOne(placed[k - 1], k, ids[k], alive)
  IN placed
Attached(f) ==
  LET retained == Range(f.ids)
      bare == Dead(recs, host, Range(coll.records) \ retained)
      start == [ok |-> TRUE, host |-> bare.host, order |-> Retained(coll.records, retained)]
      alive == { i \in DOMAIN recs : bare.recs[i].alive }
      done == Placements(start, f.ids, alive)[Len(f.ids)]
  IN [ok |-> done.ok, recs |-> bare.recs, host |-> done.host]

-----------------------------------------------------------------------------
\* The ends of an update.
\* onCommit, synchronize, replaceSource and the constructor, on success.
\* why keeps what may have disturbed the collection, for the properties.
Lasting == {"nested", "disposed in a hook", "foreign"}
Settle(f) ==
  LET base == [coll EXCEPT !.status = "ready",
                           !.last = CASE f.kind = "commit" -> f.rev
                                      [] f.kind = "initial" -> @
                                      [] OTHER -> crev[f.src]]
  IN CASE f.kind = "initial" -> [base EXCEPT !.subscribed = TRUE]
       [] f.kind = "replace" ->
            [base EXCEPT !.src = f.src, !.subscribed = TRUE,
                         !.why = @ \union (IF f.within THEN {"foreign"} ELSE {})]
       [] f.kind = "synchronize" /\ ~f.within -> [base EXCEPT !.why = @ \intersect Lasting]
       [] OTHER -> base

\* ... and when they throw.  A replacement that had begun to update fails the
\* reflector; one that had not leaves it as it was.  A constructor that
\* throws leaves nothing behind.
Fails(f, cause) ==
  LET failed == [coll EXCEPT !.status = "failed", !.why = @ \union {cause}]
  IN CASE f.kind = "initial" -> [coll EXCEPT !.status = "disposed"]
       [] f.kind = "replace" /\ f.phase = "create" /\ coll.status # "updating" ->
            IF coll.status = "failed" THEN coll ELSE [coll EXCEPT !.status = f.prior]
       [] OTHER -> failed

\* The hooks of a frame: creation of the items without a record, then the
\* update of those that have one, or the updates of a nested commit.
Existing(f, i) == { id \in Range(f.old) : recs[id].key = f.desired[i].key }
WantsUpdate(f, i) ==
  f.ids[i] \notin f.staged /\ (f.kind = "commit" => shouldUpdateSurvivor(f.ops, i))
Length(f) == IF f.phase = "nested" THEN Len(f.list) ELSE Len(f.desired)
Over(f) == f.i > Length(f)

\* The update reads the collection; duplicates fail it before anything.
Begin(f) ==
  IF UniqueKeys(KeysOf(f.desired)) THEN
    /\ frames' = Append(frames, f)
    /\ UNCHANGED <<recs, host, coll>>
  ELSE
    /\ coll' = Fails(f, "duplicate key")
    /\ UNCHANGED <<recs, host, frames>>

\* An item that has a record keeps it.
Reuse ==
  /\ Running /\ Top.phase = "create" /\ ~Over(Top) /\ Existing(Top, Top.i) # {}
  /\ SetTop([Top EXCEPT !.ids = Append(@, CHOOSE id \in Existing(Top, Top.i) : TRUE), !.i = @ + 1])
  /\ UNCHANGED <<arrays, crev, cpubs, cat, coll, recs, host, collCalls>>

\* The renderer returns a detached branch, showing what the handle reads now.
Render ==
  /\ Running /\ Top.phase = "create" /\ ~Over(Top) /\ Existing(Top, Top.i) = {}
  /\ recs' = Append(recs, [key |-> Top.desired[Top.i].key, shown |-> ItemAt(Top.src, Top.i).val, alive |-> TRUE])
  /\ SetTop([Top EXCEPT !.ids = Append(@, Len(recs) + 1), !.staged = @ \union {Len(recs) + 1}, !.i = @ + 1])
  /\ UNCHANGED <<arrays, crev, cpubs, cat, coll, host, collCalls>>

BeginUpdates ==
  /\ Running /\ Top.phase = "create" /\ Over(Top)
  /\ SetTop([Top EXCEPT !.phase = "update", !.i = 1])
  /\ coll' = [coll EXCEPT !.status = "updating"]
  /\ UNCHANGED <<arrays, crev, cpubs, cat, recs, host, collCalls>>

\* updateRecord: the hook shows what its handle reads now.
Subject(f) == IF f.phase = "nested" THEN f.list[f.i] ELSE <<f.i, f.ids[f.i]>>
AtHook ==
  /\ Running /\ ~Over(Top)
  /\ CASE Top.phase = "create" -> Existing(Top, Top.i) = {}
       [] Top.phase = "update" -> WantsUpdate(Top, Top.i)
       [] OTHER -> TRUE
Update ==
  /\ AtHook /\ Top.phase # "create"
  /\ recs' = [recs EXCEPT ![Subject(Top)[2]].shown = ItemAt(Top.src, Subject(Top)[1]).val]
  /\ SetTop([Top EXCEPT !.i = @ + 1])
  /\ UNCHANGED <<arrays, crev, cpubs, cat, coll, host, collCalls>>
PassOver ==
  /\ Running /\ Top.phase = "update" /\ ~Over(Top) /\ ~WantsUpdate(Top, Top.i)
  /\ SetTop([Top EXCEPT !.i = @ + 1])
  /\ UNCHANGED <<arrays, crev, cpubs, cat, coll, recs, host, collCalls>>

Attach ==
  /\ Running /\ Over(Top) /\ Top.phase = "update"
  /\ LET done == Attached(Top)
         gone == Rollback(done.recs, done.host, Top)
     IN IF done.ok
        THEN /\ coll' = [Settle(Top) EXCEPT !.records = Top.ids]
             /\ recs' = done.recs /\ host' = done.host
        ELSE /\ coll' = Fails(Top, "dead branch")
             /\ recs' = gone.recs /\ host' = gone.host
  /\ frames' = Popped
  /\ UNCHANGED <<arrays, crev, cpubs, cat, collCalls>>

EndNested ==
  /\ Running /\ Over(Top) /\ Top.phase = "nested"
  /\ coll' = Settle(Top)
  /\ frames' = Popped
  /\ UNCHANGED <<arrays, crev, cpubs, cat, recs, host, collCalls>>

HookThrows ==
  /\ AtHook /\ collCalls < MaxCollCalls /\ collCalls' = collCalls + 1
  /\ LET gone == Rollback(recs, host, Top)
     IN coll' = Fails(Top, "hook threw") /\ recs' = gone.recs /\ host' = gone.host
  /\ frames' = Popped
  /\ UNCHANGED <<arrays, crev, cpubs, cat>>

\* A hook writes: missed when the reflector does not listen yet, queued
\* inside a publication, and otherwise published before the hook returns.
\* Writes to one map while the other is being published are left out.
HookWrites ==
  /\ AtHook /\ collCalls < MaxCollCalls /\ collCalls' = collCalls + 1
  /\ cpubs # <<>> => cpubs[1].src = Top.src
  /\ \E c \in ArrayCommits(arrays[Top.src]) : Written(Top.src, c)
  /\ coll' = [coll EXCEPT !.why = @ \union {IF Top.kind = "commit" THEN "re-entrant" ELSE "nested"}]
  /\ UNCHANGED <<recs, host, frames>>

-----------------------------------------------------------------------------
\* A call from outside, from a listener that runs before the reflector or
\* after it, or from a hook.
FromOutside == Waiting /\ (NoUpdate \/ cpubs # <<>>) /\ collCalls < MaxCollCalls /\ collCalls' = collCalls + 1
Usable == coll.status \notin {"initializing", "disposed"}

CommitArray ==
  /\ FromOutside /\ Usable
  /\ \E s \in DOMAIN arrays :
       /\ cpubs # <<>> => s = cpubs[1].src
       /\ \E c \in ArrayCommits(arrays[s]) : Written(s, c)
  /\ coll' = [coll EXCEPT !.why = @ \union (IF cpubs = <<>> THEN {} ELSE {"re-entrant"})]
  /\ UNCHANGED <<recs, host, frames>>

\* synchronize() is how a failed reflector recovers.
Synchronize ==
  /\ FromOutside /\ Usable
  /\ Begin(Frame("synchronize", coll.src, <<>>, 0))
  /\ UNCHANGED <<arrays, crev, cpubs, cat>>

ReplaceSource(s) ==
  /\ FromOutside /\ Usable /\ s # coll.src
  /\ Begin(Frame("replace", s, <<>>, 0))
  /\ UNCHANGED <<arrays, crev, cpubs, cat>>

Disposed ==
  LET gone == Dead(recs, host, Range(coll.records))
  IN /\ recs' = gone.recs /\ host' = gone.host
     /\ coll' = [coll EXCEPT !.status = "disposed", !.subscribed = FALSE, !.records = <<>>,
                             !.why = IF NoUpdate THEN @ ELSE @ \union {"disposed in a hook"}]
Dispose ==
  /\ FromOutside /\ Usable /\ Disposed
  /\ UNCHANGED <<arrays, crev, cpubs, cat, frames>>
HookDisposes ==
  /\ AtHook /\ Usable /\ collCalls < MaxCollCalls /\ collCalls' = collCalls + 1 /\ Disposed
  /\ UNCHANGED <<arrays, crev, cpubs, cat, frames>>

-----------------------------------------------------------------------------
\* applyNested reads the items the commit names, and updates their records if
\* the keys are the ones they had.
NestedAt(ops) == { ops[i].at : i \in DOMAIN ops }
NextKeys(at) ==
  [i \in 1..Max({Len(coll.records)} \union at) |->
     CASE i \in at -> ItemAt(coll.src, i).key
       [] i \notin at /\ i <= Len(coll.records) -> recs[coll.records[i]].key
       [] OTHER -> ""]
NestedFrame(pub) ==
  [Frame("commit", coll.src, pub.ops, pub.rev) EXCEPT
     !.phase = "nested",
     !.list = [i \in DOMAIN pub.ops |-> <<pub.ops[i].at, coll.records[pub.ops[i].at]>>]]

OnNested(pub) ==
  LET at == NestedAt(pub.ops)
      cause == IF UniqueKeys(KeysOf(arrays[coll.src])) THEN "mismatch" ELSE "duplicate key"
  IN IF \E i \in at : i \notin DOMAIN arrays[coll.src]
     THEN coll' = Fails([kind |-> "commit"], cause) /\ UNCHANGED <<frames, recs, host>>
     ELSE IF ~UniqueKeys(NextKeys(at))
     THEN coll' = Fails([kind |-> "commit"], cause) /\ UNCHANGED <<frames, recs, host>>
     ELSE IF \E i \in at : i \notin DOMAIN coll.records \/ recs[coll.records[i]].key # ItemAt(coll.src, i).key
     THEN Begin(Frame("commit", coll.src, pub.ops, pub.rev))
     ELSE /\ frames' = Append(frames, NestedFrame(pub))
          /\ coll' = [coll EXCEPT !.status = "updating"]
          /\ UNCHANGED <<recs, host>>

\* onCommit.  A listener that was there when the publication began is called
\* even if it has been removed since.
Delivering == cpubs # <<>> /\ Waiting
OnCommit ==
  /\ Delivering /\ cat = "early" /\ cat' = "late"
  /\ IF coll.status \in {"disposed", "failed"} THEN UNCHANGED <<coll, recs, host, frames>>
     ELSE IF \A i \in DOMAIN cpubs[1].ops : cpubs[1].ops[i].kind = "nested" THEN OnNested(cpubs[1])
     ELSE Begin(Frame("commit", coll.src, cpubs[1].ops, cpubs[1].rev))
  /\ UNCHANGED <<arrays, crev, cpubs, collCalls>>

EndDelivery ==
  /\ Delivering /\ cat = "late"
  /\ cpubs' = Retained(Tail(cpubs), { pub \in Range(cpubs) : pub.src = coll.src }) /\ cat' = "early"
  /\ UNCHANGED <<arrays, crev, coll, recs, host, frames, collCalls>>

-----------------------------------------------------------------------------
\* The constructor reads the source and renders it before it listens.
CollectionInit ==
  /\ arrays = FirstItems /\ crev = <<0, 0>> /\ cpubs = <<>> /\ cat = "early"
  /\ coll = [status |-> "initializing", src |-> 1, subscribed |-> FALSE, records |-> <<>>,
             last |-> 0, why |-> {}]
  /\ recs = <<>> /\ host = <<>> /\ collCalls = 0
  /\ frames = <<Frame("initial", 1, <<>>, 0)>>

CollectionNext ==
  \/ Reuse \/ Render \/ BeginUpdates \/ Update \/ PassOver \/ Attach \/ EndNested
  \/ HookThrows \/ HookWrites \/ HookDisposes
  \/ CommitArray \/ Synchronize \/ \E s \in DOMAIN arrays : ReplaceSource(s)
  \/ Dispose
  \/ OnCommit \/ EndDelivery

-----------------------------------------------------------------------------
Undisturbed == coll.why \intersect {"nested", "disposed in a hook"} = {}
AtRest == NoUpdate /\ cpubs = <<>> /\ Undisturbed

\* At rest a ready collection shows its source: a branch for every item, in
\* order, with what the item holds now, whoever wrote it and when.
CollectionMirrors ==
  AtRest /\ coll.status = "ready" =>
    /\ [i \in DOMAIN coll.records |-> [key |-> recs[coll.records[i]].key, val |-> recs[coll.records[i]].shown]]
         = arrays[coll.src]
    /\ "foreign" \notin coll.why => coll.last = crev[coll.src]

\* Between updates the host holds the branches of the records, each once and
\* alive, and no other branch is: after a failure too.
HostHoldsTheRecords ==
  NoUpdate /\ Undisturbed =>
    /\ host = coll.records
    /\ { i \in DOMAIN recs : recs[i].alive } = Range(coll.records)

\* The reflector fails because a hook threw or the source has one key twice,
\* or after a write made while a commit was being published.
FailsForCause ==
  coll.status = "failed" /\ Undisturbed =>
    coll.why \intersect {"hook threw", "duplicate key", "re-entrant", "foreign"} # {}

\* An item that stays keeps its branch.
ItemKeepsBranch ==
  [][Undisturbed /\ Undisturbed' =>
       \A i \in Range(coll.records), j \in Range(coll'.records) :
         recs'[i].key = recs'[j].key => i = j]_collVars

\* The branches under the host are those of the array, and a collection that
\* fails was given a reason to.
CollectionExact == CollectionMirrors /\ HostHoldsTheRecords /\ FailsForCause
================================================================================
