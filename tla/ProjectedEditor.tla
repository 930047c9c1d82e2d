---------------------------- MODULE ProjectedEditor ----------------------------
(***************************************************************************)
(* One projected LiveMap edited through its public calls: a batch collects *)
(* writes against a private candidate (make_batch_tx), the commit plans    *)
(* them all on the current value, edits the HSON graph in place, moves the *)
(* identity of one tracked container, and sends the operations to a        *)
(* replica that decodes and replays them.                                  *)
(***************************************************************************)
EXTENDS LiveMapSchema

CONSTANTS PVRoots,     \* root values to start from
          PVValues,    \* values to write
          PVSchemas,   \* schema roots that may govern the map
          PVItem,      \* the item array and object helpers write
          MaxEditCalls \* bound on the calls of a behaviour

VARIABLES carrier, \* the canonical value; its tracked container is marked
          graph,   \* the HSON graph the editor mutates
          track,   \* the overlay path of the tracked container, Err once retired
          replica, \* the value of a replica that replays every commit
          schema,  \* the attached schema's root node
          batch,   \* the open transaction: the writes so far and its candidate
          edits    \* calls made

pevars == <<carrier, graph, track, replica, schema, batch, edits>>

Closed == [open |-> FALSE, writes |-> <<>>, candidate |-> PVNone]

PEInit ==
  \E r \in PVRoots : \E p \in PathsOf(r) :
    /\ ValueAt(r, p).t # "atom"
    /\ carrier = MarkAt(r, p)
    /\ graph = ToRoot(r)
    /\ track = p
    /\ replica = r
    /\ schema \in {n \in PVSchemas : Valid(n, r)}
    /\ batch = Closed
    /\ edits = 0

(* plan_write_ops_with_identity: when nothing changes, an explicit equal    *)
(* replacement at or above an identity is transported, to retire it.        *)
PlanWithIdentity(c, writes, path) ==
  LET retiring == SelectSeq(writes, LAMBDA w : /\ w.kind = "replace" /\ path # Err
                                               /\ IsPathPrefix(w.path, path)
                                               /\ Same(ValueAt(c, w.path), w.val))
      Retires(plan, ws) ==
        IF plan.value = Err \/ plan.ops # <<>> THEN plan
        ELSE [plan EXCEPT !.ops = [i \in DOMAIN ws |-> Transported(c, c, ws[i])]]
  IN Retires(PlanWrites(c, writes), retiring)

(* The canonical value once the transported operations have been applied: a *)
(* write that is not transported leaves the nodes it found.                 *)
Installed(c, ops) ==
  FoldLeft(LAMBDA d, op : ApplyWrite(d, op.write), c, ops)

(* reconcile_livemap_projected_identity_overlay *)
Reconcile(path, ops) ==
  FoldLeft(LAMBDA p, op : IF p = Err THEN Err ELSE transform_path(p, op), path, ops)

CommitWrites(writes) ==
  \E plan \in { PlanWithIdentity(carrier, writes, track) } :
    IF plan.value = Err THEN UNCHANGED <<carrier, graph, track, replica>>
    ELSE IF ~CandidateAdmitted(schema, plan.value, writes)
    THEN UNCHANGED <<carrier, graph, track, replica>>
    ELSE /\ carrier' = Installed(carrier, plan.ops)
         /\ graph' = FoldLeft(EditGraph, graph, plan.ops)
         /\ track' = Reconcile(track, plan.ops)
         /\ replica' = ReplayWrites(replica, [i \in DOMAIN plan.ops |-> DecodeOp(EncodeOp(plan.ops[i]))]).value

(* A write call outside a transaction plans and commits at once. *)
DirectCall(writes) ==
  /\ ~batch.open
  /\ edits' = edits + 1
  /\ IF writes = Err THEN UNCHANGED <<carrier, graph, track, replica>> ELSE CommitWrites(writes)
  /\ UNCHANGED <<schema, batch>>

(* The same calls through the transaction facade see the writes staged so  *)
(* far; one that throws ends the transaction with nothing committed.        *)
BatchCall(writes) ==
  /\ batch.open
  /\ edits' = edits + 1
  /\ \E next \in { IF writes = Err THEN Err ELSE PlanWrites(batch.candidate, writes).value } :
       batch' = IF next = Err THEN Closed
                ELSE [batch EXCEPT !.writes = @ \o writes, !.candidate = next]
  /\ UNCHANGED <<carrier, graph, track, replica, schema>>

OpenBatch ==
  /\ ~batch.open
  /\ edits < MaxEditCalls - 1
  /\ batch' = [open |-> TRUE, writes |-> <<>>, candidate |-> carrier]
  /\ UNCHANGED <<carrier, graph, track, replica, schema, edits>>

CommitBatch ==
  /\ batch.open
  /\ batch.writes # <<>>
  /\ CommitWrites(batch.writes)
  /\ batch' = Closed
  /\ UNCHANGED <<schema, edits>>

Against == IF batch.open THEN batch.candidate ELSE carrier
Call(writes) == DirectCall(writes) \/ BatchCall(writes)

Missing(paths) == UNION {{Append(p, k) : k \in PVKey} : p \in paths}
Indices == -1..2

CallSet == \E p \in PathsOf(Against) \cup Missing(PathsOf(Against)), d \in PVValues : Call(SetWrites(Against, p, d))
CallReplace == \E p \in PathsOf(Against), d \in PVValues : Call(ReplaceWrites(Against, p, d))
CallReplaceEqual == \E p \in PathsOf(Against) : Call(ReplaceWrites(Against, p, Plain(ValueAt(Against, p))))
CallSetMany ==
  \E p \in PathsOf(Against), d \in {e \in PVValues : e.t = "obj"} : Call(SetManyWrites(Against, p, d))
CallDelete == \E p \in PathsOf(Against) : Call(DeleteWrites(Against, p))
CallSplice ==
  \E p \in PathsOf(Against), start \in Indices, count \in 0..2 :
    /\ IsArr(ValueAt(Against, p))
    /\ Call(SpliceWrites(Against, p, start, count, <<PVItem>>))
(* The handle helpers commit on their own; the transaction has no handles. *)
UsesIndex(name) == name \in {"insert", "remove", "replace", "splice", "move"}
UsesCount(name) == name \in {"splice", "move"}
CallArrayHelper ==
  \E p \in PathsOf(carrier), name \in ArrayCalls, i \in Indices, n \in 0..2 :
    /\ UsesIndex(name) \/ i = 0
    /\ UsesCount(name) \/ n = 0
    /\ IsArr(ValueAt(carrier, p))
    /\ DirectCall(ArrayWrites(carrier, p, name, i, n, PVItem))
CallObjectHelper ==
  \E p \in PathsOf(carrier), name \in ObjectCalls, from, to \in PVKey :
    /\ IsObj(ValueAt(carrier, p))
    /\ from # to \/ name = "renameKey"
    /\ DirectCall(ObjectWrites(carrier, p, name, from, to, PVItem))

PENext ==
  \/ /\ edits < MaxEditCalls
     /\ \/ CallSet \/ CallReplace \/ CallReplaceEqual \/ CallSetMany \/ CallDelete \/ CallSplice
        \/ CallArrayHelper \/ CallObjectHelper
  \/ OpenBatch \/ CommitBatch

-----------------------------------------------------------------------------
(* The graph the editor mutated is node for node the canonical graph of the *)
(* planned value: object wrappers, array wrappers and their index metadata. *)
EditorMatchesPlan == carrier # PVNone => graph = ToRoot(carrier)

(* The sparse identity overlay, moved by path arithmetic alone, points at  *)
(* the container that was tracked, and drops it exactly when it is gone.    *)
IdentityFollowsNode == carrier # PVNone => MarkedPaths(carrier) = {track} \ {Err}

(* A replica that gets every commit through the codec replays it without a *)
(* rejection and holds the same value.                                     *)
ReplicaReplays == carrier # PVNone => Same(replica, carrier)

(* Validating only the written paths keeps the whole root valid under the   *)
(* attached schema, whatever is written through whichever call.             *)
LocalChecksKeepRootValid == carrier # PVNone => Valid(schema, carrier)

(* A transaction whose completed candidate satisfies the schema commits.    *)
(* The code does not keep this: see the README.                             *)
ValidCandidateCommits ==
  [][/\ batch.open /\ batch.writes # <<>> /\ ~batch'.open /\ edits' = edits
     /\ Valid(schema, batch.candidate)
     => Same(carrier', batch.candidate)]_pevars

(* Editing in place, its recorded plan and a replica of that plan agree, on  *)
(* values, identities and validity.                                          *)
EditorExact == EditorMatchesPlan /\ IdentityFollowsNode /\ ReplicaReplays /\ LocalChecksKeepRootValid
=============================================================================
