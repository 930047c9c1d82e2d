---------------------------- MODULE LiveMapDocument ----------------------------
(***************************************************************************)
(* A document LiveMap: its root, identity overlay, revision and ledger of  *)
(* issued QUIDs, the queue of publications a write makes, and a replica    *)
(* that replays the commits it is shown.                                   *)
(*                                                                         *)
(* Writes are synchronous.  What is concurrent is re-entrancy: a watch or  *)
(* an observer that is being shown a commit may write, and its commit is   *)
(* queued behind the one being shown while the document has already moved. *)
(*                                                                         *)
(*   doc        [root, overlay, rev, issued, captures], the captures being  *)
(*              what a caller may have captured in this epoch              *)
(*   pubs       the publications not finished; the first is being shown    *)
(*   stage      "idle", or who is being shown the first publication:       *)
(*              "early" (watches, observers registered before Reflect) or  *)
(*              "late" (observers registered after it)                     *)
(*   replica    a document that replays what a late observer is shown      *)
(*   calls      writes so far, bounded by MaxDocCalls                      *)
(***************************************************************************)
EXTENDS LiveTreeGraph

CONSTANTS DocStarts,     \* first roots
          DocRequests,   \* graph operations a caller may ask for
          DocInstalls,   \* [root, rev] of elsewhere a caller may install or restore
          DocSchemas,    \* the schema attached to a root of each mode
          LastRequests,  \* those of them the last write of a behaviour may make
          MaxDocCalls

VARIABLES doc, pubs, stage, replica, calls

docVars == <<doc, pubs, stage, replica, calls>>

\* The mode of the first root: an edit or an installed root may not change it.
DocMode == classify_live_root_mode(doc.root)
DocOf(root, rev) ==
  LET Over(overlay) ==
        [root |-> root, overlay |-> overlay, rev |-> rev, issued |-> OverlayQuids(overlay),
         captures |-> {[root |-> root, rev |-> rev]}]
  IN Over(build_overlay(root, classify_live_root_mode(root)))

DocValid(root) == validate_document_schema_root(DocSchemas[DocMode], root, DocMode)

-----------------------------------------------------------------------------
\* What publishCommitWithWatch and publishSnapshotWithWatch capture.
Commit(op, effects, prevRev, next, continuity) ==
  [kind |-> "commit", op |-> op, effects |-> effects, prevRev |-> prevRev, rev |-> next.rev,
   root |-> next.root, continuity |-> continuity, reserved |-> 0]
Snapshot(next, continuity) ==
  [Commit(GraphOp("none", <<>>), {}, next.rev, next, continuity) EXCEPT !.kind = "snapshot"]

\* applyMutation on the candidate of one graph operation.
applyMutation(d, op) ==
  LET Unchanged(ok) == [ok |-> ok, doc |-> d, pub |-> <<>>]
      Committed(candidate, next) ==
        [ok |-> TRUE, doc |-> next,
         pub |-> <<Commit(candidate.op, candidate.effects, d.rev, next, "same-epoch")>>]
      Admitted(candidate, ledger) ==
        IF ~candidate.ok THEN Unchanged(FALSE)
        ELSE IF ~DocValid(candidate.root) \/ ~ledger.ok THEN Unchanged(FALSE)
        ELSE IF candidate.root = d.root THEN Unchanged(TRUE)
        ELSE Committed(candidate, [root |-> candidate.root, overlay |-> candidate.overlay,
                                   rev |-> d.rev + 1, issued |-> ledger.issued,
                                   captures |-> d.captures \union {[root |-> candidate.root, rev |-> d.rev + 1]}])
      Judged(candidate) == Admitted(candidate, StagedLedger(d, candidate.overlay))
  IN Judged(Prepared(d.root, DocMode, d.overlay, Request(op, d.overlay)))

\* validate_livemap_document_admission: an epoch goes on only with a capture
\* the document itself made in it; its QUIDs are in the ledger, which is kept
\* (retain_livemap_identity_epoch).  Anything else begins a new epoch.
Admits(d, root, continuity) == continuity = "same-epoch" => \E c \in d.captures : c.root = root

InstalledLedger(d, overlay, continuity) ==
  IF continuity = "new-epoch" THEN OverlayQuids(overlay) ELSE d.issued

\* prepareInstall and the check of the schema.
Installable(d, root, continuity) ==
  Admits(d, root, continuity) /\ classify_live_root_mode(root) = DocMode /\ DocValid(root)

\* The document with a whole root in its place.
Replaced(d, root, rev, continuity) ==
  LET here == {[root |-> root, rev |-> rev]}
      Over(overlay) ==
        [root |-> root, overlay |-> overlay, rev |-> rev, issued |-> InstalledLedger(d, overlay, continuity),
         captures |-> IF continuity = "new-epoch" THEN here ELSE d.captures \union here]
  IN Over(build_overlay(root, DocMode))

\* apply: install a whole root.
Installed(d, root, continuity) ==
  LET Committed(next) ==
        [ok |-> TRUE, doc |-> next,
         pub |-> <<Commit([GraphOp("replace-root", <<>>) EXCEPT !.content = root],
                          replace_overlay_effects(d.overlay, next.overlay), d.rev, next, continuity)>>]
  IN IF ~Installable(d, root, continuity) THEN [ok |-> FALSE, doc |-> d, pub |-> <<>>]
     ELSE IF root = d.root THEN [ok |-> TRUE, doc |-> d, pub |-> <<>>]
     ELSE Committed(Replaced(d, root, d.rev + 1, continuity))

\* restore: a root with a revision of its own, always published.
Restored(d, root, rev, continuity) ==
  LET Published(next) == [ok |-> TRUE, doc |-> next, pub |-> <<Snapshot(next, continuity)>>]
  IN IF ~Installable(d, root, continuity) THEN [ok |-> FALSE, doc |-> d, pub |-> <<>>]
     ELSE Published(Replaced(d, root, rev, continuity))

\* enqueuePublication: a nested publication waits for its turn.
Publish(result) ==
  /\ doc' = result.doc
  /\ pubs' = pubs \o result.pub
  /\ stage' = IF stage = "idle" /\ result.pub # <<>> THEN "early" ELSE stage

Write(result) ==
  /\ calls < MaxDocCalls
  /\ calls' = calls + 1
  /\ Publish(result)
  /\ UNCHANGED replica

-----------------------------------------------------------------------------
\* applyReplay on the replica, and the restore a snapshot makes there.
ReplicaAfter(r, pub) ==
  LET stuck == [r EXCEPT !.stuck = TRUE]
      Whole(overlay) == [root |-> pub.root, overlay |-> overlay, rev |-> pub.rev,
                         issued |-> OverlayQuids(overlay), stuck |-> FALSE]
      Admitted(plain, ledger) ==
        IF ~plain.ok THEN stuck
        ELSE IF ~DocValid(plain.root) \/ ~ledger.ok THEN stuck
        ELSE [root |-> plain.root, overlay |-> plain.overlay, rev |-> pub.rev,
              issued |-> ledger.issued, stuck |-> FALSE]
      Replayed(plain) == Admitted(plain, StagedLedger(r, plain.overlay))
  IN CASE r.stuck -> r
       [] pub.kind = "commit" /\ pub.prevRev # r.rev -> stuck
       [] pub.kind = "snapshot" \/ pub.op.op = "replace-root" -> Whole(build_overlay(pub.root, DocMode))
       [] OTHER -> Replayed(Prepared(r.root, DocMode, r.overlay, pub.op))

\* The publication has been shown to everyone: the next one, if there is one.
Finish ==
  /\ stage = "late"
  /\ replica' = ReplicaAfter(replica, Head(pubs))
  /\ pubs' = Tail(pubs)
  /\ stage' = IF Len(pubs) = 1 THEN "idle" ELSE "early"
  /\ UNCHANGED <<doc, calls>>

DocInit ==
  \E start \in DocStarts :
    LET first == DocOf(start, 0)
    IN /\ doc = first
       /\ pubs = <<>>
       /\ stage = "idle"
       /\ replica = [root |-> start, overlay |-> first.overlay, rev |-> 0, issued |-> first.issued,
                     stuck |-> FALSE]
       /\ calls = 0

-----------------------------------------------------------------------------
\* The overlay kept by path arithmetic is the one a walk of the root finds,
\* whatever was inserted, removed, moved or replaced before.
OverlayIsExact ==
  /\ doc.overlay = build_overlay(doc.root, DocMode)
  /\ OverlayOK(doc.overlay)
  /\ OverlayQuids(doc.overlay) \subseteq doc.issued

\* A replica that is shown every publication never refuses one, and agrees
\* with the document whenever nothing is being published.
ReplicaAgrees ==
  /\ ~replica.stuck
  /\ stage = "idle" => replica.root = doc.root /\ replica.overlay = doc.overlay
                         /\ replica.rev = doc.rev

\* Within an epoch, a QUID that left the document never names content again.
RetiredQuidStaysRetired ==
  [][\A q \in doc.issued \ OverlayQuids(doc.overlay) :
       q \in OverlayQuids(doc'.overlay)
         => pubs' # pubs /\ pubs'[Len(pubs')].op.op \in {"replace-root", "none"}]_docVars

\* Logical paths and a location's edits: a location edit changes the items of
\* its container and nothing else, wherever the elem carriers are.  An edit
\* that leaves a fragment one element is refused: the root would be an
\* element document.  Tried on every document that two more calls may follow.
RECURSIVE LogicalPaths(_, _)
LogicalPaths(items, path) ==
  {path} \union UNION { LET here == Append(path, i - 1)
                        IN IF Ordinary(items[i]) THEN LogicalPaths(Content(items[i]), here) ELSE {}
                        : i \in DOMAIN items }
TopItems(root, mode) ==
  IF EmptyFragment(root) THEN <<>>
  ELSE IF mode = "fragment" THEN root.kids[1].kids ELSE Content(root.kids[1].kids[1])
LocationItems(root, path) ==
  IF path = <<>> THEN TopItems(root, DocMode)
  ELSE Content(resolve_document_path(root, DocMode, Physical(root, DocMode, path)))

LocationEditsTheItems ==
  stage = "idle" /\ calls < MaxDocCalls - 1 => \A path \in LogicalPaths(TopItems(doc.root, DocMode), <<>>) :
    LET items == LocationItems(doc.root, path)
        new == LeafNode("str", "n")
        gives(op, after) ==
          LET result == Prepared(doc.root, DocMode, doc.overlay, op)
              alone == DocMode = "fragment" /\ path = <<>> /\ Len(after) = 1 /\ Ordinary(after[1])
          IN IF alone THEN ~result.ok ELSE result.ok /\ LocationItems(result.root, path) = after
    IN /\ \A i \in 0..Len(items) :
            gives(insert_document_location(doc.root, DocMode, path, i, new), InsertAt(items, i + 1, new))
       /\ \A i \in 0..(Len(items) - 1) :
            /\ gives(delete_document_location(doc.root, DocMode, Append(path, i)), RemoveAt(items, i + 1))
            /\ gives(replace_document_location(doc.root, DocMode, Append(path, i), new),
                     [items EXCEPT ![i + 1] = new])
            /\ \A j \in 0..(Len(items) - 1) :
                 gives(move_document_location(doc.root, DocMode, path, i, j),
                       InsertAt(RemoveAt(items, i + 1), j + 1, items[i + 1]))

\* Identities stay where their nodes went, edits at a location edit the items
\* written there, and a replica of the publications is the document.
DocumentExact == OverlayIsExact /\ LocationEditsTheItems /\ ReplicaAgrees
=============================================================================
