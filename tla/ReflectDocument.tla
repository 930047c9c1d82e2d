---------------------------- MODULE ReflectDocument ----------------------------
(***************************************************************************)
(* Reflect: one element document projected into a LiveTree graph and, once *)
(* it is mounted, into the DOM.  The binding is an observer of the         *)
(* document; the mutations of the bound tree are delegated to it.          *)
(*                                                                         *)
(*   refl    [status, rev, root, regs, epoch, mounted, resv, why]          *)
(*     regs     the correspondence, a set of [path, node, quid]            *)
(*     epoch    runtimeEpochQuids, the QUIDs registered in this epoch      *)
(*     mounted  mountedElements, node -> element once validated            *)
(*     resv     reservations of identity, [node, quid, path, applied]      *)
(*     why      what the model remembers of a failed binding's past: the   *)
(*              re-entrant writes, wrappings and stranded QUIDs that may   *)
(*              have caused it, and whether it was crossing to a new epoch *)
(*   heap    the world of LiveTreeGraph the projection lives in            *)
(***************************************************************************)
EXTENDS LiveMapDocument

CONSTANT DocQuids   \* what the document's allocator may return

VARIABLES refl, heap

reflVars == <<doc, pubs, stage, replica, calls, refl, heap>>

document_element_from_root(root) == root.kids[1].kids[1]
Page == Body :> [quid |-> NoQuid, attrs |-> {}, kids |-> <<>>]
Unbound == [status |-> "disposed", rev |-> 0, root |-> 0, regs |-> {}, epoch |-> {},
            mounted |-> NoMap, resv |-> <<>>, why |-> {}]

-----------------------------------------------------------------------------
\* Correspondence.
RECURSIVE NodeAtPath(_, _, _), Registered(_, _, _)

\* resolve_raw_node: the node a raw path reaches, 0 when it reaches none.
NodeAtPath(w, n, path) ==
  IF path = <<>> THEN n
  ELSE IF path[1] >= Len(w.node[n].kids) THEN 0
  ELSE NodeAtPath(w, w.node[n].kids[path[1] + 1], Tail(path))

Reg(path, node, quid) == [path |-> path, node |-> node, quid |-> quid]

\* walk: a registration for every ordinary element below n.
Registered(w, n, path) ==
  (IF Ordinary(w.node[n]) THEN {Reg(path, n, w.node[n].quid)} ELSE {})
    \union UNION { Registered(w, w.node[n].kids[i], Append(path, i - 1)) : i \in DOMAIN w.node[n].kids }

\* register: the node carries the QUID the overlay has now at its path, and
\* nothing else is registered there or for that QUID.
RegisterOK(regs, new, overlay) ==
  /\ \A r \in new : r.quid = quidAtPath(overlay, r.path)
  /\ \A a, b \in regs \union new : a # b => a.path # b.path /\ (a.quid = b.quid => a.quid = NoQuid)

\* validate_bound_registration and validate_registration.
ValidReg(w, r, reg) ==
  LET n == w.node[reg.node]
      e == n.el
  IN /\ NodeAtPath(w, r.root, reg.path) = reg.node
     /\ n.quid = reg.quid
     /\ reg.node \in DOMAIN r.mounted => e = r.mounted[reg.node]
     /\ e # 0 => LinkedNodes(w, e) = {reg.node} /\ w.dom[e].quid = reg.quid
AllValid(w, r) == \A reg \in r.regs : ValidReg(w, r, reg)

\* What validation remembers of the elements it saw.
Seen(w, r) ==
  LET linked == { reg.node : reg \in { x \in r.regs : w.node[x.node].el # 0 } }
  IN [r EXCEPT !.mounted = [n \in linked |-> w.node[n].el] @@ r.mounted]

-----------------------------------------------------------------------------
\* Plans.  A shadow is a node of the final tree: the number of the node it
\* reuses (0: a fresh one), what it becomes, and the node whose lineage a
\* fresh one takes over (0: none).
Shade(id, t, quid, kids, from) ==
  [id |-> id, tag |-> t.tag, quid |-> quid, attrs |-> t.attrs, val |-> t.val, index |-> t.index,
   kids |-> kids, from |-> from]
NoShade == Shade(0, Bad, NoQuid, <<>>, 0)

RECURSIVE ShadowOf(_, _, _), PlanContent(_, _, _), ShadowValue(_), ShadowNodes(_), Built(_, _)
RECURSIVE Claimants(_), Taken(_)

\* shadow_existing.
ShadowOf(w, n, quids) ==
  LET kids == w.node[n].kids
  IN Shade(n, w.node[n], Lookup(quids, n, NoQuid),
           [i \in DOMAIN kids |-> ShadowOf(w, kids[i], quids)], 0)

\* index_shadow_quids: every shadow of an existing tree that has a QUID.
Claimants(s) ==
  (IF s.quid = NoQuid THEN {} ELSE {s}) \union UNION { Claimants(s.kids[i]) : i \in DOMAIN s.kids }

\* Whether the active subject of a QUID can keep its node.
PlannedReuse(continuous, replacement) ==
  \E s \in continuous : s.tag = replacement.tag

\* plan_continuous_content, plan_compatible_subject, shadow_fresh_continuous.
PlanContent(current, replacement, subjects) ==
  LET quid == IF Ordinary(replacement) THEN replacement.quid ELSE NoQuid
      continuous == { s \in subjects : s.quid = quid }
      subject == CHOOSE s \in continuous : TRUE
      carried == current.id # 0 /\ ~Ordinary(current) /\ current.tag = replacement.tag
      kidsOver(prior) ==
        [i \in DOMAIN replacement.kids |->
          PlanContent(IF i \in DOMAIN prior.kids THEN prior.kids[i] ELSE NoShade,
                      replacement.kids[i], subjects)]
  IN CASE PlannedReuse(continuous, replacement) ->
            Shade(subject.id, replacement, quid, kidsOver(subject), 0)
       [] continuous # {} /\ ~PlannedReuse(continuous, replacement) ->
            Shade(0, replacement, quid, kidsOver(subject), subject.id)
       [] continuous = {} /\ carried -> Shade(current.id, replacement, NoQuid, kidsOver(current), 0)
       [] OTHER -> Shade(0, replacement, quid, kidsOver(current), 0)

ShadowValue(s) ==
  [tag |-> s.tag, quid |-> s.quid, attrs |-> s.attrs, val |-> s.val, index |-> s.index,
   kids |-> [i \in DOMAIN s.kids |-> ShadowValue(s.kids[i])]]

\* The existing nodes a plan keeps, in a sequence: one twice is a cycle.
ShadowNodes(s) ==
  (IF s.id = 0 THEN <<>> ELSE <<s.id>>)
    \o FlattenSeq([i \in DOMAIN s.kids |-> ShadowNodes(s.kids[i])])

\* Every <<quid, id, from>> of a plan.
Taken(s) ==
  (IF s.quid = NoQuid THEN {} ELSE {<<s.quid, s.id, s.from>>})
    \union UNION { Taken(s.kids[i]) : i \in DOMAIN s.kids }

RECURSIVE ShadowAt(_, _), PutShadow(_, _, _)
ShadowAt(s, path) ==
  IF path = <<>> THEN s
  ELSE IF path[1] >= Len(s.kids) THEN NoShade ELSE ShadowAt(s.kids[path[1] + 1], Tail(path))
PutShadow(s, path, new) ==
  IF path = <<>> THEN new
  ELSE [s EXCEPT !.kids[path[1] + 1] = PutShadow(@, Tail(path), new)]

\* plan_document_structural_transaction for one operation on a shadow: the
\* operations have been checked by the document, their indexes are in range.
Planned(s, op) ==
  LET at == ShadowAt(s, op.path)
      kids == at.kids
      here == op.index + 1
      subjects == Claimants(s)
      prior == IF here \in DOMAIN kids THEN kids[here] ELSE NoShade
      next == CASE op.op = "insert-content" ->
                     InsertAt(kids, here, PlanContent(NoShade, insertion_content(at, op.content), subjects))
                [] op.op = "remove-content" -> RemoveAt(kids, here)
                [] op.op = "move-content" -> InsertAt(RemoveAt(kids, here), op.to + 1, kids[here])
                [] op.op = "replace-content" ->
                     [kids EXCEPT ![here] = PlanContent(prior, insertion_content(at, op.content), subjects)]
  IN PutShadow(s, op.path, [at EXCEPT !.kids = next])

\* validate_incoming_quids and validate_final_quids: a QUID of the plan that
\* names another node of the runtime names one that the plan removes.
QuidsFree(w, taken, old, final) ==
  \A t \in taken :
    LET known == Lookup(w.q2n, t[1], 0)
    IN known # 0 /\ known # t[2] => known \in old /\ known \notin final

-----------------------------------------------------------------------------
\* The attributes of a node, and of its element when it has one.
WithAttrs(w, n, attrs) ==
  IF w.node[n].el = 0 THEN [w EXCEPT !.node[n].attrs = attrs]
  ELSE [w EXCEPT !.node[n].attrs = attrs, !.dom[w.node[n].el].attrs = attrs]

\* apply_shadow_node: the final tree is built from the leaves up; gives the
\* root of it, and which node took over the lineage of which.
Built(w, s) ==
  LET And(acc, r) ==
        [w |-> r.w, ids |-> Append(acc.ids, r.id), moves |-> acc.moves \union r.moves]
      Reused(below) ==
        [w |-> WithAttrs([below.w EXCEPT !.node[s.id].kids = below.ids, !.node[s.id].val = s.val],
                         s.id, s.attrs),
         id |-> s.id, moves |-> below.moves]
      Made(below, fresh) ==
        [w |-> [below.w EXCEPT !.node = @ @@ (fresh :> HeapNode(s, below.ids))], id |-> fresh,
         moves |-> below.moves \union (IF s.from = 0 THEN {} ELSE {<<s.quid, s.from, fresh>>})]
      Above(below) == IF s.id # 0 THEN Reused(below) ELSE Made(below, NextId(DOMAIN below.w.node))
  IN Above(FoldLeft(LAMBDA acc, k : And(acc, Built(acc.w, k)), [w |-> w, ids |-> <<>>, moves |-> {}], s.kids))

\* find_removed_roots in the tree before the plan.
RECURSIVE RemovedRoots(_, _, _)
RemovedRoots(w, n, final) ==
  IF n \notin final THEN {n}
  ELSE UNION { RemovedRoots(w, k, final) : k \in Range(w.node[n].kids) }

\* detach_retained_projection_descendants, prune_retained_graph_descendants,
\* release_subtree_ownership and dispose_node_deep of a removed root.
RemoveBranchOf(w, root, final) ==
  LET below == collect_subtree_nodes(w, root)
      kept == { w.node[n].el : n \in below \intersect final } \ {0}
      pruned == [RemoveEls(w, kept) EXCEPT !.node = [n \in DOMAIN @ |->
                   IF n \in below \ final THEN [@[n] EXCEPT !.kids = SelectSeq(@, LAMBDA k : k \notin final)]
                   ELSE @[n]]]
  IN dispose_node_deep(release_subtree_ownership(pruned, root), root)

\* reconcile_owner_dom: elements are kept, new ones are projected.
RECURSIVE FlattenDom(_, _)
FlattenDom(w, ids) ==
  FoldLeft(LAMBDA acc, n :
             LET r == acc.w.node[n]
             IN Shown(acc.items,
                      CASE r.tag \in Leaves -> [w |-> acc.w, items |-> <<<<"text", r.val>>>>]
                        [] ~Ordinary(r) -> FlattenDom(acc.w, r.kids)
                        [] r.tag \notin Leaves /\ Ordinary(r) /\ r.el # 0 ->
                             [w |-> acc.w, items |-> <<<<"el", r.el>>>>]
                        [] OTHER -> Project(acc.w, n, TRUE)),
           [w |-> w, items |-> <<>>], ids)

reconcile_owner_dom(w, owner) ==
  LET e == w.node[owner].el
      Filled(desired) == replaceChildren(desired.w, e, desired.items)
  IN IF e = 0 THEN w ELSE Filled(FlattenDom(w, w.node[owner].kids))

\* apply_document_structural_transaction: [ok, w].  Lineage transfers are
\* checked before anything changes; the final tree is admitted only after the
\* removed branches are gone, and a refusal leaves the tree half done.
AppliedPlan(w, root, plan, owners) ==
  LET final == Range(ShadowNodes(plan))
      Done(ok, result) == [ok |-> ok, w |-> result]
      Projected(known) == FoldSet(LAMBDA o, acc : reconcile_owner_dom(acc, o), known, owners)
      Pruned(gone) ==
        IF ~QuidGraphOK(gone, root) THEN Done(FALSE, gone)
        ELSE Done(TRUE, Projected(index_subtree_ownership(admit_preserving_absence(gone, root), root)))
      Moved(built) == FoldSet(LAMBDA m, acc : transfer_quid(acc, m[1], m[2], m[3]), built.w, built.moves)
      Checked(built) ==
        IF \E m \in built.moves : ~TransferOK(built.w, m[1], m[2], m[3]) THEN Done(FALSE, w)
        ELSE Pruned(FoldSet(LAMBDA n, acc : RemoveBranchOf(acc, n, final), Moved(built),
                            RemovedRoots(w, root, final)))
  IN Checked(Built(w, plan))

\* nearest_ordinary_owner of a raw path.
RECURSIVE OwnerAt(_, _, _)
OwnerAt(w, root, path) ==
  LET n == NodeAtPath(w, root, path)
  IN IF Ordinary(w.node[n]) THEN n ELSE OwnerAt(w, root, parent_document_path(path))

-----------------------------------------------------------------------------
\* What an observation does to the binding: [ok, w, r].  A binding that
\* fails stops observing; what it was doing stays half done.
Fine(w, r) == [ok |-> TRUE, w |-> w, r |-> r]
Broken(w, r) == [ok |-> FALSE, w |-> w, r |-> r]

QuidsOf(regs) == [n \in { x.node : x \in regs } |-> (CHOOSE x \in regs : x.node = n).quid]

\* Nodes and elements nothing refers to any more are forgotten.
Kept(w, root) == collect_subtree_nodes(w, root) \union Range(w.q2n) \union Range(w.pending)
Remembered(w, r) == [r EXCEPT !.mounted = Restrict(@, DOMAIN @ \intersect Kept(w, r.root))]
Collected(w, r) ==
  LET nodes == Kept(w, r.root)
      els == { w.node[n].el : n \in nodes } \union Range(Remembered(w, r).mounted) \union {Body}
  IN [w EXCEPT !.node = Restrict(@, nodes), !.dom = Restrict(@, els \ {0})]

\* consume_identity_effects: the effects account for the difference between
\* the correspondence and the overlay the document has by now.
EffectsHold(r, effects, overlay) ==
  LET known == { <<x.quid, x.path>> : x \in { y \in r.regs : y.quid # NoQuid } }
      before == { <<e.quid, e.from>> : e \in { x \in effects : x.kind # "introduced" } }
      after == { <<e.quid, e.to>> : e \in { x \in effects : x.kind # "retired" } }
      expected == (known \ before) \union after
      touched == { e.quid : e \in effects }
  IN /\ before \subseteq known
     /\ { e.quid : e \in { x \in effects : x.kind = "introduced" } }
          \intersect OverlayQuids(known \ before) = {}
     /\ Cardinality(expected) = Cardinality(overlay)
     /\ { e \in overlay : e[1] \in touched } = { e \in expected : e[1] \in touched }

\* reconcile_correspondence_incrementally for one operation.
Reconciled(w, r, op, overlay) ==
  LET effect == document_path_effect(op)
      after(x) == transform_document_path(x.path, effect)
      unchanged == { x \in r.regs : after(x) = x.path }
      moved == { Reg(after(x), x.node, w.node[x.node].quid) :
                   x \in { y \in r.regs : after(y) \notin {Retired, y.path} } }
      at == Append(op.path, op.index)
      new == IF op.op \in {"insert-content", "replace-content"} /\ NodeAtPath(w, r.root, at) # 0
             THEN Registered(w, NodeAtPath(w, r.root, at), at) ELSE {}
      fresh == moved \union new
  IN [ok |-> RegisterOK(unchanged, fresh, overlay),
      r |-> [r EXCEPT !.regs = unchanged \union fresh,
                      !.epoch = (@ \union { x.quid : x \in fresh }) \ {NoQuid}]]

\* rebuild_correspondence, or the first walk of a new tree.
Rebuilt(w, r, overlay) ==
  LET regs == Registered(w, r.root, <<>>)
  IN [ok |-> RegisterOK({}, regs, overlay),
      r |-> [r EXCEPT !.regs = regs, !.epoch = (@ \union { x.quid : x \in regs }) \ {NoQuid}]]

\* A plan is sound when no node is in it twice, it is the document that was
\* accepted, and its QUIDs are free.
PlanHolds(w, root, plan, taken, element) ==
  LET nodes == ShadowNodes(plan)
  IN /\ IsInjective(nodes)
     /\ ShadowValue(plan) = element
     /\ QuidsFree(w, taken, collect_subtree_nodes(w, root), Range(nodes))

\* The binding after the tree has changed: its new correspondence, if it holds.
Rebound(w, r, next, rev) ==
  IF ~next.ok \/ ~AllValid(w, next.r) THEN Broken(w, r)
  ELSE Fine(w, [Seen(w, next.r) EXCEPT !.rev = rev])

ObserveStructure(w, r, pub, overlay) ==
  LET plan == Planned(ShadowOf(w, r.root, QuidsOf(r.regs)), pub.op)
      owner == OwnerAt(w, r.root, pub.op.path)
      incoming == IF pub.op.op \in {"insert-content", "replace-content"}
                  THEN Taken(ShadowAt(plan, Append(pub.op.path, pub.op.index))) ELSE {}
      Applied(done) ==
        IF done.ok THEN Rebound(done.w, r, Reconciled(done.w, r, pub.op, overlay), pub.rev)
        ELSE Broken(done.w, r)
  IN IF \/ ~AllValid(w, r) \/ NodeAtPath(w, r.root, pub.op.path) = 0
        \/ ~PlanHolds(w, r.root, plan, incoming, document_element_from_root(pub.root))
     THEN Broken(w, r)
     ELSE Applied(AppliedPlan(w, r.root, plan, {owner}))

\* The claim of a reservation, and refresh_registration_at_path.
ObserveIdentity(w, r, pub, overlay) ==
  LET claim == r.resv[pub.reserved]
      ok == NodeAtPath(w, r.root, claim.path) = claim.node /\ Claimable(w, claim.node, claim.quid)
      old == { x \in r.regs : x.path = claim.path }
      new == {Reg(claim.path, claim.node, claim.quid)}
      Marked(done) ==
        IF ~RegisterOK(r.regs \ old, new, overlay) THEN Broken(done, r)
        ELSE Fine(done, [r EXCEPT !.regs = (@ \ old) \union new, !.epoch = @ \union {claim.quid},
                                  !.resv[pub.reserved].applied = TRUE, !.rev = pub.rev])
  IN IF pub.reserved = 0 THEN Broken(w, r)
     ELSE IF ~ok THEN Broken(w, r)
     ELSE Marked(ClaimQuid(w, claim.node, claim.quid))

ObserveAttrs(w, r, pub) ==
  LET reg == CHOOSE x \in r.regs : x.path = pub.op.path
      Set(done) == Fine(done, [Seen(done, r) EXCEPT !.rev = pub.rev])
  IN IF \A x \in r.regs : x.path # pub.op.path THEN Broken(w, r)
     ELSE IF ~ValidReg(w, r, reg) THEN Broken(w, r)
     ELSE Set(WithAttrs(w, reg.node, At(document_element_from_root(pub.root), pub.op.path).attrs))

\* reconstruct_new_epoch: the correspondence is given up, the old tree is
\* disposed, the QUIDs of its epoch become free, and the new tree takes its
\* place in the DOM.  A QUID of the epoch that something else holds stops it
\* there: a node below a carrier that was reused for another subject, or a
\* reservation under way.
ObserveNewEpoch(w, r, pub, overlay) ==
  LET element == document_element_from_root(pub.root)
      outgoing == collect_subtree_nodes(w, r.root)
      e == w.node[r.root].el
      parents == ParentEls(w, e)
      p == CHOOSE x \in parents : TRUE
      at == CHOOSE i \in DOMAIN w.dom[p].kids : w.dom[p].kids[i] = <<"el", e>>
      incoming == { c[1] : c \in Claims(element, <<>>) }
      bared == [r EXCEPT !.regs = {}]
      Stopped(known, left) == Broken(known, [left EXCEPT !.why = @ \union {"crossing"}])
      Placed(shown) ==
        IF parents = {} THEN shown.w ELSE InsertDom(shown.w, p, at - 1, shown.items)
      Bound(known, new) ==
        Rebound(IF e = 0 THEN known ELSE Placed(Project(known, new, TRUE)), [r EXCEPT !.root = new],
                Rebuilt(known, [r EXCEPT !.root = new, !.epoch = {}], overlay), pub.rev)
      Made(bare, new) ==
        IF ~QuidGraphOK(new.w, new.id) THEN Stopped(bare, bared)
        ELSE Bound(index_subtree_ownership(admit_preserving_absence(new.w, new.id), new.id), new.id)
      Cleared(bare) == Made(bare, Alloc(bare, element))
      Disposed(bare) ==
        IF ~EpochResettable(bare, r.epoch) THEN Stopped(bare, bared)
        ELSE Cleared(reset_livetree_quid_epoch(bare, r.epoch))
  IN IF ~AllValid(w, r) \/ ~EpochReplacementOK(w, incoming, outgoing, r.epoch) THEN Stopped(w, r)
     ELSE Disposed(dispose_node_deep(w, r.root))

\* converge_compatible_root.
ObserveSameEpoch(w, r, pub, overlay) ==
  LET element == document_element_from_root(pub.root)
      Plan(s, subjects) ==
        [s EXCEPT !.attrs = element.attrs,
                  !.kids = [i \in DOMAIN element.kids |->
                    PlanContent(IF i \in DOMAIN s.kids THEN s.kids[i] ELSE NoShade,
                                element.kids[i], subjects)]]
      Owners(plan) == { n \in Range(ShadowNodes(plan)) : Ordinary(w.node[n]) /\ w.node[n].el # 0 }
      Applied(done) ==
        IF done.ok THEN Rebound(done.w, r, Rebuilt(done.w, r, overlay), pub.rev)
        ELSE Broken(done.w, r)
      Planning(plan) ==
        IF ~PlanHolds(w, r.root, plan, Taken(plan), element) THEN Broken(w, r)
        ELSE Applied(AppliedPlan(w, r.root, plan, Owners(plan)))
      Shadowed(s) ==
        IF ~AllValid(w, r) \/ s.tag # element.tag \/ s.quid # element.quid THEN Broken(w, r)
        ELSE Planning(Plan(s, Claimants(s)))
  IN Shadowed(ShadowOf(w, r.root, QuidsOf(r.regs)))

\* apply_observation.
Observed(w, r, pub, overlay) ==
  LET follows == pub.prevRev = r.rev /\ EffectsHold(r, pub.effects, overlay)
  IN CASE pub.kind = "commit" /\ ~follows -> Broken(w, r)
       [] pub.kind = "snapshot" \/ pub.op.op = "replace-root" ->
            IF pub.continuity = "new-epoch" THEN ObserveNewEpoch(w, r, pub, overlay)
            ELSE ObserveSameEpoch(w, r, pub, overlay)
       [] pub.op.op = "ensure-quid" -> ObserveIdentity(w, r, pub, overlay)
       [] pub.op.op \in AttrOps -> ObserveAttrs(w, r, pub)
       [] OTHER -> ObserveStructure(w, r, pub, overlay)

\* fail(): the binding observes no more and is no participant any more.
Settled(o) ==
  /\ refl' = IF o.ok THEN Remembered(o.w, o.r) ELSE [o.r EXCEPT !.status = "failed"]
  /\ heap' = IF o.ok THEN Collected(o.w, o.r) ELSE o.w

\* The binding is shown the publication its earlier observers have seen.
Observe ==
  /\ stage = "early"
  /\ stage' = "late"
  /\ IF refl.status = "active" THEN Settled(Observed(heap, refl, Head(pubs), doc.overlay))
     ELSE UNCHANGED <<refl, heap>>
  /\ UNCHANGED <<doc, pubs, replica, calls>>

-----------------------------------------------------------------------------
\* Writes to the document.  One made while a publication is shown is
\* remembered in why, and so is content put around content that stays, and
\* a replacement by another subject that leaves out an element below it.
Wraps(op) ==
  LET old == resolve_document_path(doc.root, DocMode, Append(op.path, op.index))
  IN op.op = "replace-content" /\ \E c \in Claims(op.content, <<>>) : c[2] # <<>> /\ c[1] = old.quid
Keeps(op) ==
  op.op = "replace-content" /\ \E c \in Claims(op.content, <<>>) : c[1] \in DOMAIN heap.q2n
Strands(op) ==
  LET old == resolve_document_path(doc.root, DocMode, Append(op.path, op.index))
      same == old.quid # NoQuid /\ old.quid = op.content.quid /\ old.tag = op.content.tag
  IN /\ op.op = "replace-content" /\ ~same /\ op.content.kids # <<>>
     /\ \E c \in Claims(old, <<>>) :
          c[2] # <<>> /\ c[1] \notin { d[1] : d \in Claims(op.content, <<>>) }
Note(op) ==
  [refl EXCEPT !.why = @ \union (IF stage = "idle" THEN {} ELSE {"re-entrant"})
                         \union (IF Wraps(op) THEN {"wrapped"} ELSE {})
                         \union (IF Keeps(op) THEN {"kept"} ELSE {})
                         \union (IF Strands(op) THEN {"stranded"} ELSE {})]

\* The content operations of the document and its attribute writers.
Publishes(result) == result.pub # <<>> /\ Write(result)

MutateDocument(op) ==
  Publishes(applyMutation(doc, op)) /\ refl' = Note(op) /\ UNCHANGED heap

\* An epoch that goes on may not change the root's subject, nor bring back a
\* QUID that left it: the document takes such a root, the binding cannot.
Continues(root, continuity) ==
  LET old == document_element_from_root(doc.root)
      new == document_element_from_root(root)
  IN continuity = "same-epoch" =>
       /\ new.tag = old.tag /\ new.quid = old.quid
       /\ \A c \in Claims(new, <<>>) : c[1] \in doc.issued => c[1] \in OverlayQuids(doc.overlay)
NoteRoot(root, continuity) ==
  [Note(GraphOp("none", <<>>)) EXCEPT
     !.why = @ \union (IF Continues(root, continuity) THEN {} ELSE {"other subjects"})]

InstallDocument(root, continuity) ==
  /\ Publishes(Installed(doc, root, continuity))
  /\ refl' = NoteRoot(root, continuity) /\ UNCHANGED heap

RestoreDocument(root, rev, continuity) ==
  /\ Publishes(Restored(doc, root, rev, continuity))
  /\ refl' = NoteRoot(root, continuity) /\ UNCHANGED heap

\* acquire_livemap_document_canonical_identity of an element without a QUID:
\* the binding, if it is one, reserves the candidate before the document
\* takes it.  Called at the top level the publication has been shown when it
\* returns, and the reservation ends; called while another publication is
\* shown the call throws, and the reservation ends at once.
Acquire(path, quid) ==
  LET target == resolve_document_path(doc.root, DocMode, path)
      op == [GraphOp("ensure-quid", path) EXCEPT !.quid = quid]
      regs == { x \in refl.regs : x.path = path }
      node == (CHOOSE x \in regs : TRUE).node
      slot == Len(refl.resv) + 1
      bound == refl.status = "active"
      Reserved(result) == [result EXCEPT !.pub[1].reserved = IF bound THEN slot ELSE 0]
      Published(result) == result.pub # <<>> /\ Write(Reserved(result))
  IN /\ Ordinary(target) /\ target.quid = NoQuid
     /\ quid \notin doc.issued \union { refl.resv[i].quid : i \in DOMAIN refl.resv }
     /\ bound => regs # {}
     /\ bound => ValidReg(heap, refl, CHOOSE x \in regs : TRUE) /\ SuppliedOK(heap, node, quid)
     /\ Published(applyMutation(doc, op))
     /\ IF bound
        THEN /\ refl' = [Note(op) EXCEPT !.resv = Append(@, [node |-> node, quid |-> quid,
                                                             path |-> path, applied |-> FALSE])]
             /\ heap' = IF stage = "idle" THEN ReserveQuid(heap, node, quid) ELSE heap
        ELSE refl' = Note(op) /\ UNCHANGED heap

\* Mutant: the reservation outlives its acquisition.
FinishKeepsClaim == Finish /\ UNCHANGED <<refl, heap>>

\* The end of a publication ends the acquisition that made it.
FinishObservation ==
  LET late == stage = "late" /\ Len(pubs) = 1
  IN /\ Finish
     /\ heap' = IF late THEN [heap EXCEPT !.pending = NoMap] ELSE heap
     /\ refl' = IF late THEN [refl EXCEPT !.resv = <<>>] ELSE refl

-----------------------------------------------------------------------------
\* Delegated mutations of the bound tree.
Diverged(reg) ==
  resolve_document_path(doc.root, DocMode, reg.path).attrs # heap.node[reg.node].attrs

\* assert_delegation_ready fails the binding when the attributes differ.
Delegate(reg, op) ==
  LET target == resolve_document_path(doc.root, DocMode, reg.path)
  IN /\ refl.status = "active" /\ reg \in refl.regs /\ ValidReg(heap, refl, reg)
     /\ Ordinary(target)
     /\ IF Diverged(reg)
        THEN /\ refl' = [Note(op) EXCEPT !.status = "failed"]
             /\ UNCHANGED <<doc, pubs, stage, replica, calls, heap>>
        ELSE /\ target.tag = heap.node[reg.node].tag \/ op.op \in AttrOps
             /\ Publishes(applyMutation(doc, op))
             /\ refl' = Note(op) /\ UNCHANGED heap

\* delegate_attrs.
DelegateSet(reg, name, value) ==
  Delegate(reg, [GraphOp("set-attr", reg.path) EXCEPT !.name = name, !.value = value])
DelegateDrop(reg, name) == Delegate(reg, [GraphOp("remove-attr", reg.path) EXCEPT !.name = name])

\* delegate_text: one insertion or one replacement in the only elem carrier.
TextOp(reg, kind, v) ==
  LET slots == resolve_document_path(doc.root, DocMode, reg.path).kids
      box == Append(reg.path, 0)
      items == slots[1].kids
      leaves == { i \in DOMAIN items : items[i].tag \in Leaves }
  IN CASE slots = <<>> ->
            [GraphOp("insert-content", reg.path) EXCEPT
               !.content = PlainNode("elem", <<LeafNode("str", v)>>)]
       [] slots # <<>> /\ kind = "add" ->
            [GraphOp("insert-content", box) EXCEPT !.index = Len(items), !.content = Prim(v)]
       [] slots # <<>> /\ kind = "set" /\ leaves = {} ->
            [GraphOp("insert-content", box) EXCEPT !.content = Prim(v)]
       [] slots # <<>> /\ kind = "set" /\ Cardinality(leaves) = 1 ->
            [GraphOp("replace-content", box) EXCEPT
               !.index = Min(leaves) - 1, !.content = LeafNode("str", v)]
       [] OTHER -> NoOp

DelegateText(reg, kind, v) == Delegate(reg, TextOp(reg, kind, v))
DelegateEmpty(reg) ==
  resolve_document_path(doc.root, DocMode, reg.path).kids # <<>>
    /\ Delegate(reg, GraphOp("remove-content", reg.path))
DelegateRemove(reg) ==
  reg.path # <<>>
    /\ Delegate(reg, [GraphOp("remove-content", parent_document_path(reg.path))
                        EXCEPT !.index = Last(reg.path)])

\* Removing the root, or dispose(): the tree is an ordinary tree again.
DisposeReflect ==
  /\ refl.status # "disposed"
  /\ refl' = [refl EXCEPT !.status = "disposed", !.regs = {}]
  /\ UNCHANGED <<doc, pubs, stage, replica, calls, heap>>
-----------------------------------------------------------------------------
\* The binding of a first root that is an element, its tree mounted in the
\* body or not; a fragment has none.
Reflected(root, mounted) ==
  LET new == Alloc([EmptyWorld EXCEPT !.dom = Page], document_element_from_root(root))
      known == index_subtree_ownership(admit_preserving_absence(new.w, new.id), new.id)
      shown == Project(known, new.id, TRUE)
      w == IF mounted THEN InsertDom(shown.w, Body, 0, shown.items) ELSE known
      r == [Unbound EXCEPT !.status = "active", !.root = new.id]
  IN [w |-> w, r |-> Seen(w, Rebuilt(w, r, DocOf(root, 0).overlay).r)]

ReflectInit ==
  /\ DocInit
  /\ IF DocMode = "element"
     THEN \E mounted \in BOOLEAN :
            refl = Reflected(doc.root, mounted).r /\ heap = Reflected(doc.root, mounted).w
     ELSE refl = Unbound /\ heap = [EmptyWorld EXCEPT !.dom = Page]

\* Edits by location: insertion and deletion at the first path and below it,
\* and deletion of the item an id names; and the flags of the first item.
LocationOps ==
  LET found == FindId(TopItems(doc.root, DocMode), <<>>, "y")
  IN (IF found = NoPath THEN {} ELSE {delete_document_location(doc.root, DocMode, found)})
       \union UNION { { insert_document_location(doc.root, DocMode, path, 0, Prim("n")),
                        delete_document_location(doc.root, DocMode, Append(path, 0)) }
                      : path \in {<<>>, <<0>>} }

FlagOps ==
  LET path == Physical(doc.root, DocMode, <<0>>)
      item == resolve_document_path(doc.root, DocMode, path)
      write(attrs) == [GraphOp("replace-attrs", path) EXCEPT !.attrs = attrs]
  IN IF path = NoPath \/ ~Ordinary(item) THEN {}
     ELSE { write(plan_public_flags_set(item.attrs, {"hidden"})),
            write(plan_public_flags_clear(item.attrs, {"hidden"})) }

DocPaths == { x.path : x \in refl.regs }

ReflectWrite ==
  \/ \E op \in DocRequests \union LocationOps \union FlagOps : MutateDocument(op)
  \/ \E i \in DocInstalls : InstallDocument(i.root, "new-epoch") \/ RestoreDocument(i.root, i.rev, "new-epoch")
  \/ \E c \in doc.captures : InstallDocument(c.root, "same-epoch") \/ RestoreDocument(c.root, c.rev, "same-epoch")
  \/ \E path \in DocPaths, quid \in DocQuids : Acquire(path, quid)
  \/ \E reg \in refl.regs :
       \/ DelegateSet(reg, "id", "y") \/ DelegateDrop(reg, "id")
       \/ \E kind \in {"add", "set"} : DelegateText(reg, kind, "y")
       \/ DelegateEmpty(reg)
       \/ DelegateRemove(reg)

ReflectNext ==
  \/ Observe
  \/ FinishObservation
  \/ calls < MaxDocCalls - 1 /\ ReflectWrite
  \/ calls = MaxDocCalls - 1 /\ \E op \in LastRequests : MutateDocument(op)
  \/ DisposeReflect

-----------------------------------------------------------------------------
Quiet == refl.status = "active" /\ stage = "idle"

\* When nothing is being published the tree is the document's element, at
\* its revision, whatever was written, by whom and from where.
ReflectionFaithful ==
  Quiet => /\ GraphOf(heap, refl.root) = document_element_from_root(doc.root)
           /\ refl.rev = doc.rev

\* The correspondence kept by path arithmetic is the one a walk finds, and
\* the runtime knows the QUIDs of the tree and no other: a replacement by
\* another subject that takes over the carrier may leave some behind.
CorrespondenceExact ==
  Quiet => /\ refl.regs = Registered(heap, refl.root, <<>>)
           /\ \A q \in OverlayQuids(doc.overlay) :
                /\ q \in DOMAIN heap.q2n
                /\ heap.q2n[q] = NodeAtPath(heap, refl.root, pathForQuid(doc.overlay, q))
           /\ "stranded" \in refl.why \/ DOMAIN heap.q2n = OverlayQuids(doc.overlay)
           /\ heap.pending = NoMap /\ refl.resv = <<>>

\* A binding fails only after a write made while a publication was shown,
\* after content was put around content that stays, or in an epoch that goes
\* on with other subjects; QUIDs that a reused carrier left behind make it
\* fail at the next epoch, and only there.
NeverFailsAlone ==
  refl.status = "failed" =>
    \/ refl.why \intersect {"re-entrant", "wrapped", "other subjects"} # {}
    \/ {"stranded", "crossing"} \subseteq refl.why

\* While the epoch lasts and its tag stays, a QUID keeps its node.
SubjectKeepsNode ==
  [][refl.status = "active" /\ refl'.status = "active"
       /\ ~(stage = "early" /\ Head(pubs).continuity = "new-epoch")
       => \A q \in DOMAIN heap.q2n \intersect DOMAIN heap'.q2n :
            heap.node[heap.q2n[q]].tag = heap'.node[heap'.q2n[q]].tag
              => heap'.q2n[q] = heap.q2n[q]]_reflVars

\* The mounted elements below a node show it.
Shows(w, n) ==
  LET below == { k \in collect_subtree_nodes(w, n) : Ordinary(w.node[k]) }
  IN \A k \in below :
       LET e == w.node[k].el
       IN /\ e # 0
          /\ w.dom[e].quid = w.node[k].quid
          /\ w.dom[e].attrs = w.node[k].attrs
          /\ w.dom[e].kids = Mirror(w, w.node[k].kids)

\* A mounted tree is what the page shows.
DomFollowsDocument ==
  Quiet /\ heap.node[refl.root].el # 0 => Shows(heap, refl.root)

\* The same, except that a subject replaced in place may show old content.
DomFollowsStructure == "kept" \notin refl.why => DomFollowsDocument

\* The bound tree, its correspondence and the page follow the document, and
\* a binding that fails has a reason outside itself.
BindingSound == ReflectionFaithful /\ CorrespondenceExact /\ NeverFailsAlone /\ DomFollowsStructure
=============================================================================
