---------------------------- MODULE LiveTreeGraph ----------------------------
(***************************************************************************)
(* What LiveTree keeps beside a graph of HSON nodes: which node owns which *)
(* (graph-ownership.ts), which DOM element a node is linked to             *)
(* (node-map-helpers.ts), which node a QUID names in the runtime           *)
(* (livetree-runtime.ts, data-quid.ts) and the disposables of a QUID       *)
(* (lifecycle-registry.ts).  Every operator takes the whole world and      *)
(* gives the next one.                                                     *)
(*                                                                         *)
(* A world has nodes and elements, both named by numbers.  A node is the   *)
(* HSON record with the numbers of its children, and                       *)
(*   rq    its entry in nodeToQuid, el its element (0: none),              *)
(*   par   its entry in PARENT_FOR_NODE (0: none), dead once disposed.     *)
(* An element has its QUID attribute, its other attributes and its         *)
(* children, <<"el", e>> or <<"text", v>>.  Element 1 is document.body.    *)
(***************************************************************************)
EXTENDS DocumentGraph, TLC

CONSTANTS MintQuids,   \* what mint_quid may return
          DrainLimit   \* TERMINAL_DISPOSABLE_DRAIN_LIMIT

Body == 1
NoMap == [x \in {} |-> 0]

EmptyWorld ==
  [node |-> NoMap, dom |-> NoMap, q2n |-> NoMap, pending |-> NoMap, issued |-> {},
   owned |-> NoMap, res |-> <<>>]

Without(f, keys) == [x \in DOMAIN f \ keys |-> f[x]]

\* A number no member of the set has.
NextId(used) == CHOOSE i \in 1..(Cardinality(used) + 1) : i \notin used

HeapNode(t, kids) ==
  [tag |-> t.tag, quid |-> t.quid, attrs |-> t.attrs, kids |-> kids, val |-> t.val,
   index |-> t.index, rq |-> NoQuid, el |-> 0, par |-> 0, dead |-> FALSE]

-----------------------------------------------------------------------------
\* Graphs in the heap.
RECURSIVE Descend(_, _, _), GraphOf(_, _), Alloc(_, _)

Descend(w, frontier, seen) ==
  IF frontier \subseteq seen THEN seen
  ELSE Descend(w, UNION { Range(w.node[n].kids) : n \in frontier \ seen }, seen \union frontier)

collect_subtree_nodes(w, n) == Descend(w, {n}, {})

\* The HSON value of a node; the graph below it must have no cycle.
GraphOf(w, n) ==
  LET r == w.node[n]
  IN [tag |-> r.tag, quid |-> r.quid, attrs |-> r.attrs, val |-> r.val, index |-> r.index,
      kids |-> [i \in DOMAIN r.kids |-> GraphOf(w, r.kids[i])]]

\* A detached copy of a value in the heap.
Alloc(w, t) ==
  LET Beside(ids, r) == [w |-> r.w, ids |-> Append(ids, r.id)]
      Over(below, id) ==
        [w |-> [below.w EXCEPT !.node = @ @@ (id :> HeapNode(t, below.ids))], id |-> id]
      Above(below) == Over(below, NextId(DOMAIN below.w.node))
  IN Above(FoldLeft(LAMBDA acc, k : Beside(acc.ids, Alloc(acc.w, k)), [w |-> w, ids |-> <<>>], t.kids))

index_subtree_ownership(w, root) ==
  LET nodes == collect_subtree_nodes(w, root)
      owner(c) == { o \in nodes : c \in Range(w.node[o].kids) }
  IN [w EXCEPT !.node = [c \in DOMAIN @ |->
        IF @[c].par = 0 /\ owner(c) # {} THEN [@[c] EXCEPT !.par = CHOOSE o \in owner(c) : TRUE]
        ELSE @[c]]]

claim_node_parent(w, nodes, parent) ==
  [w EXCEPT !.node = [n \in DOMAIN @ |-> IF n \in nodes THEN [@[n] EXCEPT !.par = parent] ELSE @[n]]]

\* release_node_parent(node, parent) for each of the nodes.
release_node_parent(w, nodes, parent) ==
  claim_node_parent(w, { n \in nodes : w.node[n].par = parent }, 0)

release_subtree_ownership(w, root) == claim_node_parent(w, collect_subtree_nodes(w, root), 0)

\* The node leaves its owner's content; an ownership entry that does not hold
\* is dropped.
unlink_node_from_parent(w, n) ==
  LET p == w.node[n].par
      cut == IF p = 0 THEN w
             ELSE [w EXCEPT !.node[p].kids = SelectSeq(@, LAMBDA k : k # n)]
  IN [w |-> claim_node_parent(cut, {n}, 0), linked |-> p # 0 /\ n \in Range(w.node[p].kids)]

-----------------------------------------------------------------------------
\* Elements.
RECURSIVE Connected(_, _)

ParentEls(w, e) == { p \in DOMAIN w.dom : <<"el", e>> \in Range(w.dom[p].kids) }

\* isConnected.
Connected(w, e) == e = Body \/ \E p \in ParentEls(w, e) : Connected(w, p)

ElsOf(items) == { items[i][2] : i \in { j \in DOMAIN items : items[j][1] = "el" } }

\* element.remove() for each of the elements.
RemoveEls(w, els) ==
  [w EXCEPT !.dom = [p \in DOMAIN @ |->
     [@[p] EXCEPT !.kids = SelectSeq(@, LAMBDA k : k[1] = "text" \/ k[2] \notin els)]]]

\* insertBefore: an element that is elsewhere leaves that place.
InsertDom(w, e, at, items) ==
  LET Between(kids, here) == SubSeq(kids, 1, here) \o items \o SubSeq(kids, here + 1, Len(kids))
  IN [RemoveEls(w, ElsOf(items)) EXCEPT
        !.dom[e].kids = Between(@, IF at > Len(@) THEN Len(@) ELSE at)]

replaceChildren(w, e, items) == InsertDom([w EXCEPT !.dom[e].kids = <<>>], e, 0, items)

LinkedNodes(w, e) == { n \in DOMAIN w.node : w.node[n].el = e }

-----------------------------------------------------------------------------
\* QUIDs of the runtime.
Claimed(w, n) == w.node[n].quid # NoQuid

Lookup(f, q, default) == IF q \in DOMAIN f THEN f[q] ELSE default

\* assert_quid_available.
QuidAvailable(w, q, n) ==
  \/ Lookup(w.q2n, q, 0) = n
  \/ q \notin DOMAIN w.q2n /\ Lookup(w.pending, q, n) = n /\ q \notin w.issued

\* Mutant: a QUID that was issued and dropped may be minted again.
mint_unused_quid(w, reserved) ==
  CHOOSE q \in MintQuids : q \notin DOMAIN w.q2n \union DOMAIN w.pending \union reserved

\* mint_available_quid.
CanMint(w) == MintQuids \ (DOMAIN w.q2n \union DOMAIN w.pending \union w.issued) # {}
mint_available_quid(w, reserved) ==
  CHOOSE q \in MintQuids :
    q \notin DOMAIN w.q2n \union DOMAIN w.pending \union w.issued \union reserved

\* Metadata, both maps and the ledger of issued QUIDs.
Register(w, n, q) ==
  [w EXCEPT !.node[n].quid = q, !.node[n].rq = q, !.q2n = (q :> n) @@ @, !.issued = @ \union {q}]

\* preflight_livetree_quid_graph.
QuidGraphOK(w, root) ==
  LET claimed == { n \in collect_subtree_nodes(w, root) : Claimed(w, n) }
  IN /\ \A n \in claimed : Ordinary(w.node[n]) /\ QuidAvailable(w, w.node[n].quid, n)
     /\ \A a, b \in claimed : w.node[a].quid = w.node[b].quid => a = b

\* admit_livetree_quid_graph_preserving_absence.
admit_preserving_absence(w, root) ==
  LET claimed == { n \in collect_subtree_nodes(w, root) : Claimed(w, n) }
  IN FoldSet(LAMBDA n, acc : Register(acc, n, acc.node[n].quid), w, claimed)

\* admit_livetree_quid_graph: the root has a QUID afterwards.
admit_livetree_quid_graph(w, root) ==
  LET claims == { w.node[n].quid : n \in collect_subtree_nodes(w, root) }
      admitted == admit_preserving_absence(w, root)
  IN IF Claimed(w, root) THEN admitted
     ELSE Register(admitted, root, mint_available_quid(w, claims))

ensure_quid(w, n) ==
  Register(w, n, IF Claimed(w, n) THEN w.node[n].quid ELSE mint_available_quid(w, {}))

\* register_supplied_livetree_quid.
register_supplied(w, n) == IF Claimed(w, n) THEN Register(w, n, w.node[n].quid) ELSE w

\* drop_quid of each of the nodes, metadata included.
drop_quids(w, nodes) ==
  [w EXCEPT !.q2n = Without(@, { q \in DOMAIN @ : @[q] \in nodes }),
            !.node = [n \in DOMAIN @ |->
              IF n \in nodes THEN [@[n] EXCEPT !.quid = NoQuid, !.rq = NoQuid] ELSE @[n]]]

\* preflight_supplied_livetree_quid and the claim, rollback and release of
\* the reservation it makes.
SuppliedOK(w, n, q) ==
  /\ ~Claimed(w, n) /\ w.node[n].rq = NoQuid
  /\ q \notin DOMAIN w.q2n /\ Lookup(w.pending, q, n) = n /\ q \notin w.issued
  /\ w.node[n].el # 0 => w.dom[w.node[n].el].quid = NoQuid
ReserveQuid(w, n, q) == [w EXCEPT !.pending = (q :> n) @@ @]
Claimable(w, n, q) == Lookup(w.pending, q, 0) = n /\ q \notin DOMAIN w.q2n /\ ~Claimed(w, n)
ClaimQuid(w, n, q) ==
  LET marked == IF w.node[n].el = 0 THEN w ELSE [w EXCEPT !.dom[w.node[n].el].quid = q]
  IN Register(marked, n, q)

\* preflight_livetree_quid_lineage_transfer and its apply(): the QUID names
\* another node from then on; the old node keeps its metadata.
TransferOK(w, q, from, to) ==
  /\ w.node[from].quid = q /\ w.node[from].rq = q /\ Lookup(w.q2n, q, 0) = from
  /\ Lookup(w.pending, q, from) = from
  /\ w.node[to].rq \in {NoQuid, q}
transfer_quid(w, q, from, to) ==
  [w EXCEPT !.q2n[q] = to, !.node[to].rq = q, !.node[from].rq = NoQuid]

\* preflight_livetree_quid_epoch_replacement for the QUIDs of a graph.
EpochReplacementOK(w, incoming, outgoing, epoch) ==
  \A q \in incoming :
    /\ q \in DOMAIN w.q2n => q \in epoch /\ w.q2n[q] \in outgoing
    /\ q \notin DOMAIN w.pending
    /\ q \in w.issued /\ q \notin DOMAIN w.q2n => q \in epoch

\* reset_livetree_quid_epoch: refused while a QUID of the epoch still names a
\* node or is reserved for one, whoever holds it.
EpochResettable(w, quids) == quids \intersect (DOMAIN w.q2n \union DOMAIN w.pending) = {}
reset_livetree_quid_epoch(w, quids) == [w EXCEPT !.issued = @ \ quids]

-----------------------------------------------------------------------------
\* Disposables.  res[d] is [owner, kind, active]; running one of kind "again"
\* registers a plain one for the same owner, "endless" another endless one.
RECURSIVE RunAll(_, _), Drain(_, _, _)

disposable_add_for_owner(w, q, kind) ==
  LET d == Len(w.res) + 1
  IN [w EXCEPT !.res = Append(@, [owner |-> q, kind |-> kind, active |-> TRUE]),
               !.owned = (q :> (Lookup(@, q, {}) \union {d})) @@ @]

disposable_remove_for_owner(w, q, d) ==
  LET left == Lookup(w.owned, q, {}) \ {d}
  IN [w EXCEPT !.owned = IF left = {} THEN Without(@, {q}) ELSE (q :> left) @@ @]

\* own_disposable_for_owner's off().
Off(w, d) ==
  LET r == w.res[d]
      cut == [disposable_remove_for_owner(w, r.owner, d) EXCEPT !.res[d].active = FALSE]
  IN IF ~r.active THEN w
     ELSE IF r.kind = "plain" THEN cut
     ELSE disposable_add_for_owner(cut, r.owner, IF r.kind = "again" THEN "plain" ELSE r.kind)

RunAll(w, ds) ==
  IF ds = {} THEN w
  ELSE LET d == CHOOSE x \in ds : \A y \in ds : x <= y IN RunAll(Off(w, d), ds \ {d})

\* disposables_off_for_owner for each owner: the sets go first.
disposables_off(w, quids) ==
  RunAll([w EXCEPT !.owned = Without(@, quids)],
         UNION { Lookup(w.owned, q, {}) : q \in quids })

\* disposables_drain_for_owners: what is left after the limit is discarded.
Drain(w, quids, passes) ==
  IF DOMAIN w.owned \intersect quids = {} THEN w
  ELSE IF passes = 0 THEN [w EXCEPT !.owned = Without(@, quids)]
  ELSE Drain(disposables_off(w, quids), quids, passes - 1)

-----------------------------------------------------------------------------
\* Projection, detachment and disposal.
RECURSIVE Project(_, _, _), ProjectAll(_, _, _)

\* project_livetree_with_authority: the DOM children a node contributes.  A
\* linked projection mints nothing.
Project(w, n, linked) ==
  LET r == w.node[n]
      Placed(known, e) ==
        [known EXCEPT !.dom = @ @@ (e :> [quid |-> known.node[n].quid, attrs |-> r.attrs, kids |-> <<>>])]
      Filled(below, e) == [w |-> InsertDom(below.w, e, 0, below.items), items |-> <<<<"el", e>>>>]
      Linked(marked, e) ==
        Filled(ProjectAll(Placed(IF linked THEN register_supplied(marked, n) ELSE ensure_quid(marked, n), e),
                          r.kids, linked), e)
      As(e) == Linked([w EXCEPT !.node[n].el = e], e)
  IN CASE r.tag \in Leaves -> [w |-> w, items |-> <<<<"text", r.val>>>>]
       [] ~Ordinary(r) -> ProjectAll(w, r.kids, linked)
       [] r.el # 0 /\ ~Connected(w, r.el) -> [w |-> w, items |-> <<<<"el", r.el>>>>]
       [] OTHER -> As(NextId(DOMAIN w.dom))

\* One projection after those before it.
Shown(items, r) == [w |-> r.w, items |-> items \o r.items]

ProjectAll(w, ids, linked) ==
  FoldLeft(LAMBDA acc, n : Shown(acc.items, Project(acc.w, n, linked)), [w |-> w, items |-> <<>>], ids)

\* detach_node_deep: every element below leaves its place, links are cut and
\* the disposables of the QUIDs run; the QUIDs stay registered.
detach_node_deep(w, root) ==
  LET nodes == collect_subtree_nodes(w, root)
      cut == [RemoveEls(w, { w.node[n].el : n \in nodes }) EXCEPT !.node = [n \in DOMAIN @ |->
                IF n \in nodes THEN [@[n] EXCEPT !.el = 0] ELSE @[n]]]
  IN disposables_off(cut, { w.node[n].quid : n \in nodes })

dispose_node_deep(w, root) ==
  LET nodes == collect_subtree_nodes(w, root)
      els == { w.node[n].el : n \in nodes } \ {0}
      drained == Drain(detach_node_deep(w, root), { w.node[n].quid : n \in nodes }, DrainLimit)
  IN [drop_quids(drained, nodes) EXCEPT
        !.dom = [e \in DOMAIN @ |-> IF e \in els THEN [@[e] EXCEPT !.quid = NoQuid] ELSE @[e]],
        !.node = [n \in DOMAIN @ |-> IF n \in nodes THEN [@[n] EXCEPT !.dead = TRUE] ELSE @[n]]]

\* unmount_node_preserving_runtime: the topmost elements leave their places.
RECURSIVE TopEls(_, _)
TopEls(w, n) ==
  IF w.node[n].el # 0 THEN {w.node[n].el}
  ELSE UNION { TopEls(w, k) : k \in Range(w.node[n].kids) }

unmount_preserving_runtime(w, n) == RemoveEls(w, TopEls(w, n))

\* subtree_has_connected_projection.
HasConnectedProjection(w, n) ==
  \E k \in collect_subtree_nodes(w, n) : w.node[k].el # 0 /\ Connected(w, w.node[k].el)

\* What the children of a node are in the DOM when the DOM mirrors the graph.
RECURSIVE Mirror(_, _)
Mirror(w, ids) ==
  FlattenSeq([i \in DOMAIN ids |->
    LET r == w.node[ids[i]]
    IN CASE r.tag \in Leaves -> <<<<"text", r.val>>>>
         [] Ordinary(r) -> <<<<"el", r.el>>>>
         [] OTHER -> Mirror(w, r.kids)])
=============================================================================
