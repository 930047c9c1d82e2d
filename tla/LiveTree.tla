------------------------------- MODULE LiveTree -------------------------------
(***************************************************************************)
(* Standalone LiveTree: the operations of the public handles on graphs     *)
(* that no document binding governs.                                       *)
(*                                                                         *)
(*   world     nodes, elements, QUIDs and disposables (LiveTreeGraph)      *)
(*   hostRoot  the host root of the handle of a node; one handle a node    *)
(*   detached  the DetachedLiveContent objects, [content, attached]        *)
(*   outcome   what the last call did: "ok", or the call that threw        *)
(*                                                                         *)
(* All handles share one runtime and one document; element names are html. *)
(* One call is one step: the code is synchronous and the only callbacks it *)
(* makes, the disposables, are part of the step.                           *)
(***************************************************************************)
EXTENDS LiveTreeGraph

CONSTANTS Templates,   \* graphs a branch is created from
          MaxTreeCalls, MaxTreeNodes

VARIABLES world, hostRoot, detached, outcome, treeCalls

treeVars == <<world, hostRoot, detached, outcome, treeCalls>>

Handles == { n \in DOMAIN hostRoot : ~world.node[n].dead }
Room(k) == Cardinality({ n \in DOMAIN world.node : ~world.node[n].dead }) + k <= MaxTreeNodes

Give(w, hosts, result) ==
  /\ world' = w
  /\ hostRoot' = hosts
  /\ outcome' = result
  /\ treeCalls' = treeCalls + 1

Done(w) == Give(w, hostRoot, "ok") /\ UNCHANGED detached
Threw(call) == Give(world, hostRoot, call) /\ UNCHANGED detached

-----------------------------------------------------------------------------
\* new LiveTree(node): admitted, its own host root, ownership indexed.
Constructed(w, n) == index_subtree_ownership(admit_livetree_quid_graph(w, n), n)

\* make_branch_from_node and make_detached_livetree_create.
Create(t) ==
  LET new == Alloc(world, t)
  IN /\ Room(Cardinality(DOMAIN new.w.node) - Cardinality(DOMAIN world.node)) /\ CanMint(world)
     /\ Give(Constructed(new.w, new.id), (new.id :> new.id) @@ hostRoot, "ok")
     /\ UNCHANGED detached

\* cloneBranch: every element of the copy gets a QUID of its own.
Clone(t) ==
  LET copy == Alloc(world, Stripped(GraphOf(world, t)))
      news == DOMAIN copy.w.node \ DOMAIN world.node
      named == FoldSet(LAMBDA n, acc : IF Ordinary(acc.node[n]) THEN ensure_quid(acc, n) ELSE acc,
                       copy.w, news)
  IN /\ Room(Cardinality(news))
     /\ Cardinality(MintQuids \ world.issued) >= Cardinality(news)
     /\ Give(Constructed(named, copy.id), (copy.id :> copy.id) @@ hostRoot, "ok")
     /\ UNCHANGED detached

\* content.at and the finders: wrap_in_tree.
Wrap(t, n) ==
  /\ n \notin DOMAIN hostRoot /\ Ordinary(world.node[n]) /\ CanMint(world)
  /\ n \in collect_subtree_nodes(world, t)
  /\ Give(Constructed(world, n), (n :> hostRoot[t]) @@ hostRoot, "ok")
  /\ UNCHANGED detached

-----------------------------------------------------------------------------
\* Mutant: whether a root still has an owner is not asked.
AppendableOwned(w, target, roots) ==
  LET below == collect_subtree_nodes(w, target)
  IN \A i \in DOMAIN roots :
       LET nodes == collect_subtree_nodes(w, roots[i])
       IN /\ nodes \intersect below = {}
          /\ \A n \in nodes : ~w.node[n].dead
          /\ \A n \in nodes : w.node[n].el # 0 => ~Connected(w, w.node[n].el)

\* assert_appendable_nodes and assert_appendable_forest.
Appendable(w, target, roots) ==
  LET below == collect_subtree_nodes(w, target)
  IN \A i \in DOMAIN roots :
       LET nodes == collect_subtree_nodes(w, roots[i])
       IN /\ w.node[roots[i]].par = 0
          /\ nodes \intersect below = {}
          /\ \A j \in 1..(i - 1) : nodes \intersect collect_subtree_nodes(w, roots[j]) = {}
          /\ \A n \in nodes :
               /\ n # roots[i] => w.node[n].par \in nodes \union {0}
               /\ w.node[n].el # 0 => ~Connected(w, w.node[n].el)
               /\ ~w.node[n].dead
               /\ Lookup(w.q2n, w.node[n].quid, n) = n

\* The elem container that is the first content of a target, made if need be.
Contained(w, target) ==
  LET kids == w.node[target].kids
      Made(new) == [w |-> [new.w EXCEPT !.node[target].kids = <<new.id>> \o kids,
                                        !.node[new.id].par = target], id |-> new.id]
  IN IF kids # <<>> /\ w.node[kids[1]].tag = "elem" THEN [w |-> w, id |-> kids[1]]
     ELSE Made(Alloc(w, PlainNode("elem", <<>>)))

\* normalize_ix for an index that is not negative; Last is "no index".
AtEnd == 99
Clamp(at, len) == IF at > len THEN len ELSE at
SplicedAt(kids, at, roots) ==
  LET here == Clamp(at, Len(kids))
  IN SubSeq(kids, 1, here) \o roots \o SubSeq(kids, here + 1, Len(kids))

\* The roots in the container, owned by it.
PutIn(box, roots, at) ==
  claim_node_parent([box.w EXCEPT !.node[box.id].kids = SplicedAt(@, at, roots)], Range(roots), box.id)

\* appendNodes: graph and ownership first, then the DOM, each with its own
\* reading of the index.
appendNodes(w, target, roots, at) ==
  LET e == w.node[target].el
      Placed(shown) == InsertDom(shown.w, e, at, shown.items)
      Projected(put) == IF e = 0 THEN put ELSE Placed(ProjectAll(put, roots, FALSE))
  IN Projected(PutIn(Contained(w, target), roots, at))

\* append_branch; the handle's host root is adopted last, and adoptRoots
\* refuses one that was disposed.
Append1(t, b, at) ==
  IF ~Appendable(world, t, <<b>>) THEN Threw("append")
  ELSE LET stale == world.node[hostRoot[t]].dead
       IN /\ Room(1)
          /\ Give(appendNodes(world, t, <<b>>, at),
                  IF stale THEN hostRoot ELSE [hostRoot EXCEPT ![b] = hostRoot[t]],
                  IF stale THEN "append, stale host" ELSE "ok")
          /\ UNCHANGED detached

\* rollback_new_projection.
RollbackProjection(w, nodes) ==
  [RemoveEls(w, { w.node[n].el : n \in nodes }) EXCEPT
     !.node = [n \in DOMAIN @ |-> IF n \in nodes THEN [@[n] EXCEPT !.el = 0] ELSE @[n]]]

\* append_branches_atomic; `fails` is a DOM projection that throws.
AppendBatch(t, bs, at, fails) ==
  LET e == world.node[t].el
      roots == bs
      unmapped == { n \in UNION { collect_subtree_nodes(world, r) : r \in Range(roots) } :
                      world.node[n].el = 0 }
      hosts == [n \in DOMAIN hostRoot |-> IF n \in Range(bs) THEN hostRoot[t] ELSE hostRoot[n]]
      Placed(box, items) ==
        IF e = 0 THEN PutIn(box, roots, at)
        ELSE InsertDom(PutIn(box, roots, at), e, Clamp(at, Len(box.w.node[box.id].kids)), items)
      Finished(shown) ==
        IF fails \/ world.node[hostRoot[t]].dead
        THEN Give(RollbackProjection(shown.w, unmapped), hostRoot, "batch")
        ELSE Give(Placed(Contained(shown.w, t), shown.items), hosts, "ok")
  IN /\ Room(1)
     /\ fails => e # 0
     /\ IF ~Appendable(world, t, roots) THEN Threw("batch")
        ELSE /\ UNCHANGED detached
             /\ Finished(IF e = 0 THEN [w |-> world, items |-> <<>>]
                         ELSE ProjectAll(world, roots, FALSE))

-----------------------------------------------------------------------------
\* detach_livetree, remove_livetree_terminal, empty_livetree_contents,
\* detach_livetree_contents, remove_node_children.
Protected(t) == world.node[t].el = Body

Detach(t) ==
  LET cut == unlink_node_from_parent(world, t)
      bare == unmount_preserving_runtime(cut.w, t)
      mounted == \E e \in TopEls(world, t) : ParentEls(world, e) # {}
      changed == cut.linked \/ mounted \/ HasConnectedProjection(world, t)
  IN IF Protected(t) THEN Threw("detach")
     ELSE /\ Give(bare, IF changed THEN [hostRoot EXCEPT ![t] = t] ELSE hostRoot, "ok")
          /\ UNCHANGED detached

RemoveBranch(t) ==
  IF Protected(t) THEN Threw("remove")
  ELSE Done(release_subtree_ownership(dispose_node_deep(unlink_node_from_parent(world, t).w, t), t))

\* Every root of the content goes: its ownership entry, then dispose or unmount.
EmptiedElement(w, t) == IF w.node[t].el = 0 THEN w ELSE replaceChildren(w, w.node[t].el, <<>>)

Empty(t) ==
  LET roots == world.node[t].kids
      cut == release_node_parent([world EXCEPT !.node[t].kids = <<>>], Range(roots), t)
      gone == FoldLeft(LAMBDA acc, r : release_subtree_ownership(dispose_node_deep(acc, r), r),
                       cut, roots)
  IN Done(EmptiedElement(gone, t))

DetachContents(t) ==
  LET roots == world.node[t].kids
      cut == release_node_parent([world EXCEPT !.node[t].kids = <<>>], Range(roots), t)
      bare == FoldLeft(LAMBDA acc, r : unmount_preserving_runtime(acc, r), cut, roots)
  IN /\ roots # <<>>
     /\ Give(EmptiedElement(bare, t), hostRoot, "ok")
     /\ detached' = Append(detached, [content |-> roots, attached |-> FALSE])

\* appendTo: the content goes beside what the target already has.
AppendTo(c, t) ==
  LET roots == detached[c].content
      put == claim_node_parent([world EXCEPT !.node[t].kids = @ \o roots], Range(roots), t)
      e == world.node[t].el
      Placed(shown) == InsertDom(shown.w, e, AtEnd, shown.items)
  IN IF detached[c].attached \/ ~Appendable(world, t, roots) THEN Threw("appendTo")
     ELSE /\ Give(IF e = 0 THEN put ELSE Placed(ProjectAll(put, roots, FALSE)), hostRoot, "ok")
          /\ detached' = [detached EXCEPT ![c].attached = TRUE]

\* Elements of the only elem container (or of the node itself) are detached,
\* not disposed.
RemoveChildren(t) ==
  LET kids == world.node[t].kids
      box == IF Len(kids) = 1 /\ world.node[kids[1]].tag = "elem" THEN kids[1] ELSE t
      out == SelectSeq(world.node[box].kids, LAMBDA k : Ordinary(world.node[k]))
      cut == release_node_parent(
               [world EXCEPT !.node[box].kids = SelectSeq(@, LAMBDA k : ~Ordinary(world.node[k]))],
               Range(out), box)
  IN Done(FoldLeft(detach_node_deep, cut, out))

-----------------------------------------------------------------------------
\* Text.  ensureVsn: the first cluster of the content, or a new elem that
\* takes the content over and is not entered into the ownership map.
Bucket(w, n) ==
  LET kids == w.node[n].kids
      Made(new) == [w |-> [new.w EXCEPT !.node[new.id].kids = kids, !.node[n].kids = <<new.id>>],
                    id |-> new.id]
      First(boxes) == IF boxes # <<>> THEN [w |-> w, id |-> boxes[1]]
                      ELSE Made(Alloc(w, PlainNode("elem", <<>>)))
  IN First(SelectSeq(kids, LAMBDA k : w.node[k].tag \in Clusters))

\* The bucket, and a new leaf that is not in it yet.
BucketAndLeaf(n, v) ==
  LET Both(box, leaf) == [w |-> leaf.w, id |-> box.id, leaf |-> leaf.id]
      Leafed(box) == Both(box, Alloc(box.w, LeafNode("str", v)))
  IN Leafed(Bucket(world, n))

\* Positions of the text children.
TextAt(items) == { i \in DOMAIN items : items[i][1] = "text" }

\* set_node_text_content: the first leaf, others dropped, in graph and DOM.
SetText(n, v) ==
  LET e == world.node[n].el
      InPlace(box, kids, leaves) ==
        LET others(s) == SelectSeq(s, LAMBDA k : box.w.node[k].tag \notin Leaves)
        IN IF leaves = {} THEN <<box.leaf>> \o kids
           ELSE others(SubSeq(kids, 1, Min(leaves) - 1)) \o <<box.leaf>>
                  \o others(SubSeq(kids, Min(leaves) + 1, Len(kids)))
      Put(box) ==
        [box.w EXCEPT !.node[box.id].kids =
           InPlace(box, @, { i \in DOMAIN @ : box.w.node[@[i]].tag \in Leaves })]
      Placed(put, texts) ==
        InsertDom([put EXCEPT !.dom[e].kids = SelectSeq(@, LAMBDA k : k[1] = "el")], e,
                  IF texts = {} THEN 0 ELSE Min(texts) - 1, <<<<"text", v>>>>)
      Written(put) == IF e = 0 THEN put ELSE Placed(put, TextAt(put.dom[e].kids))
  IN Room(2) /\ Done(Written(Put(BucketAndLeaf(n, v))))

\* add_node_text_content and insert_node_text_leaf (at AtEnd it is add).
InsertText(n, at, v) ==
  LET e == world.node[n].el
      Put(box) == [box.w EXCEPT !.node[box.id].kids = SplicedAt(@, at, <<box.leaf>>)]
      Written(put) == IF e = 0 THEN put ELSE InsertDom(put, e, at, <<<<"text", v>>>>)
  IN Room(2) /\ Done(Written(Put(BucketAndLeaf(n, v))))

\* overwrite_node_text_content: what was there is dropped, not disposed.
OverwriteText(n, v) ==
  LET e == world.node[n].el
      Put(box) == [box.w EXCEPT !.node[box.id].kids = <<box.leaf>>]
      Written(put) == IF e = 0 THEN put ELSE replaceChildren(put, e, <<<<"text", v>>>>)
  IN Room(2) /\ Done(Written(Put(BucketAndLeaf(n, v))))

\* attrs.set, drop, replace and flags on a standalone node: node, then element.
SetAttrs(n, attrs) ==
  LET put == [world EXCEPT !.node[n].attrs = attrs]
  IN Done(IF world.node[n].el = 0 THEN put ELSE [put EXCEPT !.dom[world.node[n].el].attrs = attrs])

\* Listeners, bindings and observers are disposables of the handle's QUID.
Own(n, kind) ==
  LET named == IF Claimed(world, n) THEN world ELSE ensure_quid(world, n)
  IN Len(world.res) < 3 /\ Done(disposable_add_for_owner(named, named.node[n].quid, kind))

OffOne(d) == Done(Off(world, d))

-----------------------------------------------------------------------------
\* document.body grafted; a branch <div> with a child and its text, with
\* handles on both, detached or appended to the body; and a detached <p>.
Grafted ==
  LET Mounted(known, id) ==
        [known EXCEPT !.dom = Body :> [quid |-> known.node[id].quid, attrs |-> {}, kids |-> <<>>]]
      Admitted(new) ==
        Mounted(admit_livetree_quid_graph([new.w EXCEPT !.node[new.id].el = Body], new.id), new.id)
  IN Admitted(Alloc(EmptyWorld, PlainNode("body", <<>>)))

Branch == PlainNode("div", <<PlainNode("elem", <<
            PlainNode("b", <<PlainNode("elem", <<LeafNode("str", "x")>>)>>)>>)>>)

TreeInit ==
  /\ LET Handled(all, one, two, b) ==
           \E mounted \in BOOLEAN :
             /\ world = IF mounted THEN appendNodes(all, 1, <<one>>, AtEnd) ELSE all
             /\ hostRoot = (1 :> 1) @@ (one :> IF mounted THEN 1 ELSE one) @@ (b :> one) @@ (two :> two)
         Second(one, b, two) == Handled(Constructed(Constructed(two.w, two.id), b), one.id, two.id, b)
         First(one) == Second(one, CHOOSE n \in DOMAIN one.w.node : one.w.node[n].tag = "b",
                               Alloc(Constructed(one.w, one.id), PlainNode("p", <<>>)))
     IN First(Alloc(Grafted, Branch))
  /\ detached = <<>>
  /\ outcome = "ok"
  /\ treeCalls = 0

TreeNext ==
  /\ treeCalls < MaxTreeCalls
  /\ \/ \E t \in Templates : Create(t)
     \/ \E t \in Handles, n \in DOMAIN world.node : Wrap(t, n)
     \/ \E t, b \in Handles, at \in {0, AtEnd} : Append1(t, b, at)
     \/ \E t, a, b \in Handles, fails \in BOOLEAN :
          Protected(t) = (treeCalls < 2) /\ AppendBatch(t, <<a, b>>, 0, fails)
     \/ \E c \in DOMAIN detached, t \in Handles : AppendTo(c, t)
     \/ \E t \in Handles :
          \/ Clone(t) \/ Detach(t) \/ RemoveBranch(t) \/ Empty(t) \/ DetachContents(t)
          \/ RemoveChildren(t) \/ SetText(t, "y") \/ InsertText(t, 1, "y")
          \/ OverwriteText(t, "y") \/ SetAttrs(t, {<<"id", "a">>})
          \/ \E kind \in {"again", "endless"} : Own(t, kind)
     \/ \E d \in DOMAIN world.res : OffOne(d)

-----------------------------------------------------------------------------
Live(n) == ~world.node[n].dead

\* A node is content of at most one live owner, at one place, and the
\* ownership map never names another one: an append, a batch or a
\* reattachment never puts one node in two places.  (A node that text
\* replaced keeps its entry and has no owner.)
OneOwner ==
  \A n \in DOMAIN world.node : Live(n) =>
    LET owners == { o \in DOMAIN world.node : Live(o) /\ n \in Range(world.node[o].kids) }
    IN /\ Cardinality(owners) <= 1
       /\ world.node[n].par # 0 => owners \subseteq {world.node[n].par}
       /\ \A o \in owners : Cardinality({ i \in DOMAIN world.node[o].kids :
                                            world.node[o].kids[i] = n }) = 1

\* A disposed node is named by no QUID, linked to no element and owns no
\* disposable, and what it owned was run: none is left to a QUID nobody has,
\* whatever the callbacks registered while the teardown ran.  Only one that
\* registers itself anew in every pass outlives the drain limit.
DisposedHoldsNothing ==
  /\ \A n \in DOMAIN world.node : ~Live(n) =>
       world.node[n].rq = NoQuid /\ world.node[n].el = 0 /\ n \notin Range(world.q2n)
  /\ \A q \in DOMAIN world.owned \ DOMAIN world.q2n, d \in DOMAIN world.res :
       d \in world.owned[q] => world.res[d].kind = "endless"
  /\ \A d \in DOMAIN world.res :
       world.res[d].active /\ world.res[d].kind # "endless"
         => d \in Lookup(world.owned, world.res[d].owner, {})

\* The runtime's QUID maps agree with the metadata of live nodes.
RegistryExact ==
  \A q \in DOMAIN world.q2n :
    LET r == world.node[world.q2n[q]] IN r.rq = q /\ r.quid = q /\ q \in world.issued

\* The children of a linked element are those its node's content projects to,
\* in order, with the node's attributes; a node that got a second container
\* from appendTo is excepted (see the README).
DomMirrorsGraph ==
  \A n \in DOMAIN world.node :
    LET r == world.node[n]
    IN Live(n) /\ r.el # 0 /\ Len(r.kids) <= 1 =>
         /\ world.dom[r.el].kids = Mirror(world, r.kids)
         /\ world.dom[r.el].attrs = r.attrs
         /\ world.dom[r.el].quid = r.quid
         /\ LinkedNodes(world, r.el) = {n}

\* What is under document.body is exactly what is connected to the document,
\* as long as no node got a second container from appendTo.
MountedIsConnected ==
  LET below == collect_subtree_nodes(world, 1)
  IN (\A n \in below : Ordinary(world.node[n]) => Len(world.node[n].kids) <= 1) =>
     \A n \in DOMAIN world.node : Ordinary(world.node[n]) /\ Live(n) =>
       ((world.node[n].el # 0 /\ Connected(world, world.node[n].el)) <=> n \in below)

\* A QUID that no node has any more is never given to a node again.
QuidNeverReused ==
  [][\A q \in world.issued \ DOMAIN world.q2n : q \notin DOMAIN world'.q2n]_treeVars

\* A batch that is refused, or fails while it is projected or adopted, leaves
\* content, ownership, links and the DOM of every element as they were.
BatchAllOrNothing ==
  [][outcome' = "batch" /\ treeCalls' # treeCalls =>
       \A n \in DOMAIN world.node :
         /\ world'.node[n].kids = world.node[n].kids
         /\ world'.node[n].par = world.node[n].par
         /\ world'.node[n].el = world.node[n].el
         /\ world.node[n].el # 0 =>
              world'.dom[world.node[n].el].kids = world.dom[world.node[n].el].kids]_treeVars

\* The graph, the QUID registry and the DOM say the same after every call.
TreeSound ==
  OneOwner /\ DisposedHoldsNothing /\ RegistryExact /\ DomMirrorsGraph /\ MountedIsConnected
=============================================================================
