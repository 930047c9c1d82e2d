---------------------------- MODULE DocumentGraph ----------------------------
(***************************************************************************)
(* The pure part of LiveMap's documents: how a path selects a node, how    *)
(* the sparse identity overlay follows the paths of QUIDs through an edit, *)
(* how every graph operation is planned on a candidate root, how logical   *)
(* locations are lowered to physical slots, and what a document schema     *)
(* accepts.                                                                *)
(*                                                                         *)
(* A path is a sequence of content indexes counted from 0, from the        *)
(* document's path base: the element of an element document, the elem      *)
(* cluster of a fragment.  The overlay is a set of <<quid, path>> pairs.   *)
(* A primitive given as content is a "prim" node; only a str leaf or (as a *)
(* new str leaf) an elem cluster can hold one.                             *)
(***************************************************************************)
EXTENDS HsonGraph

NoPath == <<99>>

Prim(v) == LeafNode("prim", v)

\* $_content of a node: the payload of a leaf is a slot as well.
Slots(n) == IF n.tag \in Leaves THEN <<Prim(n.val)>> ELSE n.kids

\* A node with other slots; what no canonical graph can hold becomes Bad.
WithSlots(n, slots) ==
  CASE n.tag \in Leaves ->
         IF Len(slots) = 1 /\ slots[1].tag = "prim" THEN [n EXCEPT !.val = slots[1].val] ELSE Bad
    [] \E i \in DOMAIN slots : slots[i].tag = "prim" -> Bad
    [] OTHER -> With(n, slots)

RECURSIVE At(_, _), PutAt(_, _, _), Claims(_, _), Stripped(_)

\* The node a physical path reaches, or Bad.
At(n, path) ==
  IF path = <<>> THEN n
  ELSE IF n.tag = "prim" \/ path[1] >= Len(Slots(n)) THEN Bad
  ELSE At(Slots(n)[path[1] + 1], Tail(path))

PutAt(n, path, new) ==
  IF path = <<>> THEN new
  ELSE WithSlots(n, [Slots(n) EXCEPT ![path[1] + 1] = PutAt(@, Tail(path), new)])

\* Every QUID of a graph with its path from `path`, in a set: a QUID twice in
\* the graph is there with two paths.
Claims(n, path) ==
  (IF n.quid = NoQuid THEN {} ELSE {<<n.quid, path>>})
    \union UNION { Claims(n.kids[i], Append(path, i - 1)) : i \in DOMAIN n.kids }

\* clone_hson_graph_without_quids.
Stripped(n) ==
  [n EXCEPT !.quid = NoQuid, !.kids = [i \in DOMAIN n.kids |-> Stripped(n.kids[i])]]

\* append_document_path and parent_document_path.
parent_document_path(path) == SubSeq(path, 1, Len(path) - 1)

document_path_is_prefix(prefix, path) ==
  Len(prefix) <= Len(path) /\ SubSeq(path, 1, Len(prefix)) = prefix

-----------------------------------------------------------------------------
\* Root modes.
classify_live_root_mode(root) ==
  CASE ~Canonical(root) \/ root.tag # "root" -> "malformed"
    [] root.kids = <<>> -> "fragment"
    [] root.kids[1].tag = "obj" -> "data-object"
    [] root.kids[1].tag = "arr" -> "data-array"
    [] root.kids[1].tag # "elem" -> "malformed"
    [] Len(root.kids[1].kids) = 1 /\ Ordinary(root.kids[1].kids[1]) -> "element"
    [] OTHER -> "fragment"

EmptyFragment(root) == root.kids = <<>>

\* document_path_base as the physical path from the root node.
document_path_base(mode) == IF mode = "element" THEN <<0, 0>> ELSE <<0>>

resolve_document_path(root, mode, path) == At(root, document_path_base(mode) \o path)

-----------------------------------------------------------------------------
\* The identity overlay.
OverlayOK(overlay) ==
  \A a, b \in overlay : (a[1] = b[1]) <=> (a[2] = b[2])

OverlayQuids(overlay) == { e[1] : e \in overlay }
pathForQuid(overlay, quid) ==
  IF quid \in OverlayQuids(overlay) THEN (CHOOSE e \in overlay : e[1] = quid)[2] ELSE NoPath
quidAtPath(overlay, path) ==
  IF \E e \in overlay : e[2] = path THEN (CHOOSE e \in overlay : e[2] = path)[1] ELSE NoQuid

\* build_livemap_document_identity_overlay; a root may carry no QUID outside
\* its path base, and none twice.
build_overlay(root, mode) ==
  IF EmptyFragment(root) THEN {}
  ELSE Claims(At(root, document_path_base(mode)), <<>>)

Retired == <<98>>

\* Mutant: the last sibling a move passes stays where it is.
MovedSiblingShort(sibling, from, to) ==
  CASE sibling = from -> to
    [] from < sibling /\ sibling < to -> sibling - 1
    [] to <= sibling /\ sibling < from -> sibling + 1
    [] OTHER -> sibling

\* The index a sibling has after a move.
MovedSibling(sibling, from, to) ==
  CASE sibling = from -> to
    [] from < sibling /\ sibling <= to -> sibling - 1
    [] to <= sibling /\ sibling < from -> sibling + 1
    [] OTHER -> sibling

\* Where a path is after one structural effect [kind, parent, index, to].
transform_document_path(path, effect) ==
  IF ~document_path_is_prefix(effect.parent, path) \/ effect.parent = path THEN path
  ELSE
    LET ordinal == Len(effect.parent) + 1
        Shifted(sibling) ==
          CASE effect.kind = "insert" /\ sibling >= effect.index -> sibling + 1
            [] effect.kind = "delete" /\ sibling > effect.index -> sibling - 1
            [] effect.kind = "move" -> MovedSibling(sibling, effect.index, effect.to)
            [] OTHER -> sibling
    IN IF effect.kind \in {"delete", "replace"} /\ path[ordinal] = effect.index THEN Retired
       ELSE [path EXCEPT ![ordinal] = Shifted(@)]

Effect(kind, quid, from, to) == [kind |-> kind, quid |-> quid, from |-> from, to |-> to]

\* reconcile_livemap_document_identity_overlay: the entries that survive the
\* effect, and the claims of the incoming subtree, with what happened to each.
reconcile_overlay(overlay, effect, incoming, path) ==
  LET after == { <<e[1], e[2], transform_document_path(e[2], effect)>> : e \in overlay }
      Joined(new, claims, entries) ==
        LET kept == { e \in entries : e[3] # Retired }
        IN [ok |-> OverlayOK(new), overlay |-> new,
            effects |->
              { Effect("retired", e[1], e[2], NoPath) : e \in entries \ kept }
              \union { Effect("moved", e[1], e[2], e[3]) : e \in { x \in kept : x[3] # x[2] } }
              \union { Effect("introduced", c[1], NoPath, c[2]) : c \in claims }]
      Incoming(claims, entries) ==
        Joined({ <<e[1], e[3]>> : e \in { x \in entries : x[3] # Retired } } \union claims, claims, entries)
  IN Incoming(Claims(incoming, path), after)

\* replace_livemap_document_identity_overlay_effects.
replace_overlay_effects(old, new) ==
  { Effect("retired", e[1], e[2], NoPath) : e \in old }
    \union { Effect("introduced", e[1], NoPath, e[2]) : e \in new }

\* stage_livemap_identity_epoch: a QUID of the candidate that the document
\* does not have now must be new to the epoch.
StagedLedger(d, overlay) ==
  [ok |-> \A q \in OverlayQuids(overlay) \ OverlayQuids(d.overlay) : q \notin d.issued,
   issued |-> d.issued \union OverlayQuids(overlay)]

-----------------------------------------------------------------------------
\* Graph operations.  A request and a recorded operation have one shape; the
\* fields an operation has no use for keep the values of GraphOp.
GraphOp(op, path) ==
  [op |-> op, path |-> path, witness |-> NoQuid, index |-> 0, to |-> 0,
   content |-> Bad, name |-> "", value |-> "", attrs |-> {}, quid |-> NoQuid]

AttrOps == {"set-attr", "remove-attr", "replace-attrs"}

\* plan_public_attr_set and its siblings on a set of <<name, value>> pairs.
AttrNames(attrs) == { a[1] : a \in attrs }
plan_public_attrs_drop_many(current, names) == { a \in current : a[1] \notin names }
plan_public_attrs_set_many(current, values) ==
  plan_public_attrs_drop_many(current, AttrNames(values)) \union values
plan_public_attr_set(current, name, value) ==
  plan_public_attrs_set_many(current, {<<name, value>>})
plan_public_flags_set(current, names) ==
  plan_public_attrs_set_many(current, { <<n, n>> : n \in names })
plan_public_flags_clear(current, names) == current \ { <<n, n>> : n \in names }

\* insertion_content: a string put into an elem cluster becomes a str node.
insertion_content(endpoint, content) ==
  IF endpoint.tag = "elem" /\ content.tag = "prim" THEN LeafNode("str", content.val) ELSE content

\* A quid target names the path the overlay has for it and leaves a witness.
Request(op, overlay) ==
  IF op.quid = NoQuid \/ op.op = "ensure-quid" THEN op
  ELSE [op EXCEPT !.path = pathForQuid(overlay, op.quid), !.witness = op.quid, !.quid = NoQuid]

\* resolve_document_commit_target: the witness is evidence, never a route.
WitnessHolds(overlay, op, endpoint) ==
  op.witness = NoQuid \/ ~Ordinary(endpoint)
    \/ quidAtPath(overlay, op.path) \in {NoQuid, op.witness}

\* The endpoint after the operation, or Bad when the operation refuses it.
Edited(endpoint, op) ==
  LET slots == Slots(endpoint)
      here == op.index + 1
      last == IF op.op = "insert-content" THEN Len(slots) ELSE Len(slots) - 1
      Moved(others) ==
        IF op.op = "remove-content" THEN others ELSE InsertAt(others, op.to + 1, slots[here])
  IN CASE op.op \in AttrOps /\ ~Ordinary(endpoint) -> Bad
       [] op.op = "set-attr" ->
            [endpoint EXCEPT !.attrs = plan_public_attr_set(@, op.name, op.value)]
       [] op.op = "remove-attr" ->
            [endpoint EXCEPT !.attrs = plan_public_attrs_drop_many(@, {op.name})]
       [] op.op = "replace-attrs" -> [endpoint EXCEPT !.attrs = op.attrs]
       [] op.op = "ensure-quid" ->
            IF Ordinary(endpoint) /\ endpoint.quid \in {NoQuid, op.quid}
            THEN [endpoint EXCEPT !.quid = op.quid] ELSE Bad
       [] op.index > last \/ (op.op = "move-content" /\ op.to > last) -> Bad
       [] op.op = "insert-content" ->
            WithSlots(endpoint, InsertAt(slots, here, insertion_content(endpoint, op.content)))
       [] op.op = "replace-content" ->
            WithSlots(endpoint, [slots EXCEPT ![here] = insertion_content(endpoint, op.content)])
       [] op.op \in {"remove-content", "move-content"} ->
            IF op.op = "move-content" /\ op.index = op.to THEN endpoint
            ELSE WithSlots(endpoint, Moved(RemoveAt(slots, here)))

document_path_effect(op) ==
  [kind |-> CASE op.op = "insert-content" -> "insert"
              [] op.op = "remove-content" -> "delete"
              [] op.op = "replace-content" -> "replace"
              [] op.op = "move-content" -> "move",
   parent |-> op.path, index |-> op.index, to |-> op.to]

\* reconcile_operation_identity.
reconcile_operation_identity(overlay, op) ==
  CASE op.op \in AttrOps ->
         [ok |-> TRUE, overlay |-> overlay,
          effects |-> { Effect("preserved", e[1], e[2], e[2]) : e \in { x \in overlay : x[2] = op.path } }]
    [] op.op = "ensure-quid" ->
         LET new == overlay \union {<<op.quid, op.path>>}
         IN [ok |-> OverlayOK(new), overlay |-> new,
             effects |-> { Effect("introduced", e[1], NoPath, e[2]) : e \in new \ overlay }]
    [] OTHER ->
         reconcile_overlay(overlay, document_path_effect(op),
                           IF op.op \in {"insert-content", "replace-content"} THEN op.content ELSE Bad,
                           Append(op.path, op.index))

\* The root with the endpoint edited: an empty fragment gets its cluster with
\* the first insertion and loses it with the last removal.
EditedRoot(root, mode, op) ==
  IF EmptyFragment(root) THEN
    IF op.op = "insert-content" /\ op.path = <<>>
    THEN With(root, <<Edited(PlainNode("elem", <<>>), op)>>)
    ELSE Bad
  ELSE
    LET at == document_path_base(mode) \o op.path
        Put(edited) ==
          IF IsBad(edited) THEN Bad
          ELSE IF /\ op.op = "remove-content" /\ mode = "fragment" /\ op.path = <<>>
                  /\ edited.kids = <<>>
          THEN With(root, <<>>)
          ELSE PutAt(root, at, edited)
        Found(endpoint) ==
          IF IsBad(endpoint) \/ endpoint.tag = "prim" THEN Bad ELSE Put(Edited(endpoint, op))
    IN Found(At(root, at))

Recorded(root, mode, op) ==
  IF op.op = "replace-content"
  THEN [op EXCEPT !.content = insertion_content(resolve_document_path(root, mode, op.path), @)]
  ELSE op

Refused == [ok |-> FALSE, root |-> Bad, overlay |-> {}, op |-> GraphOp("none", <<>>), effects |-> {}]

\* prepare_document_graph_operation: one operation on a detached candidate.
\* `op` is a recorded operation, or a request after Request.
Prepared(root, mode, overlay, op) ==
  LET Identified(new, recorded, identity) ==
        IF ~identity.ok \/ classify_live_root_mode(new) # mode THEN Refused
        ELSE [ok |-> TRUE, root |-> new, overlay |-> identity.overlay,
              op |-> recorded, effects |-> identity.effects]
      Rooted(new, recorded) ==
        IF \/ IsBad(new)
           \/ ~EmptyFragment(root)
                /\ ~WitnessHolds(overlay, op, resolve_document_path(root, mode, op.path))
        THEN Refused
        ELSE Identified(new, recorded, reconcile_operation_identity(overlay, recorded))
  IN IF op.path = NoPath THEN Refused
     ELSE Rooted(EditedRoot(root, mode, op), Recorded(root, mode, op))

-----------------------------------------------------------------------------
\* Logical locations: the elem carrier of an element is not a step of a
\* logical path.  Physical(root, mode, path) is the physical path of the item
\* at a logical path, NoPath where there is none.
RECURSIVE Physical(_, _, _)

Content(n) == IF n.kids = <<>> THEN <<>> ELSE n.kids[1].kids

Physical(root, mode, path) ==
  IF path = <<>> THEN <<>>
  ELSE
    LET top == mode = "fragment" /\ Len(path) = 1
        Within(parent, owner) ==
          IF ~top /\ ~Ordinary(owner) THEN NoPath
          ELSE IF Last(path) >= Len(IF top THEN owner.kids ELSE Content(owner)) THEN NoPath
          ELSE IF top THEN path ELSE parent \o <<0, Last(path)>>
        Below(parent) ==
          IF parent = NoPath \/ EmptyFragment(root) THEN NoPath
          ELSE Within(parent, resolve_document_path(root, mode, parent))
    IN Below(Physical(root, mode, parent_document_path(path)))

\* resolve_document_content_owner: the container at a logical path, with its
\* physical path when it is there and the element that lacks it when it is not.
ContentOwner(root, mode, path) ==
  LET Owner(kind, at, length) == [kind |-> kind, path |-> at, length |-> length]
      Of(physical, item) ==
        IF physical = NoPath \/ ~Ordinary(item) THEN Owner("none", NoPath, 0)
        ELSE IF item.kids = <<>> THEN Owner("empty-element", physical, 0)
        ELSE Owner("carrier", Append(physical, 0), Len(Content(item)))
      Found(physical) == Of(physical, resolve_document_path(root, mode, physical))
  IN IF mode = "fragment" /\ path = <<>>
     THEN IF EmptyFragment(root) THEN Owner("empty-fragment", <<>>, 0)
          ELSE Owner("direct", <<>>, Len(root.kids[1].kids))
     ELSE Found(Physical(root, mode, path))

NoOp == GraphOp("none", NoPath)

\* The request a location's insert(), delete(), replace() and move() make.
insert_document_location(root, mode, path, index, content) ==
  LET carrier == PlainNode("elem", <<insertion_content(PlainNode("elem", <<>>), content)>>)
      In(owner) ==
        IF owner.kind = "none" \/ index > owner.length THEN NoOp
        ELSE [GraphOp("insert-content", owner.path) EXCEPT
                !.index = IF owner.kind = "empty-element" THEN 0 ELSE index,
                !.content = IF owner.kind = "empty-element" THEN carrier ELSE content]
  IN In(ContentOwner(root, mode, path))

delete_document_location(root, mode, path) ==
  LET index == Last(path)
      From(owner) ==
        IF owner.kind \notin {"direct", "carrier"} \/ index >= owner.length THEN NoOp
        ELSE IF owner.kind = "carrier" /\ owner.length = 1
        THEN GraphOp("remove-content", parent_document_path(owner.path))
        ELSE [GraphOp("remove-content", owner.path) EXCEPT !.index = index]
  IN IF path = <<>> THEN NoOp ELSE From(ContentOwner(root, mode, parent_document_path(path)))

replace_document_location(root, mode, path, content) ==
  LET Slot(slot) ==
        IF slot = NoPath THEN NoOp
        ELSE [GraphOp("replace-content", parent_document_path(slot))
                EXCEPT !.index = Last(slot), !.content = content]
  IN IF path = <<>> THEN NoOp ELSE Slot(Physical(root, mode, path))

move_document_location(root, mode, path, from, to) ==
  LET In(owner) ==
        IF owner.kind \notin {"direct", "carrier"} THEN NoOp
        ELSE [GraphOp("move-content", owner.path) EXCEPT !.index = from, !.to = to]
  IN In(ContentOwner(root, mode, path))

\* find_internal_document_id_path: the first item in document order among
\* the items below `path` whose id attribute is `id`, NoPath if there is none.
RECURSIVE FindId(_, _, _)
FindId(items, path, id) ==
  LET here(i) == Append(path, i - 1)
      found == [i \in DOMAIN items |->
                  CASE ~Ordinary(items[i]) -> NoPath
                    [] Ordinary(items[i]) /\ <<"id", id>> \in items[i].attrs -> here(i)
                    [] OTHER -> FindId(Content(items[i]), here(i), id)]
      hits == { i \in DOMAIN items : found[i] # NoPath }
  IN IF hits = {} THEN NoPath ELSE found[Min(hits)]

-----------------------------------------------------------------------------
\* Document schemas: [kind, tag, attrs, content, items] records.  `attrs` is a
\* set of required names, `content` a schema of kind sequence or repeat, or
\* AnyContent where the element schema leaves it open.
RECURSIVE ValidItem(_, _), ValidContent(_, _)

ItemSchema(kind, tag, attrs, items) ==
  [kind |-> kind, tag |-> tag, attrs |-> attrs, items |-> items]

AnyContent == ItemSchema("open", "", {}, <<>>)

\* validate_item and validate_attrs.
ValidItem(schema, n) ==
  CASE schema.kind = "pick" -> \E i \in DOMAIN schema.items : ValidItem(schema.items[i], n)
    [] schema.kind = "text" -> n.tag = "str"
    [] schema.kind = "unknown" -> TRUE
    [] schema.kind = "element" ->
         /\ Ordinary(n)
         /\ schema.tag \in {"", n.tag}
         /\ schema.attrs \subseteq AttrNames(n.attrs)
         /\ schema.items = <<>> \/ ValidContent(schema.items[1], Content(n))

ValidContent(schema, children) ==
  CASE schema.kind = "open" -> TRUE
    [] schema.kind = "pick" -> \E i \in DOMAIN schema.items : ValidContent(schema.items[i], children)
    [] schema.kind = "repeat" -> \A i \in DOMAIN children : ValidItem(schema.items[1], children[i])
    [] schema.kind = "sequence" ->
         /\ Len(children) = Len(schema.items)
         /\ \A i \in DOMAIN children : ValidItem(schema.items[i], children[i])

validate_document_schema_root(schema, root, mode) ==
  \/ schema.kind = "open"
  \/ IF schema.kind = "element"
     THEN mode = "element" /\ ValidItem(schema, root.kids[1].kids[1])
     ELSE /\ mode = "fragment"
          /\ ValidContent(schema, IF EmptyFragment(root) THEN <<>> ELSE root.kids[1].kids)
=============================================================================
