------------------------------ MODULE HsonGraph ------------------------------
(***************************************************************************)
(* The HSON node graph (src/src/core): what a node is, which graphs are    *)
(* canonical, how permissive graphs are normalised, and where persisted    *)
(* QUIDs may sit.                                                          *)
(*                                                                         *)
(* A node has a tag: one of the structural tags of VSN (the code's         *)
(* `_hson_` tags without the prefix) or an ordinary name.  The payload of  *)
(* a str or val leaf is `val`; every other node has children.  Attributes  *)
(* are a set of name and value pairs, a flag being a name paired with      *)
(* itself.  `index` is the position an ii node claims in its array.        *)
(*                                                                         *)
(* An error the code throws is the node Bad, whatever its code and path.   *)
(* The definitions recurse on the graph, so the module serves TLC only.    *)
(***************************************************************************)
EXTENDS Naturals, Sequences, FiniteSets, SequencesExt

NoQuid == "no quid"
NoVal == "no value"
NoIndex == 99

HNode(tag, quid, attrs, kids) ==
  [tag |-> tag, quid |-> quid, attrs |-> attrs, kids |-> kids, val |-> NoVal, index |-> NoIndex]

PlainNode(tag, kids) == HNode(tag, NoQuid, {}, kids)

LeafNode(tag, v) == [PlainNode(tag, <<>>) EXCEPT !.val = v]

Bad == PlainNode("bad", <<>>)
IsBad(n) == n.tag = "bad"

Clusters == {"obj", "elem", "arr"}
Leaves == {"str", "val"}
VSN == Clusters \union Leaves \union {"root", "ii"}

Ordinary(n) == n.tag \notin VSN

With(n, kids) == [n EXCEPT !.kids = kids]

\* An array whose items are wrapped in ii nodes that carry their positions.
ItemsAt(items) == [i \in DOMAIN items |-> [PlainNode("ii", <<items[i]>>) EXCEPT !.index = i - 1]]

OnlyKid(n, tags) == Len(n.kids) = 1 /\ n.kids[1].tag \in tags

-----------------------------------------------------------------------------
\* What an ordinary node's content says of the branch it belongs to.
classify_ordinary_hson_structure(n) ==
  CASE n.kids = <<>> -> "empty-element"
    [] OnlyKid(n, Leaves) -> "object-scalar"
    [] OnlyKid(n, {"elem"}) -> IF n.kids[1].kids = <<>> THEN "legacy" ELSE "element"
    [] OnlyKid(n, {"obj"}) -> "object"
    [] OnlyKid(n, {"arr"}) -> "array"
    [] OTHER -> "invalid"

ElementKinds == {"empty-element", "element"}
ObjectKinds == {"object", "object-scalar", "array"}

\* The ii children of an array in the order of the positions they claim; the
\* claims must be exactly the positions there are.
IndexesClaimed(kids) ==
  /\ \A i \in DOMAIN kids : kids[i].tag = "ii"
  /\ { kids[i].index : i \in DOMAIN kids } = 0..(Len(kids) - 1)

InClaimedOrder(kids) ==
  [p \in DOMAIN kids |-> kids[CHOOSE i \in DOMAIN kids : kids[i].index = p - 1]]

\* A QUID belongs to ordinary nodes, arrays, and objects that are not the
\* carrier of a single value.
QuidEligible(n) ==
  \/ Ordinary(n)
  \/ n.tag = "arr"
  \/ n.tag = "obj" /\ ~OnlyKid(n, Leaves \union {"obj", "arr"})

MetaAllowed(n) ==
  /\ n.quid # NoQuid => QuidEligible(n)
  /\ n.index # NoIndex => n.tag = "ii"

-----------------------------------------------------------------------------
\* assert_invariants: a graph with this property is canonical.
RECURSIVE Walk(_, _)

UnderParent(n, kind, parent) ==
  /\ kind \notin {"invalid", "legacy"}
  /\ parent = "elem" => kind \in ElementKinds
  /\ parent = "obj" => kind \in ObjectKinds
  /\ parent # "ii"

WalkOrdinary(n, parent) ==
  LET kind == classify_ordinary_hson_structure(n)
  IN UnderParent(n, kind, parent) /\ (kind = "empty-element" \/ Walk(n.kids[1], n.tag))

WalkArr(n) ==
  /\ IndexesClaimed(n.kids)
  /\ InClaimedOrder(n.kids) = n.kids
  /\ \A i \in DOMAIN n.kids : Walk(n.kids[i], "arr")

WalkElem(n) ==
  /\ n.kids # <<>>
  /\ \A i \in DOMAIN n.kids :
       n.kids[i].tag \notin {"val", "obj", "arr", "ii"} /\ Walk(n.kids[i], "elem")

WalkObj(n) ==
  /\ \A i \in DOMAIN n.kids :
       n.kids[i].attrs = {} /\ n.kids[i].tag # "elem" /\ Walk(n.kids[i], "obj")
  /\ \A i, j \in DOMAIN n.kids :
       i # j /\ Ordinary(n.kids[i]) => n.kids[i].tag # n.kids[j].tag

WalkItem(n, parent) ==
  parent = "arr" /\ OnlyKid(n, VSN \ {"elem"}) /\ Walk(n.kids[1], "ii")

WalkRoot(n) ==
  n.kids = <<>> \/ (OnlyKid(n, Clusters \union Leaves) /\ Walk(n.kids[1], "root"))

Walk(n, parent) ==
  /\ ~IsBad(n)
  /\ MetaAllowed(n)
  /\ Ordinary(n) \/ n.attrs = {}
  /\ CASE Ordinary(n) -> WalkOrdinary(n, parent)
       [] n.tag \in Leaves -> n.val # NoVal /\ n.kids = <<>>
       [] n.tag = "ii" -> WalkItem(n, parent)
       [] n.tag = "arr" -> WalkArr(n)
       [] n.tag = "elem" -> WalkElem(n)
       [] n.tag = "obj" -> WalkObj(n)
       [] n.tag = "root" -> WalkRoot(n)

Canonical(n) == Walk(n, "none")

-----------------------------------------------------------------------------
\* normalize_hson_graph: supply the cluster an ordinary node leaves out, from
\* the branch it is in or from its children, and put array items in order.
AnyBad(kids) == \E i \in DOMAIN kids : IsBad(kids[i])

ChildModes(kids) ==
  { IF kids[i].tag = "val" THEN "obj"
    ELSE IF classify_ordinary_hson_structure(kids[i]) \in ElementKinds THEN "elem" ELSE "obj" :
    i \in { j \in DOMAIN kids : \/ kids[j].tag = "val"
                                \/ /\ Ordinary(kids[j])
                                   /\ classify_ordinary_hson_structure(kids[j])
                                        \in ElementKinds \union ObjectKinds } }

InferredCluster(n, kids, mode) ==
  LET modes == ChildModes(kids)
      inferred == IF mode # "any" THEN mode ELSE IF "obj" \in modes THEN "obj" ELSE "elem"
  IN IF \/ \E i \in DOMAIN kids : kids[i].tag \in Clusters
        \/ modes = {"elem", "obj"}
        \/ mode # "any" /\ modes \ {mode} # {}
     THEN Bad
     ELSE With(n, <<PlainNode(inferred, kids)>>)

NormalizedOrdinary(n, kids, mode) ==
  CASE kids = <<>> -> With(n, <<>>)
    [] Len(kids) = 1 /\ kids[1].tag = "elem" /\ kids[1].kids = <<>> -> With(n, <<>>)
    [] Len(kids) = 1 /\ kids[1].tag \in Clusters -> With(n, kids)
    [] Len(kids) = 1 /\ kids[1].tag \in Leaves ->
         IF mode = "elem" /\ kids[1].tag = "val" THEN Bad
         ELSE With(n, <<PlainNode(IF mode = "elem" THEN "elem" ELSE "obj", kids)>>)
    [] OTHER -> InferredCluster(n, kids, mode)

ModeBelow(n, mode) ==
  CASE n.tag \in {"elem", "obj"} -> n.tag
    [] Ordinary(n) -> mode
    [] OTHER -> "any"

RECURSIVE NormalizeVisit(_, _)
NormalizeVisit(n, mode) ==
  LET kids == [i \in DOMAIN n.kids |-> NormalizeVisit(n.kids[i], ModeBelow(n, mode))]
  IN CASE IsBad(n) \/ AnyBad(kids) -> Bad
       [] Ordinary(n) -> NormalizedOrdinary(n, kids, mode)
       [] n.tag = "arr" -> IF IndexesClaimed(kids) THEN With(n, InClaimedOrder(kids)) ELSE Bad
       [] n.tag = "ii" /\ Len(kids) = 1 /\ Ordinary(kids[1]) -> Bad
       [] OTHER -> With(n, kids)

normalize_hson_graph(n) == NormalizeVisit(n, "any")

\* Only the order of array items, as the markup parser needs it.
RECURSIVE normalize_hson_array_index_order(_)
normalize_hson_array_index_order(n) ==
  LET kids == [i \in DOMAIN n.kids |-> normalize_hson_array_index_order(n.kids[i])]
  IN CASE IsBad(n) \/ AnyBad(kids) -> Bad
       [] n.tag = "arr" -> IF IndexesClaimed(kids) THEN With(n, InClaimedOrder(kids)) ELSE Bad
       [] OTHER -> With(n, kids)

-----------------------------------------------------------------------------
\* normalize_detached_hson_semantic_value: a scalar carrier in the position of
\* a value is the scalar; the carrier of an object member or an element stays.
ScalarCarrier(n) == (n.tag = "obj" /\ OnlyKid(n, Leaves)) \/ (n.tag = "elem" /\ OnlyKid(n, {"str"}))

RECURSIVE VisitSemantic(_)

VisitMember(m) ==
  IF Len(m.kids) # 1 THEN m
  ELSE IF m.kids[1].tag = "arr" \/ (m.kids[1].tag = "obj" /\ ~ScalarCarrier(m.kids[1]))
  THEN With(m, <<VisitSemantic(m.kids[1])>>)
  ELSE m

VisitSemantic(n) ==
  CASE ScalarCarrier(n) -> n.kids[1]
    [] n.tag = "arr" -> With(n, [i \in DOMAIN n.kids |->
                                  IF Len(n.kids[i].kids) = 1
                                  THEN With(n.kids[i], <<VisitSemantic(n.kids[i].kids[1])>>)
                                  ELSE n.kids[i]])
    [] n.tag = "obj" -> With(n, [i \in DOMAIN n.kids |-> VisitMember(n.kids[i])])
    [] OTHER -> n

normalize_detached_hson_semantic_value(n) ==
  LET Visited(g) == IF IsBad(g) THEN Bad ELSE VisitSemantic(g) IN Visited(normalize_hson_graph(n))

\* The value of a parsed root, which must hold exactly one.
detach_hson_root_value(n) ==
  IF n.tag = "root" THEN (IF Len(n.kids) = 1 THEN n.kids[1] ELSE Bad) ELSE n

-----------------------------------------------------------------------------
\* QUIDs in the order the graph is walked.
RECURSIVE QuidClaims(_)
QuidClaims(n) ==
  (IF n.quid = NoQuid THEN <<>> ELSE <<n.quid>>)
    \o FlattenSeq([i \in DOMAIN n.kids |-> QuidClaims(n.kids[i])])

\* scan_hson_node_quids: every claim sits on a node that may carry it.
RECURSIVE QuidsWellPlaced(_)
QuidsWellPlaced(n) ==
  (n.quid # NoQuid => QuidEligible(n)) /\ \A i \in DOMAIN n.kids : QuidsWellPlaced(n.kids[i])

\* remove_hson_node_quid on every node that satisfies a condition by its tag.
RECURSIVE WithoutQuids(_, _)
WithoutQuids(n, tags) ==
  [n EXCEPT !.quid = IF n.tag \in tags \/ ("ordinary" \in tags /\ Ordinary(n)) THEN NoQuid ELSE @,
            !.kids = [i \in DOMAIN n.kids |-> WithoutQuids(n.kids[i], tags)]]

\* transform_from_node: a graph handed to a serializer is normalised, its QUIDs
\* are scanned and its invariants asserted; a duplicate QUID is not an error.
transform_from_node(n) ==
  LET Checked(g) == IF ~IsBad(g) /\ QuidsWellPlaced(g) /\ Canonical(g) THEN g ELSE Bad
  IN Checked(normalize_detached_hson_semantic_value(n))
==============================================================================
