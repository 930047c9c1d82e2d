------------------------------- MODULE HtmlText -------------------------------
(***************************************************************************)
(* Markup as a form of the HSON graph (serialize-html.ts, the build of     *)
(* wire attributes, parse-html-string.ts and its DOM twin parse-html.ts).  *)
(*                                                                         *)
(* A markup document is the list of nodes its text denotes: elements with  *)
(* attributes, and texts.  Two texts in a row are one text, a text is read *)
(* without the blanks around it, and a blank one is not read at all; the   *)
(* serializer therefore transports a text that would suffer in an explicit *)
(* element.  Escaping is inverted by the reader and left out, and so are   *)
(* raw-text elements, standalone SVG and sanitising.                       *)
(***************************************************************************)
EXTENDS HsonGraph

CONSTANTS
  Trims,        \* a function: texts with blanks around them, and what trimming leaves
  Joins(_, _),  \* the text that two texts in a row make
  EndsWith      \* pairs <<n, v>>: the name n ends, after a word boundary, in v

Trimmed(v) == IF v \in DOMAIN Trims THEN Trims[v] ELSE v

Markup(x, tag, quid, index, attrs, kids, v) ==
  [x |-> x, tag |-> tag, quid |-> quid, index |-> index, attrs |-> attrs, kids |-> kids, v |-> v]
MText(v) == Markup("text", "", NoQuid, NoIndex, {}, <<>>, v)
Wrapped(tag, kids) == Markup("el", tag, NoQuid, NoIndex, {}, kids, "")
MBad == <<Wrapped("bad", <<>>)>>

\* A text of two quotes stands for the empty text.
EmptySentinel == "''"

-----------------------------------------------------------------------------

\* element_cluster_needs_explicit_transport: a text the reader would drop, trim
\* or merge with the text beside it.
element_cluster_needs_explicit_transport(kids) ==
  \E i \in DOMAIN kids :
    /\ kids[i].tag = "str"
    /\ \/ kids[i].val = "" \/ kids[i].val \in DOMAIN Trims \/ kids[i].val = EmptySentinel
       \/ i > 1 /\ kids[i - 1].tag = "str"
       \/ i < Len(kids) /\ kids[i + 1].tag = "str"

\* serialize_html ends with a replacement that shortens key="key" to key.  It
\* looks for the value at the end of the name, from any word boundary on.
ShortenedAttrs(attrs) ==
  { IF a[1] = a[2] \/ a \in EndsWith THEN <<a[1], "">> ELSE a : a \in attrs }

RECURSIVE serialize_xml_node(_)

Kids(n) == FlattenSeq([i \in DOMAIN n.kids |-> serialize_xml_node(n.kids[i])])

\* The children of an element cluster melt into its parent's.
MeltedCluster(n) ==
  FlattenSeq([i \in DOMAIN n.kids |->
    IF n.kids[i].tag = "str" THEN <<MText(n.kids[i].val)>> ELSE serialize_xml_node(n.kids[i])])

\* build_wire_attrs carries the QUID and the index; an object has neither.
serialize_xml_node(n) ==
  CASE n.tag \in Leaves -> <<[Wrapped(n.tag, <<>>) EXCEPT !.v = n.val]>>
    [] n.tag = "elem" -> IF element_cluster_needs_explicit_transport(n.kids)
                         THEN <<Wrapped("elem", Kids(n))>> ELSE MeltedCluster(n)
    [] n.tag = "root" -> IF n.kids[1].tag \in Leaves THEN <<Wrapped("obj", Kids(n))>> ELSE Kids(n)
    [] n.tag = "obj" -> <<Wrapped("obj", Kids(n))>>
    [] OTHER -> <<Markup("el", n.tag, n.quid, n.index, ShortenedAttrs(n.attrs), Kids(n), "")>>

serialize_html(n) ==
  IF ~Canonical(n) \/ (n.tag = "root" /\ n.kids = <<>>) THEN MBad
  ELSE IF n.tag \in Leaves THEN <<Wrapped("obj", serialize_xml_node(n))>>
  ELSE serialize_xml_node(n)

-----------------------------------------------------------------------------
\* What the reader of the text sees: texts in a row are one.
RECURSIVE Coalesced(_)
Coalesced(ms) ==
  IF Len(ms) < 2 THEN ms
  ELSE IF ms[1].x = "text" /\ ms[2].x = "text"
  THEN Coalesced(<<MText(Joins(ms[1].v, ms[2].v))>> \o SubSeq(ms, 3, Len(ms)))
  ELSE <<ms[1]>> \o Coalesced(Tail(ms))

\* attributes_from_element: an attribute without a value, or whose value is its
\* name, is a flag.
AttributesFrom(attrs) ==
  { <<a[1], IF a[2] = "" THEN a[1] ELSE Trimmed(a[2])>> : a \in attrs }

RECURSIVE element_to_hson(_)

\* child_values: every child with whether it was a text.
TextKept(m, parent) == m.x = "el" \/ (IF parent = "obj" THEN m.v ELSE Trimmed(m.v)) # ""

TextNode(m, parent) ==
  LeafNode("str", IF Trimmed(m.v) = EmptySentinel THEN ""
                  ELSE IF parent = "obj" THEN m.v ELSE Trimmed(m.v))

KeptChildren(ms, parent) == SelectSeq(Coalesced(ms), LAMBDA m : TextKept(m, parent))

child_values(kept, parent) ==
  [i \in DOMAIN kept |-> IF kept[i].x = "text" THEN TextNode(kept[i], parent) ELSE element_to_hson(kept[i])]

PlainText(kept) ==
  Len(kept) = 1 /\ kept[1].x = "text" /\ Trimmed(kept[1].v) # EmptySentinel

\* Whether children are the content of an ordinary element as they are, or an
\* element cluster around them.
OrdinaryContent(kids, plainText) ==
  IF \/ kids = <<>>
     \/ Len(kids) = 1 /\ kids[1].tag \in Clusters
     \/ Len(kids) = 1 /\ kids[1].tag \in Leaves /\ ~plainText
  THEN kids ELSE <<PlainNode("elem", kids)>>

MixesValue(content) ==
  content # <<>> /\ content[1].tag = "elem" /\ \E i \in DOMAIN content[1].kids : content[1].kids[i].tag = "val"

OrdinaryElement(m, attrs, content) ==
  IF MixesValue(content) THEN Bad ELSE [HNode(m.tag, m.quid, attrs, content) EXCEPT !.index = m.index]

\* A structural element: a text and an element cluster may carry nothing, the
\* attributes of the others are dropped.
StructuralElement(m, attrs, kids) ==
  LET bare == attrs = {} /\ m.index = NoIndex
      allowed == CASE m.tag = "arr" -> \A i \in DOMAIN kids : kids[i].tag = "ii"
                   [] m.tag = "ii" -> Len(kids) = 1
                   [] m.tag = "elem" -> bare /\ ~MixesValue(<<PlainNode("elem", kids)>>)
                   [] m.tag = "str" -> bare
                   [] OTHER -> TRUE
  IN CASE ~allowed -> Bad
       [] m.tag \in Leaves -> LeafNode(m.tag, m.v)
       [] OTHER -> [HNode(m.tag, m.quid, {}, kids) EXCEPT !.index = m.index]

ElementFrom(m, kids, plainText) ==
  CASE AnyBad(kids) -> Bad
    [] m.tag \in Clusters \union Leaves \union {"ii"} -> StructuralElement(m, AttributesFrom(m.attrs), kids)
    [] OTHER -> OrdinaryElement(m, AttributesFrom(m.attrs), OrdinaryContent(kids, plainText))

element_to_hson(m) ==
  LET Read(kept) == ElementFrom(m, child_values(kept, m.tag), PlainText(kept))
  IN Read(KeptChildren(m.kids, m.tag))

RootOf(nodes) ==
  LET only == Len(nodes) = 1
  IN CASE AnyBad(nodes) -> Bad
       [] nodes = <<>> -> PlainNode("root", <<>>)
       [] only /\ nodes[1].tag = "root" -> nodes[1]
       [] only /\ nodes[1].tag \in Clusters \union Leaves -> PlainNode("root", nodes)
       [] only /\ Ordinary(nodes[1]) /\ classify_ordinary_hson_structure(nodes[1]) \in ObjectKinds ->
            PlainNode("root", <<PlainNode("obj", nodes)>>)
       [] OTHER -> PlainNode("root", <<PlainNode("elem", nodes)>>)

root_from_children(ms) == RootOf(child_values(KeptChildren(ms, "elem"), "elem"))

parse_html_string(ms) ==
  LET Checked(node) == IF ~IsBad(node) /\ QuidsWellPlaced(node) /\ Canonical(node) THEN node ELSE Bad
  IN IF ms = MBad THEN Bad ELSE Checked(normalize_hson_array_index_order(root_from_children(ms)))

\* fromHtml().toNode() at the boundary of the circuit.
parse_html(ms) ==
  LET Detached(value) == IF IsBad(value) THEN Bad ELSE normalize_detached_hson_semantic_value(value)
  IN Detached(detach_hson_root_value(parse_html_string(ms)))
==============================================================================
