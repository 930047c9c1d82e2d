------------------------------- MODULE JsonText -------------------------------
(***************************************************************************)
(* JSON as a form of the HSON graph (parse-json.ts, serialize-json.ts,     *)
(* core/projected-value-graph.ts).  A JSON document is its ordered value:  *)
(* the keys of an object keep their order, and a key twice is refused      *)
(* where the text is read.  An element is written in a reserved envelope:  *)
(* `_hson_elem` holds a list, and an element in it is an object with one   *)
(* tag key beside `$_attrs` and `$_meta`.                                  *)
(***************************************************************************)
EXTENDS HsonGraph

JValue(j, v, keys, items) == [j |-> j, v |-> v, keys |-> keys, items |-> items]
JStr(v) == JValue("str", v, <<>>, <<>>)
JPrim(v) == JValue("prim", v, <<>>, <<>>)
JArr(items) == JValue("arr", "", <<>>, items)
JObj(keys, items) == JValue("obj", "", keys, items)
JBad == JValue("bad", "", <<>>, <<>>)

ElemKey == "_hson_elem"
RootKey == "_hson_root"
AttrsKey == "$_attrs"
MetaKey == "$_meta"
ReservedKeys == {ElemKey, RootKey, AttrsKey, MetaKey, "_hson_obj", "_hson_arr", "_hson_str", "_hson_val", "_hson_ii"}

Has(obj, key) == Contains(obj.keys, key)
Get(obj, key) == obj.items[CHOOSE i \in DOMAIN obj.keys : obj.keys[i] = key]

-----------------------------------------------------------------------------
\* projected_value_to_hson_node, with the check on reserved keys before it.
RECURSIVE ProjectedKeysAllowed(_)
ProjectedKeysAllowed(v) ==
  /\ \A i \in DOMAIN v.keys : v.keys[i] \notin ReservedKeys
  /\ \A i \in DOMAIN v.items : ProjectedKeysAllowed(v.items[i])

RECURSIVE projected_value_to_hson_node(_)

projected_object_property_to_hson_node(key, v) ==
  LET child == projected_value_to_hson_node(v)
  IN PlainNode(key, <<IF child.tag \in {"obj", "arr"} THEN child ELSE PlainNode("obj", <<child>>)>>)

projected_value_to_hson_node(v) ==
  CASE v.j = "str" -> LeafNode("str", v.v)
    [] v.j = "prim" -> LeafNode("val", v.v)
    [] v.j = "arr" -> PlainNode("arr", ItemsAt([i \in DOMAIN v.items |-> projected_value_to_hson_node(v.items[i])]))
    [] v.j = "obj" -> PlainNode("obj", [i \in DOMAIN v.items |->
                                     projected_object_property_to_hson_node(v.keys[i], v.items[i])])

\* parse_ordered_json_text: a duplicate key is an error at any depth.
RECURSIVE KeysUnique(_)
KeysUnique(v) == IsInjective(v.keys) /\ \A i \in DOMAIN v.items : KeysUnique(v.items[i])

-----------------------------------------------------------------------------
\* nodeFromJson
RECURSIVE nodeFromJson(_)

AttrsFrom(obj) ==
  IF Has(obj, AttrsKey)
  THEN LET a == Get(obj, AttrsKey) IN { <<a.keys[i], a.items[i].v>> : i \in DOMAIN a.keys }
  ELSE {}

QuidFrom(obj) == IF Has(obj, MetaKey) /\ Has(Get(obj, MetaKey), "quid")
                 THEN Get(Get(obj, MetaKey), "quid").v ELSE NoQuid

\* An item of `_hson_elem`: a text, a primitive (refused by the invariants), or
\* an object with exactly one tag.
ElementFromJson(obj) ==
  LET tags == SelectSeq(obj.keys, LAMBDA k : k \notin ReservedKeys)
      payload == Get(obj, tags[1])
      kids == IF payload = JStr("") THEN <<>> ELSE <<nodeFromJson(payload)>>
  IN IF Len(tags) # 1 \/ Has(obj, ElemKey) \/ Has(obj, RootKey) \/ AnyBad(kids) THEN Bad
     ELSE HNode(tags[1], QuidFrom(obj), AttrsFrom(obj), kids)

ElementItem(v) ==
  CASE v.j = "str" -> LeafNode("str", v.v)
    [] v.j = "prim" -> LeafNode("val", v.v)
    [] v.j = "obj" -> ElementFromJson(v)
    [] OTHER -> Bad

ElementList(v) ==
  LET Listed(kids) == IF AnyBad(kids) THEN Bad ELSE PlainNode("elem", kids)
  IN IF v.j # "arr" THEN Bad ELSE Listed([i \in DOMAIN v.items |-> ElementItem(v.items[i])])

\* An explicit root holds one value and nothing beside it; a scalar in it is
\* element content.
RootFromJson(obj) ==
  LET child == nodeFromJson(Get(obj, RootKey))
  IN IF (\E i \in DOMAIN obj.keys : obj.keys[i] \notin {RootKey, MetaKey}) \/ IsBad(child) THEN Bad
     ELSE PlainNode("root", <<IF child.tag \in Leaves THEN PlainNode("elem", <<child>>) ELSE child>>)

nodeFromJson(v) ==
  CASE v.j = "obj" /\ Has(v, RootKey) -> RootFromJson(v)
    [] v.j = "obj" /\ ~Has(v, RootKey) /\ Has(v, ElemKey) -> ElementList(Get(v, ElemKey))
    [] OTHER -> IF ProjectedKeysAllowed(v) THEN projected_value_to_hson_node(v) ELSE Bad

ParseJson(v) ==
  LET Checked(graph) == IF ~IsBad(graph) /\ Canonical(graph) THEN graph ELSE Bad
      Rooted(node) ==
        IF IsBad(node) THEN Bad
        ELSE Checked(normalize_hson_graph(IF node.tag = "root" THEN node ELSE PlainNode("root", <<node>>)))
  IN IF KeysUnique(v) THEN Rooted(nodeFromJson(v)) ELSE Bad

\* fromJson().toNode() at the boundary of the circuit.
parse_json(v) == IF v.j = "bad" THEN Bad ELSE detach_hson_root_value(ParseJson(v))

-----------------------------------------------------------------------------
\* projected_value_from_hson_node: plain values, which have no place for a QUID.
RECURSIVE projected_value_from_hson_node(_)
projected_value_from_hson_node(n) ==
  CASE n.tag = "str" -> JStr(n.val)
    [] n.tag = "val" -> JPrim(n.val)
    [] n.tag = "arr" -> JArr([i \in DOMAIN n.kids |-> projected_value_from_hson_node(n.kids[i].kids[1])])
    [] n.tag = "root" \/ (n.tag = "obj" /\ OnlyKid(n, Leaves \union {"obj", "arr"})) ->
         projected_value_from_hson_node(n.kids[1])
    [] OTHER -> JObj([i \in DOMAIN n.kids |-> n.kids[i].tag],
                     [i \in DOMAIN n.kids |-> projected_value_from_hson_node(n.kids[i].kids[1])])

\* orderedJsonFromNode: the envelope of elements.
RECURSIVE orderedJsonFromNode(_)

AttrsToJson(attrs) ==
  LET s == SetToSeq(attrs) IN JObj([i \in DOMAIN s |-> s[i][1]], [i \in DOMAIN s |-> JStr(s[i][2])])

ElementToJson(n) ==
  LET payload == IF n.kids = <<>> THEN JObj(<<ElemKey>>, <<JArr(<<>>)>>) ELSE orderedJsonFromNode(n.kids[1])
      extra == (IF n.attrs = {} THEN <<>> ELSE <<<<AttrsKey, AttrsToJson(n.attrs)>>>>)
                 \o (IF n.quid = NoQuid THEN <<>> ELSE <<<<MetaKey, JObj(<<"quid">>, <<JStr(n.quid)>>)>>>>)
  IN JObj(<<n.tag>> \o [i \in DOMAIN extra |-> extra[i][1]], <<payload>> \o [i \in DOMAIN extra |-> extra[i][2]])

orderedJsonFromNode(n) ==
  CASE n.tag \in Leaves \union {"arr", "obj"} -> projected_value_from_hson_node(n)
    [] n.tag = "elem" -> JObj(<<ElemKey>>, <<JArr([i \in DOMAIN n.kids |-> orderedJsonFromNode(n.kids[i])])>>)
    [] n.tag \in {"root", "ii"} -> orderedJsonFromNode(n.kids[1])
    [] OTHER -> ElementToJson(n)

serialize_json(n) == IF Canonical(n) /\ ~(n.tag = "root" /\ n.kids = <<>>) THEN orderedJsonFromNode(n) ELSE JBad
==============================================================================
