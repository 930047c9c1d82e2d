-------------------------------- MODULE MCTrees --------------------------------
EXTENDS LiveTree, ReflectDocument, ReflectCollection, StyleSheet, LocusWire

\* One run of five systems: a behaviour is one of standalone LiveTree calls,
\* of a document and its binding, of an array and its keyed branches, of a
\* stylesheet, or of a document on the wire; the others stay where they are.
MCTemplates == {PlainNode("i", <<>>)}

Text(v) == LeafNode("str", v)
ElemNode(tag, quid, items) ==
  HNode(tag, quid, {}, IF items = <<>> THEN <<>> ELSE <<PlainNode("elem", items)>>)
DocRoot(element) == PlainNode("root", <<PlainNode("elem", <<element>>)>>)

\* <div><b q1>x<i q2/></b><i/></div>, and a fragment.
MCDocStarts == {
  DocRoot(ElemNode("div", NoQuid,
    <<ElemNode("b", "q1", <<Text("x"), ElemNode("i", "q2", <<>>)>>), ElemNode("i", NoQuid, <<>>)>>)),
  PlainNode("root", <<PlainNode("elem", <<ElemNode("b", "q1", <<Text("x")>>), Text("t")>>)>>)}

MCOp(op, path, index) == [GraphOp(op, path) EXCEPT !.index = index]
MCPut(op, path, index, content) == [MCOp(op, path, index) EXCEPT !.content = content]

MCDocRequests == {
  [GraphOp("set-attr", NoPath) EXCEPT !.quid = "q2", !.name = "id", !.value = "y"],
  [GraphOp("remove-attr", <<0, 0, 0, 1>>) EXCEPT !.name = "id"],
  MCPut("insert-content", <<0>>, 0, ElemNode("u", "q3", <<Text("n")>>)),
  MCPut("insert-content", <<0, 0, 0>>, 0, ElemNode("i", NoQuid, <<Text("n")>>)),
  MCOp("remove-content", <<0>>, 0),
  [MCOp("move-content", <<0>>, 0) EXCEPT !.to = 1],
  MCPut("replace-content", <<0>>, 0, ElemNode("b", "q1", <<Text("n")>>)),
  MCPut("replace-content", <<0>>, 0, ElemNode("u", "q1", <<ElemNode("i", "q2", <<>>), Text("x")>>)),
  MCPut("replace-content", <<0>>, 0, ElemNode("u", "q4", <<ElemNode("b", "q1", <<>>)>>)),
  MCPut("replace-content", <<0>>, 0, ElemNode("u", "q4", <<ElemNode("i", "q2", <<>>)>>)),
  MCPut("replace-content", <<0>>, 0, ElemNode("u", "q4", <<Text("n")>>)),
  MCPut("replace-content", <<0>>, 1, ElemNode("b", "q3", <<>>))
}
MCLastRequests == {
  MCPut("insert-content", <<0>>, 0, ElemNode("b", "q1", <<Text("n")>>)),
  MCPut("insert-content", <<0>>, 1, ElemNode("u", "q2", <<Text("n")>>)) }

\* Documents on the wire.  With the chain in its first element a document is
\* too deep for the codec, and so is the long chain on its own.
I(items) == ElemNode("i", NoQuid, items)
MCWireStarts == {
  DocRoot(ElemNode("div", NoQuid, <<Text("x"), I(<<>>)>>)),
  PlainNode("root", <<PlainNode("elem", <<ElemNode("b", "q1", <<Text("x")>>), Text("t")>>)>>)}
MCWireRequests == {
  [GraphOp("ensure-quid", <<0, 1>>) EXCEPT !.quid = "q3"],
  MCPut("insert-content", <<0, 0>>, 1, I(<<I(<<Text("n")>>)>>)),
  MCPut("insert-content", <<>>, 1, I(<<I(<<I(<<I(<<>>)>>)>>)>>)),
  [MCOp("move-content", <<0>>, 0) EXCEPT !.to = 1]
}
\* The last three are invalid: a name, an index, and content no reader reads.
MCWireActions == {
  Action("document.attrs.set", [target |-> QuidTarget("q1"), name |-> "id", value |-> "y"]),
  Action("document.attrs.drop", [target |-> QuidTarget("q1"), name |-> "id"]),
  Action("document.attrs.setMany", [target |-> QuidTarget("q1"), values |-> {<<"id", "y">>}]),
  Action("document.attrs.dropMany", [target |-> PathTarget(<<0>>), names |-> <<"id", "id">>]),
  Action("document.attrs.clear", [target |-> PathTarget(<<0>>)]),
  Action("document.attrs.replace", [target |-> QuidTarget("q1"), values |-> {<<"id", "y">>}]),
  Action("document.content.insert",
         [target |-> PathTarget(<<>>), index |-> 0, content |-> ElemNode("b", "q1", <<>>)]),
  Action("document.content.remove", [target |-> PathTarget(<<>>), index |-> 0]),
  Action("document.content.move", [target |-> PathTarget(<<>>), from |-> 1, to |-> 0]),
  Action("document.content.replace",
         [target |-> QuidTarget("q1"), index |-> 0, replacement |-> PlainNode("elem", <<Text("n")>>)]),
  Action("document.attrs.setMany", [target |-> QuidTarget("q1"), values |-> {<<"data-_quid", "q2">>}]),
  Action("document.content.remove", [target |-> PathTarget(<<>>), index |-> 0 - 1]),
  Action("document.content.insert",
         [target |-> PathTarget(<<>>), index |-> 0, content |-> I(<<I(<<I(<<I(<<>>)>>)>>)>>)])
}
MCWireInstalls == {PlainNode("root", <<>>), DocRoot(ElemNode("div", "q1", <<>>))}

MCAnElement(tag, items) == ItemSchema("element", tag, {}, items)
MCSchemas ==
  [element |-> MCAnElement("div", <<ItemSchema("repeat", "", {}, <<ItemSchema("pick", "", {},
                 <<MCAnElement("b", <<>>), MCAnElement("i", <<>>), MCAnElement("u", <<>>)>>)>>)>>),
   fragment |-> AnyContent]
MCDocInstalls == {
  [root |-> DocRoot(ElemNode("div", NoQuid,
     <<ElemNode("u", "q1", <<>>), ElemNode("b", "q2", <<Text("x")>>)>>)), rev |-> 1],
  [root |-> DocRoot(ElemNode("div", NoQuid, <<ElemNode("b", "q1", <<>>)>>)), rev |-> 0] }

MCItem(key) == [key |-> key, val |-> "v"]
MCFirstItems == <<<<MCItem("a"), MCItem("b")>>, <<MCItem("b")>>>>

NoTree ==
  /\ world = Grafted /\ hostRoot = NoMap /\ detached = <<>> /\ outcome = "ok"
  /\ treeCalls = MaxTreeCalls
NoDocument ==
  /\ doc = DocOf(PlainNode("root", <<>>), 0) /\ pubs = <<>> /\ stage = "idle"
  /\ replica = [root |-> doc.root, overlay |-> {}, rev |-> 0, issued |-> {}, stuck |-> FALSE]
  /\ calls = MaxDocCalls /\ refl = Unbound /\ heap = [EmptyWorld EXCEPT !.dom = Page]
NoCollection ==
  /\ arrays = <<<<>>, <<>>>> /\ crev = <<0, 0>> /\ cpubs = <<>> /\ cat = "early"
  /\ coll = [status |-> "disposed", src |-> 1, subscribed |-> FALSE, records |-> <<>>,
             last |-> 0, why |-> {}]
  /\ recs = <<>> /\ host = <<>> /\ frames = <<>> /\ collCalls = MaxCollCalls
NoSheet ==
  /\ css = EmptyCss({}) /\ ruleHandles = <<>> /\ clean = {} /\ hasFrames = TRUE
  /\ cssCalls = MaxCssCalls

NoWire ==
  /\ past = <<PlainNode("root", <<>>)>> /\ origin = Unavailable("none", 0) /\ mirror = origin
  /\ sent = <<>> /\ kept = 0 /\ durable = NoSnapshot /\ artifact = NoArtifact
  /\ wireCalls = MaxWireCalls

allVars == <<treeVars, reflVars, collVars, cssVars, wireVars>>
MCTreesNext ==
  \/ TreeNext /\ UNCHANGED <<reflVars, collVars, cssVars, wireVars>>
  \/ ReflectNext /\ UNCHANGED <<treeVars, collVars, cssVars, wireVars>>
  \/ CollectionNext /\ UNCHANGED <<treeVars, reflVars, cssVars, wireVars>>
  \/ CssNext /\ UNCHANGED <<treeVars, reflVars, collVars, wireVars>>
  \/ WireNext /\ UNCHANGED <<treeVars, reflVars, collVars, cssVars>>
MCTreesInit ==
  \/ TreeInit /\ NoDocument /\ NoCollection /\ NoSheet /\ NoWire
  \/ NoTree /\ ReflectInit /\ NoCollection /\ NoSheet /\ NoWire
  \/ NoTree /\ NoDocument /\ CollectionInit /\ NoSheet /\ NoWire
  \/ NoTree /\ NoDocument /\ NoCollection /\ CssInit /\ NoWire
  \/ NoTree /\ NoDocument /\ NoCollection /\ NoSheet /\ WireInit
MCTreesSpec == MCTreesInit /\ [][MCTreesNext]_allVars
MCReflectSpec ==
  /\ NoTree /\ ReflectInit /\ NoCollection /\ NoSheet /\ NoWire
  /\ [][MCTreesNext]_allVars
MCWireSpec ==
  /\ NoTree /\ NoDocument /\ NoCollection /\ NoSheet /\ WireInit
  /\ [][MCTreesNext]_allVars

\* What no single step takes away: a QUID is never given out twice nor
\* brought back, a batch that fails leaves nothing, a bound subject and an
\* item that stays keep their node, and releasing one owner's CSS spares the
\* others'.
NothingTakenAway ==
  /\ QuidNeverReused /\ BatchAllOrNothing
  /\ RetiredQuidStaysRetired /\ SubjectKeepsNode
  /\ ItemKeepsBranch /\ ReleaseSparesOthers

================================================================================
