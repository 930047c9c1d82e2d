----------------------------- MODULE MCAlgorithms -----------------------------
(* The pure halves of the library, on one run: a behaviour edits a         *)
(* projected LiveMap, or takes a source round the transform circuit, and    *)
(* leaves the other alone.                                                  *)
EXTENDS ProjectedEditor, TransformCircuit
CONSTANTS kA, kB, x, y, null

\* Roots, values and schemas of the edited maps.
PVa == Atom(x)
Roots == { Obj(<<Entry(kA, Arr(<<PVa, Atom(y)>>)), Entry(kB, Obj(<<Entry(kA, PVa)>>))>>),
           Arr(<<Arr(<<>>), Obj(<<Entry(kB, PVa)>>), PVa>>) }
Values == {PVa, Obj(<<Entry(kB, Atom(y))>>), Arr(<<Arr(<<>>)>>), Atom(null)}
Str == SNode("string")
Leaf == SPick(<<Str, SNode("number"), SArray(SNode("unknown"))>>)
Rec == SObject(<<kA, kB>>, <<SNullable(Str), SOptional(SNode("recurse"))>>)
Short(c) == c.t # "atom" /\ Len(c.v) < 3
Schemas == {SNode("unknown"),
  SExact(SObject(<<kA, kB>>, <<SArray(Leaf), SOptional(SRecord(Leaf))>>)),
  SObject(<<kA, kB>>, <<SConstrain(SArray(SNullable(Leaf))), SOptional(SNode("recurse"))>>),
  DeepOptional(SObject(<<kA, kB>>, <<STuple(<<SLiteral({PVa}), SNode("number"), SNode("null")>>), SPartial(Rec)>>)),
  STuple(<<SArray(SNode("unknown")), STagged(kB, <<x, y>>, <<SObject(<<kA>>, <<SOptional(SNode("null"))>>), SExact(Rec)>>), SConstrain(Leaf)>>),
  STuple(<<SNode("unknown"), SExact(SObject(<<kA, kB>>, <<SOptional(SNode("unknown")), SLiteral({PVa, Atom(y)})>>)), SOptional(Str)>>)}

\* HSON sources and the lexemes an edit types.
LT == Punct("<")
GT == Punct(">")
SL == Punct("/>")
AO == Punct("<<|")
AC == Punct("|>>")
CO == Punct(",")
Na == Name("a")
Nb == Name("b")
One == Num("1")
Tx == Text("x")
Qq == QuidLexeme("q")
SP == Space

MCSources == {
  <<LT, Na, SP, One, GT>>,
  <<LT, Qq, SP, Na, SP, LT, Nb, SP, Tx, GT, SP, Nb, SP, Word("true"), GT>>,
  <<LT, Na, SP, Qq, SP, Attr("a", "x"), SP, Nb, SP, Tx, LT, Nb, SL, SL>>,
  <<LT, Na, SL, SP, LT, Nb, SP, Tx, SP, Tx, SL>>,
  <<LT, Na, SP, AO, Qq, SP, Tx, CO, LT, GT, CO, AO, AC, AC, GT>>,
  <<AO, LT, Na, SP, LT, GT, GT, CO, Punct("["), One, Punct("]"), AC>>}
MCAlphabet == {LT, GT, SL, CO, SP, Tx, Qq}
E(items) == JObj(<<ElemKey>>, <<JArr(items)>>)
MCDocuments == {
  E(<<JStr("x")>>),
  E(<<JObj(<<"a", AttrsKey, MetaKey>>, <<JStr("x"), JObj(<<"data-v">>, <<JStr("v")>>), JObj(<<"quid">>, <<JStr("q")>>)>>)>>),
  E(<<JObj(<<"a">>, <<E(<<JStr(""), JStr("x")>>)>>), JObj(<<"b">>, <<JStr("")>>)>>),
  E(<<JObj(<<"a">>, <<JObj(<<"b">>, <<JPrim("1")>>)>>)>>),
  JObj(<<RootKey>>, <<E(<<JObj(<<"b">>, <<JStr(" x")>>)>>)>>),
  JObj(<<"b", "a">>, <<JArr(<<JArr(<<>>), JPrim("null"), JObj(<<>>, <<>>)>>), JObj(<<"b">>, <<JStr("")>>)>>),
  JObj(<<"a", "a">>, <<JPrim("1"), JPrim("1")>>),
  JStr(" x")}
El(tag, attrs, kids) == Markup("el", tag, NoQuid, NoIndex, attrs, kids, "")
Ii(i, kids) == Markup("el", "ii", NoQuid, i, {}, kids, "")
MLeaf(tag, v) == [Wrapped(tag, <<>>) EXCEPT !.v = v]
MCPages == {
  <<MText("x"), El("a", {}, <<>>)>>,
  <<El("a", {<<"b", "">>}, <<MText(" x"), El("b", {}, <<>>), MText("''")>>)>>,
  <<Wrapped("arr", <<Ii(1, <<Wrapped("obj", <<MLeaf("str", "")>>)>>), Ii(0, <<MLeaf("val", "1")>>)>>)>>,
  <<Wrapped("arr", <<Ii(1, <<MLeaf("val", "1")>>), Ii(1, <<MLeaf("val", "1")>>)>>)>>,
  <<El("a", {}, <<Wrapped("obj", <<El("b", {}, <<MLeaf("str", " x")>>)>>)>>)>>,
  <<El("a", {}, <<Wrapped("elem", <<MLeaf("str", ""), MLeaf("str", "x")>>)>>), MText(" x")>>,
  <<El("a", {}, <<MLeaf("val", "1"), MText("x")>>)>>,
  <<MText("x")>>}

\* What trimming, adjacency and the flag replacement do to the strings above.
MCTrims == [v \in {" x"} |-> "x"]
MCJoins(v, w) == "joined"
MCEndsWith == {<<"data-v", "v">>}

NoEditor ==
  /\ carrier = PVNone /\ graph = PVNone /\ track = Err /\ replica = PVNone
  /\ schema = PVNone /\ batch = Closed /\ edits = 0
NoCircuit ==
  /\ entry = "hson" /\ source = <<>> /\ typed = 0 /\ stopOnFirstFail = TRUE /\ stage = "over"
  /\ base = Bad /\ here = Bad /\ lap = 0 /\ leg = 0 /\ clean = TRUE
  /\ ends = [d \in {"cw", "ccw"} |-> Bad] /\ legs = 0 /\ verdict = "none"

MCNext ==
  \/ carrier # PVNone /\ PENext /\ UNCHANGED cvars
  \/ carrier = PVNone /\ CircuitNext /\ UNCHANGED pevars
MCSpec == ((PEInit /\ NoCircuit) \/ (NoEditor /\ CircuitInit)) /\ [][MCNext]_<<pevars, cvars>>
==============================================================================
