------------------------------- MODULE HsonText -------------------------------
(***************************************************************************)
(* HSON source text: the scanner (tokenize-hson.ts), the token assembler   *)
(* (parse-tokens.ts), parse_hson, and the serializer in its readable and   *)
(* compact layouts (serialize-hson.ts).                                    *)
(*                                                                         *)
(* A source is a sequence of lexemes: punctuation, a maximal run of trivia *)
(* (blanks, line breaks, comments), a bare name, a bare word that is a     *)
(* name or a primitive by its place (true, null), a number, a quoted       *)
(* string, a QUID declaration, or an attribute with its value.  What the   *)
(* scanner does within a lexeme (escapes, the grammar of numbers and       *)
(* names) is left out; every lexeme is a valid one.  Wherever the code     *)
(* throws, the scan stands at 0.                                           *)
(***************************************************************************)
EXTENDS HsonGraph

CONSTANT MaxNesting   \* MAX_NESTING: the depth at which the scanner gives up

ASSUME NestingAssumption == MaxNesting \in Nat

Lexeme(k, v, w) == [k |-> k, v |-> v, w |-> w]
Punct(v) == Lexeme("punct", v, "")
Space == Lexeme("sp", "blank", "")
NewLine == Lexeme("sp", "line", "")
Name(v) == Lexeme("name", v, "")
Word(v) == Lexeme("word", v, "")
Num(v) == Lexeme("num", v, "")
Text(v) == Lexeme("text", v, "")
QuidLexeme(v) == Lexeme("quid", v, "")
Attr(n, v) == Lexeme("attr", n, v)

\* Two bare lexemes in a row would be one; an attribute ends with its quote.
Bare == {"name", "word", "num", "quid"}
WellSpaced(source, l) ==
  \/ source = <<>>
  \/ LET last == source[Len(source)]
     IN /\ ~(last.k \in Bare /\ l.k \in Bare \union {"attr"})
        /\ ~(last.k = "sp" /\ l.k = "sp")

At(source, i) == IF i > Len(source) THEN Lexeme("end", "", "") ELSE source[i]
Sees(source, i, v) == At(source, i).k = "punct" /\ At(source, i).v = v

\* skipTrivia
Past(source, i) == IF At(source, i).k = "sp" THEN i + 1 ELSE i

-----------------------------------------------------------------------------
\* The tokens of the scanner, and the state of a scan: where it stands and what
\* it has pushed.
Token(kind, tag, quid, attrs, leaf) ==
  [kind |-> kind, tag |-> tag, quid |-> quid, attrs |-> attrs, leaf |-> leaf]
OpenToken(tag, quid, attrs) == Token("OPEN", tag, quid, attrs, Bad)
CloseToken(close) == Token("CLOSE", close, NoQuid, {}, Bad)
EmptyObjToken == Token("EMPTY_OBJ", "", NoQuid, {}, Bad)
ArrOpenToken(quid) == Token("ARR_OPEN", "", quid, {}, Bad)
ArrCloseToken == Token("ARR_CLOSE", "", NoQuid, {}, Bad)
TextToken(l) ==
  Token("TEXT", "", NoQuid, {}, IF l.k = "text" THEN LeafNode("str", l.v) ELSE LeafNode("val", l.v))

Scan(at, out) == [at |-> at, out |-> out]
ScanFails == Scan(0, <<>>)
Before(tokens, scan) == IF scan.at = 0 THEN ScanFails ELSE Scan(scan.at, tokens \o scan.out)

\* classifyAngleCloser: which closer matches the angle that was just opened, by
\* a look ahead that interprets nothing but brackets.
OpensBracket(l) == l.k = "punct" /\ l.v \in {"<", "[", "<<|"}
Matches(l, open) ==
  /\ l.k = "punct"
  /\ \/ open = "<" /\ l.v \in {">", "/>"}
     \/ open = "[" /\ l.v = "]"
     \/ open = "<<|" /\ l.v = "|>>"

\* The next lexeme that is a bracket, a comma or the end.
NextMark(source, i) ==
  LET mark(j) == At(source, j).k \in {"punct", "end"}
  IN CHOOSE j \in i..(Len(source) + 1) : mark(j) /\ \A k \in i..(j - 1) : ~mark(k)

RECURSIVE CloserFrom(_, _, _)
CloserFrom(source, i, stack) ==
  LET l == At(source, i)
      closes == Matches(l, Head(stack))
      Beyond(rest) == CloserFrom(source, NextMark(source, i + 1), rest)
  IN IF l.k = "end" THEN [close |-> "none", at |-> 0]
     ELSE IF closes /\ Len(stack) = 1 THEN [close |-> IF l.v = "/>" THEN "elem" ELSE "obj", at |-> i]
     ELSE Beyond(IF OpensBracket(l) THEN <<l.v>> \o stack ELSE IF closes THEN Tail(stack) ELSE stack)

classifyAngleCloser(source, i) == CloserFrom(source, NextMark(source, i + 1), <<"<">>)

RECURSIVE scanAngle(_, _, _), scanArray(_, _, _)

\* An object value: an angle must close as an object.
scanObjectMemberValue(source, i, depth) ==
  LET l == At(source, i)
  IN CASE depth >= MaxNesting -> ScanFails
       [] l.k \in {"text", "num", "word"} -> Scan(i + 1, <<TextToken(l)>>)
       [] Sees(source, i, "<") ->
            IF classifyAngleCloser(source, i).close = "obj" THEN scanAngle(source, i, depth) ELSE ScanFails
       [] Sees(source, i, "[") \/ Sees(source, i, "<<|") -> scanArray(source, i, depth)
       [] OTHER -> ScanFails

\* The members of an object from the name at i on, after the tokens in out.
RECURSIVE ScanMembers(_, _, _, _, _)
ScanMembers(source, i, depth, declared, out) ==
  LET name == At(source, i)
      valueAt == Past(source, i + 1)
      Holds(value, next, member) ==
        CASE value.at # 0 /\ Sees(source, next, ">") -> Scan(next + 1, member \o <<CloseToken("obj")>>)
          [] value.at # 0 /\ ~Sees(source, next, ">") /\ next # value.at ->
               ScanMembers(source, next, depth, declared \union {name.v}, member)
          [] OTHER -> ScanFails
      Member(value) ==
        Holds(value, Past(source, value.at),
              out \o <<OpenToken(name.v, NoQuid, {})>> \o value.out \o <<CloseToken("obj")>>)
  IN IF name.k \notin {"name", "word"} \/ name.v \in declared \/ valueAt = i + 1 THEN ScanFails
     ELSE Member(scanObjectMemberValue(source, valueAt, depth + 1))

\* A QUID declaration after an opener, with the trivia it needs before content.
QuidAt(source, i) == IF At(source, i).k = "quid" THEN At(source, i).v ELSE NoQuid
AfterQuid(source, i) == IF At(source, i).k = "quid" THEN Past(source, i + 1) ELSE i
QuidTouches(source, i) ==
  At(source, i).k = "quid" /\ At(source, i + 1).k # "sp"

scanObjectAfterOpen(source, i, depth) ==
  LET first == Past(source, i)
      next == AfterQuid(source, first)
      open == OpenToken("obj", QuidAt(source, first), {})
      ends == Sees(source, i, ">")
      empty == ~ends /\ Sees(source, next, ">")
  IN CASE ends -> Scan(i + 1, <<EmptyObjToken>>)
       [] empty -> Scan(next + 1, <<open, CloseToken("obj")>>)
       [] ~ends /\ ~empty /\ ~QuidTouches(source, first) -> ScanMembers(source, next, depth, {}, <<open>>)
       [] OTHER -> ScanFails

\* An element from its header on: QUID, attributes and flags come before
\* content, and the OPEN token is pushed when the header is known to be over.
AttributeOf(l) == IF l.k = "attr" THEN <<l.v, l.w>> ELSE <<l.v, l.v>>
Declared(attrs, l) == \E a \in attrs : a[1] = l.v

RECURSIVE ScanElementBody(_, _, _, _, _)
ScanElementBody(source, i, depth, head, started) ==
  LET here == Past(source, i)
      l == At(source, here)
      opened == IF started THEN <<>> ELSE <<OpenToken(head.tag, head.quid, head.attrs)>>
  IN CASE Sees(source, here, "/>") -> Scan(here + 1, opened \o <<CloseToken("elem")>>)
       [] l.k = "quid" ->
            IF started \/ head.quid # NoQuid THEN ScanFails
            ELSE ScanElementBody(source, here + 1, depth, [head EXCEPT !.quid = l.v], FALSE)
       [] l.k \in {"name", "word", "attr"} ->
            IF started \/ Declared(head.attrs, l) THEN ScanFails
            ELSE ScanElementBody(source, here + 1, depth,
                                 [head EXCEPT !.attrs = @ \union {AttributeOf(l)}], FALSE)
       [] l.k = "text" ->
            Before(opened \o <<TextToken(l)>>, ScanElementBody(source, here + 1, depth, head, TRUE))
       [] Sees(source, here, "<") ->
            LET Holds(child) ==
                  IF classifyAngleCloser(source, here).close # "elem" \/ child.at = 0 THEN ScanFails
                  ELSE Before(opened \o child.out, ScanElementBody(source, child.at, depth, head, TRUE))
            IN Holds(scanAngle(source, here, depth + 1))
       [] OTHER -> ScanFails

scanElementAfterOpen(source, i, depth) ==
  LET tag == At(source, Past(source, i))
  IN IF tag.k \notin {"name", "word"} THEN ScanFails
     ELSE ScanElementBody(source, Past(source, i) + 1, depth,
                          [tag |-> tag.v, quid |-> NoQuid, attrs |-> {}], FALSE)

scanAngle(source, i, depth) ==
  LET Closed(close) ==
        CASE depth >= MaxNesting \/ close = "none" -> ScanFails
          [] close = "obj" -> scanObjectAfterOpen(source, i + 1, depth)
          [] close = "elem" -> scanElementAfterOpen(source, i + 1, depth)
  IN Closed(classifyAngleCloser(source, i).close)

scanArrayItem(source, i, depth) ==
  LET l == At(source, i)
  IN CASE depth >= MaxNesting -> ScanFails
       [] Sees(source, i, "<") -> scanAngle(source, i, depth)
       [] Sees(source, i, "[") \/ Sees(source, i, "<<|") -> scanArray(source, i, depth)
       [] l.k \in {"text", "num", "word"} -> Scan(i + 1, <<TextToken(l)>>)
       [] OTHER -> ScanFails

\* The items of an array, after the tokens in out.
RECURSIVE ScanItems(_, _, _, _, _, _)
ScanItems(source, i, depth, closer, expectItem, out) ==
  LET here == Past(source, i)
      ends == Sees(source, here, closer)
      Holds(item) == IF item.at = 0 THEN ScanFails
                     ELSE ScanItems(source, item.at, depth, closer, FALSE, out \o item.out)
  IN CASE ends -> Scan(here + 1, Append(out, ArrCloseToken))
       [] ~ends /\ expectItem -> Holds(scanArrayItem(source, here, depth + 1))
       [] ~ends /\ ~expectItem /\ Sees(source, here, ",") ->
            ScanItems(source, here + 1, depth, closer, TRUE, out)
       [] OTHER -> ScanFails

scanArray(source, i, depth) ==
  LET closer == IF Sees(source, i, "<<|") THEN "|>>" ELSE "]"
      first == Past(source, i + 1)
      next == AfterQuid(source, first)
  IN IF \/ depth >= MaxNesting
        \/ QuidTouches(source, first) /\ ~Sees(source, next, closer)
     THEN ScanFails
     ELSE ScanItems(source, next, depth, closer, TRUE, <<ArrOpenToken(QuidAt(source, first))>>)

\* scan: the values of the source, one after another; the top takes what an
\* array takes as an item.
RECURSIVE ScanTop(_, _)
ScanTop(source, i) ==
  LET here == Past(source, i)
      Holds(value) == IF value.at = 0 THEN ScanFails
                      ELSE Before(value.out, ScanTop(source, value.at))
  IN IF At(source, here).k = "end" THEN Scan(here, <<>>)
     ELSE Holds(scanArrayItem(source, here, 0))

tokenize_hson(source) == ScanTop(source, 1)

-----------------------------------------------------------------------------
\* parse_tokens: the nodes read so far in one tag, array or at the top, each
\* with the closer it had.
Read(at, nodes, closers) == [at |-> at, nodes |-> nodes, closers |-> closers]
ReadFails == Read(0, <<>>, <<>>)

OrdinaryShaped(open, read, close) ==
  LET kids == read.nodes
      node == [PlainNode(open.tag, <<>>) EXCEPT !.quid = open.quid, !.attrs = open.attrs]
      crossing ==
        \/ \E i \in DOMAIN kids : Ordinary(kids[i]) /\ read.closers[i] # close
        \/ close = "elem" /\ \E i \in DOMAIN kids : kids[i].tag = "arr"
  IN CASE open.tag \in VSN -> With(node, kids)
       [] crossing -> Bad
       [] close = "obj" /\ Len(kids) = 1 /\ kids[1].tag \in {"obj", "arr"} -> With(node, kids)
       [] close = "obj" -> With(node, <<PlainNode("obj", kids)>>)
       [] close = "elem" /\ kids = <<>> -> node
       [] OTHER -> With(node, <<PlainNode("elem", kids)>>)

\* readTag from the token after OPEN to its CLOSE, or the top of the stream to
\* its end.  An empty object is a value at the top; in a tag it adds nothing, as
\* the member it is the value of is then an empty object.
RECURSIVE ReadNodes(_, _, _, _), ReadArrayItems(_, _, _)

ReadNested(tokens, i) == ReadNodes(tokens, i + 1, Read(0, <<>>, <<>>), FALSE)

ArrayNode(open, read) ==
  IF read.at = 0 THEN Bad ELSE [PlainNode("arr", ItemsAt(read.nodes)) EXCEPT !.quid = open.quid]

TagNode(open, read) ==
  IF read.at = 0 THEN Bad ELSE OrdinaryShaped(open, read, Last(read.closers))

TokenAt(tokens, i) == IF i > Len(tokens) THEN [kind |-> "END"] ELSE tokens[i]

ReadNodes(tokens, i, read, top) ==
  LET t == TokenAt(tokens, i)
      Holds(at, node, close) ==
        IF IsBad(node) THEN ReadFails
        ELSE ReadNodes(tokens, at, Read(0, Append(read.nodes, node), Append(read.closers, close)), top)
      HoldsTag(tag) == Holds(tag.at, TagNode(t, tag), Last(tag.closers))
      HoldsArray(array) == Holds(array.at, ArrayNode(t, array), "obj")
  IN CASE t.kind = "END" /\ top -> Read(i, read.nodes, read.closers)
       [] t.kind = "CLOSE" /\ ~top -> Read(i + 1, read.nodes, Append(read.closers, t.tag))
       [] t.kind = "EMPTY_OBJ" /\ top -> Holds(i + 1, PlainNode("obj", <<>>), "obj")
       [] t.kind = "EMPTY_OBJ" /\ ~top -> ReadNodes(tokens, i + 1, read, top)
       [] t.kind = "TEXT" -> Holds(i + 1, t.leaf, "elem")
       [] t.kind = "ARR_OPEN" -> HoldsArray(ReadArrayItems(tokens, i + 1, <<>>))
       [] t.kind = "OPEN" -> HoldsTag(ReadNested(tokens, i))
       [] OTHER -> ReadFails

\* readArray from the token after ARR_OPEN on; element values are refused.
ReadArrayItems(tokens, i, items) ==
  LET t == TokenAt(tokens, i)
      Holds(at, node) ==
        IF IsBad(node) THEN ReadFails ELSE ReadArrayItems(tokens, at, Append(items, node))
      HoldsTag(tag, node) == Holds(tag.at, IF IsBad(node) \/ Last(tag.closers) = "elem" THEN Bad ELSE node)
      HoldsValue(tag) == HoldsTag(tag, TagNode(t, tag))
      HoldsArray(array) == Holds(array.at, ArrayNode(t, array))
  IN CASE t.kind = "ARR_CLOSE" -> Read(i + 1, items, <<>>)
       [] t.kind = "EMPTY_OBJ" -> Holds(i + 1, PlainNode("obj", <<>>))
       [] t.kind = "TEXT" -> Holds(i + 1, t.leaf)
       [] t.kind = "ARR_OPEN" -> HoldsArray(ReadArrayItems(tokens, i + 1, <<>>))
       [] t.kind = "OPEN" -> HoldsValue(ReadNested(tokens, i))
       [] OTHER -> ReadFails

\* Root shaping; a text at the top counts as element content where a text
\* fragment is allowed there.
RootShaped(nodes, closers, allowTopLevelTextFragment) ==
  LET only == Len(nodes) = 1
      Holds(tags) == \E i \in DOMAIN nodes : nodes[i].tag \in tags
      elementMode == \A i \in DOMAIN nodes : closers[i] = "elem"
  IN CASE only /\ nodes[1].tag \in {"obj", "arr", "elem", "val"} -> PlainNode("root", nodes)
       [] only /\ nodes[1].tag = "str" /\ ~allowTopLevelTextFragment -> PlainNode("root", nodes)
       [] only /\ Ordinary(nodes[1]) ->
            PlainNode("root", <<PlainNode(IF closers[1] = "obj" THEN "obj" ELSE "elem", nodes)>>)
       [] Holds({"val"}) \/ (Holds({"str"}) /\ ~allowTopLevelTextFragment) -> Bad
       [] elementMode -> PlainNode("root", <<PlainNode("elem", nodes)>>)
       [] OTHER -> Bad

parse_tokens(tokens, allowTopLevelTextFragment) ==
  LET Shaped(top) == IF top.at = 0 THEN Bad
                     ELSE RootShaped(top.nodes, top.closers, allowTopLevelTextFragment)
  IN Shaped(ReadNodes(tokens, 1, Read(0, <<>>, <<>>), TRUE))

ParseHson(source, allowTopLevelTextFragment) ==
  LET Checked(node) ==
        IF ~IsBad(node) /\ QuidsWellPlaced(node) /\ Canonical(node) THEN node ELSE Bad
      Parsed(scan) ==
        IF scan.at = 0 \/ scan.out = <<>> THEN Bad
        ELSE Checked(parse_tokens(scan.out, allowTopLevelTextFragment))
  IN Parsed(tokenize_hson(source))

\* fromHson().toNode(): the value in the root.
parse_hson(source) == detach_hson_root_value(ParseHson(source, FALSE))

-----------------------------------------------------------------------------
(* serialize_hson.  A refusal is the lexeme Refusal in the text.  Options:  *)
(* readable or compact, whether QUIDs are left out, and whether a lone text *)
(* in a root element cluster belongs to its owner.  Indentation is part of  *)
(* the line break before it.                                                *)
Refusal == Lexeme("refused", "", "")
Refused(text) == \E i \in DOMAIN text : text[i].k = "refused"

Options(readable, noQuid, owned) == [readable |-> readable, noQuid |-> noQuid, owned |-> owned]

Joined(texts, sep) ==
  FlattenSeq([i \in DOMAIN texts |-> IF i = 1 THEN texts[i] ELSE sep \o texts[i]])

\* effectiveMeta
QuidTerm(n, o) == IF n.quid = NoQuid \/ o.noQuid THEN <<>> ELSE <<QuidLexeme(n.quid)>>

\* emitAttrsAndMeta: attributes with a value, then flags.
AttrTerms(attrs) ==
  LET valued == SetToSeq({ a \in attrs : a[1] # a[2] })
      flags == SetToSeq({ a \in attrs : a[1] = a[2] })
  IN FlattenSeq([i \in DOMAIN valued |-> <<Space, Attr(valued[i][1], valued[i][2])>>])
       \o FlattenSeq([i \in DOMAIN flags |-> <<Space, Name(flags[i][1])>>])

Literals == {"true", "false", "null"}
emitLeaf(n) ==
  IF n.val = NoVal THEN <<Refusal>>
  ELSE IF n.tag = "str" THEN <<Text(n.val)>>
  ELSE IF n.val \in Literals THEN <<Word(n.val)>> ELSE <<Num(n.val)>>

RECURSIVE emitNode(_, _, _)

\* A compact array whose QUID runs into its first item.
ArrayWithoutGap(n, o) ==
  LET items == [i \in DOMAIN n.kids |-> emitNode(n.kids[i].kids[1], "none", o)]
  IN <<Punct("<<|")>> \o QuidTerm(n, o) \o Joined(items, <<Punct(",")>>) \o <<Punct("|>>")>>

emitArray(n, o) ==
  LET header == <<Punct("<<|")>> \o QuidTerm(n, o)
      items == [i \in DOMAIN n.kids |->
                 IF OnlyKid(n.kids[i], VSN) /\ n.kids[i].tag = "ii"
                 THEN emitNode(n.kids[i].kids[1], "none", o) ELSE <<Refusal>>]
      gap == IF QuidTerm(n, o) = <<>> THEN <<>> ELSE <<Space>>
  IN IF n.attrs # {} THEN <<Refusal>>
     ELSE IF items = <<>> THEN Append(header, Punct("|>>"))
     ELSE IF o.readable
     THEN header \o <<NewLine>> \o Joined(items, <<Punct(","), NewLine>>) \o <<NewLine, Punct("|>>")>>
     ELSE header \o gap \o Joined(items, <<Punct(",")>>) \o <<Punct("|>>")>>

\* A member is its name and its value; the carrier of a scalar is not written.
emitObjectMember(m, o) ==
  LET value == IF m.kids[1].tag = "obj" /\ OnlyKid(m.kids[1], Leaves) THEN m.kids[1].kids[1] ELSE m.kids[1]
      name == IF m.tag \in Literals THEN Word(m.tag) ELSE Name(m.tag)
  IN IF m.attrs # {} \/ m.quid # NoQuid \/ Len(m.kids) # 1 THEN <<Refusal>>
     ELSE <<name, Space>> \o emitNode(value, "obj", o)

Broken(text) == \E i \in DOMAIN text : text[i] = NewLine

emitObject(n, o) ==
  LET header == <<Punct("<")>> \o QuidTerm(n, o)
      gap == IF QuidTerm(n, o) = <<>> THEN <<>> ELSE <<Space>>
      members == [i \in DOMAIN n.kids |->
                   IF Ordinary(n.kids[i]) THEN emitObjectMember(n.kids[i], o) ELSE <<Refusal>>]
  IN IF n.attrs # {} THEN <<Refusal>>
     ELSE IF members = <<>> THEN Append(header, Punct(">"))
     ELSE IF o.readable /\ ~(Len(members) = 1 /\ ~Broken(members[1]))
     THEN header \o <<NewLine>> \o Joined(members, <<NewLine>>) \o <<NewLine, Punct(">")>>
     ELSE header \o gap \o Joined(members, <<Space>>) \o <<Punct(">")>>

emitElementCluster(n, rootValue, o) ==
  IF n.attrs # {} \/ (OnlyKid(n, Leaves) /\ ~(o.owned /\ rootValue)) THEN <<Refusal>>
  ELSE Joined([i \in DOMAIN n.kids |-> emitNode(n.kids[i], "elem", o)],
              IF o.readable THEN <<NewLine>> ELSE <<Space>>)

\* standardContent: what an element shows of its content, and how it closes.
standardContent(n) ==
  CASE OnlyKid(n, {"elem"}) -> [children |-> n.kids[1].kids, closer |-> "/>", cluster |-> "elem"]
    [] OnlyKid(n, {"obj"}) /\ OnlyKid(n.kids[1], Leaves) ->
         [children |-> n.kids[1].kids, closer |-> ">", cluster |-> "obj"]
    [] OnlyKid(n, {"obj", "arr"}) -> [children |-> n.kids, closer |-> ">", cluster |-> n.kids[1].tag]
    [] OTHER -> [children |-> n.kids, closer |-> "/>", cluster |-> "elem"]

emitStandardNode(n, o) ==
  LET content == standardContent(n)
      kids == [i \in DOMAIN content.children |-> emitNode(content.children[i], content.cluster, o)]
      quid == QuidTerm(n, o)
      header == <<Punct("<"), Name(n.tag)>>
                  \o (IF quid = <<>> THEN <<>> ELSE <<Space>> \o quid) \o AttrTerms(n.attrs)
      sep == IF content.cluster = "elem" THEN <<Space>> ELSE <<>>
  IN IF kids = <<>> THEN Append(header, Punct(content.closer))
     ELSE IF o.readable /\ ~(Len(kids) = 1 /\ content.children[1].tag \in Leaves)
     THEN header \o <<NewLine>> \o Joined(kids, <<NewLine>>) \o <<NewLine, Punct(content.closer)>>
     ELSE header \o <<Space>> \o Joined(kids, sep) \o <<Punct(content.closer)>>

emitNode(n, parent, o) ==
  CASE n.tag \in Leaves -> emitLeaf(n)
    [] n.tag = "ii" -> IF Len(n.kids) = 1 THEN emitNode(n.kids[1], parent, o) ELSE <<Refusal>>
    [] n.tag = "arr" -> emitArray(n, o)
    [] n.tag = "obj" -> IF OnlyKid(n, Leaves) THEN <<Refusal>> ELSE emitObject(n, o)
    [] n.tag = "elem" -> emitElementCluster(n, parent = "none", o)
    [] OTHER -> emitStandardNode(n, o)

serialize_hson(n, o) ==
  IF ~Canonical(n) \/ n.tag = "root" THEN <<Refusal>> ELSE emitNode(n, "none", o)
==============================================================================
