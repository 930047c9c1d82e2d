--------------------------- MODULE ProjectedValue ---------------------------
(***************************************************************************)
(* The pure algorithms below a projected LiveMap: the ordered carrier      *)
(* (ordered-projected-value-mutation.ts), write planning (livemap.core.ts),*)
(* the transport codec (livemap.transport.ts), path tracking of identities *)
(* (livemap.projected.identity.ts) and the editor of the HSON value graph  *)
(* (livemap.editor.ts, projected-value-graph.ts).                          *)
(*                                                                         *)
(* A carrier is an atom, an object with ordered entries, or an array; mark *)
(* is a QUID, or None.  A path part is a key or a 0-based index.  Err is   *)
(* what a thrown error leaves.                                             *)
(***************************************************************************)
EXTENDS Integers, Sequences, FiniteSets, SequencesExt

CONSTANTS PVKey, PVNone, Err

Atom(x) == [t |-> "atom", v |-> x, mark |-> PVNone]
Obj(e) == [t |-> "obj", v |-> e, mark |-> PVNone]
Arr(e) == [t |-> "arr", v |-> e, mark |-> PVNone]
Entry(k, c) == [key |-> k, val |-> c]

Parent(path) == Front(path)
IsPathPrefix(prefix, path) == Len(prefix) <= Len(path) /\ SubSeq(path, 1, Len(prefix)) = prefix
PathTail(path, n) == SubSeq(path, n + 1, Len(path))

RECURSIVE Plain(_)
(* The carrier without its marks: ordered_projected_value_equal looks at nothing else. *)
Plain(c) ==
  CASE c.t = "atom" -> Atom(c.v)
    [] c.t = "obj"  -> Obj([i \in 1..Len(c.v) |-> Entry(c.v[i].key, Plain(c.v[i].val))])
    [] OTHER        -> Arr([i \in 1..Len(c.v) |-> Plain(c.v[i])])

Same(c, d) == IF c = Err \/ d = Err THEN c = d ELSE Plain(c) = Plain(d)

-----------------------------------------------------------------------------
(* The carrier.                                                            *)

EntryIndex(c, key) == SelectInSeq(c.v, LAMBDA e : e.key = key)

(* The position of a path part in its container, 0 when it does not resolve. *)
ChildIndex(c, part) ==
  CASE part \in PVKey -> IF c.t = "obj" THEN EntryIndex(c, part) ELSE 0
    [] OTHER -> IF c.t = "arr" /\ part \in 0..(Len(c.v) - 1) THEN part + 1 ELSE 0

Child(c, i) == IF c.t = "obj" THEN c.v[i].val ELSE c.v[i]
WithChild(c, i, d) ==
  IF c.t = "obj" THEN [c EXCEPT !.v[i].val = d] ELSE [c EXCEPT !.v[i] = d]

RECURSIVE ValueAt(_, _)
ValueAt(c, path) ==
  IF path = <<>> THEN c
  ELSE LET Within(i) == IF i = 0 THEN Err ELSE ValueAt(Child(c, i), Tail(path))
       IN Within(ChildIndex(c, Head(path)))

RECURSIVE WriteAt(_, _, _, _)
(* write_at: allowMissingLeaf lets a set append a new key to its object. *)
WriteAt(c, path, d, allowMissingLeaf) ==
  IF path = <<>> THEN d
  ELSE LET leaf == Len(path) = 1
           Written(i, sub) == IF sub = Err THEN Err ELSE WithChild(c, i, sub)
           Within(i) ==
             CASE i # 0 -> Written(i, WriteAt(Child(c, i), Tail(path), d, allowMissingLeaf))
               [] i = 0 /\ leaf /\ allowMissingLeaf /\ c.t = "obj" /\ Head(path) \in PVKey ->
                    [c EXCEPT !.v = Append(@, Entry(Head(path), d))]
               [] OTHER -> Err
       IN Within(ChildIndex(c, Head(path)))

PutAt(c, path, d) == WriteAt(c, path, d, FALSE)
SetAt(c, path, d) == IF path = <<>> THEN Err ELSE WriteAt(c, path, d, TRUE)

(* delete_at: object properties only. *)
DeleteAt(c, path) ==
  LET Deleted(parent, i) == IF i = 0 \/ parent.t # "obj" THEN Err
                            ELSE PutAt(c, Parent(path), [parent EXCEPT !.v = RemoveAt(@, i)])
      From(parent) == Deleted(parent, IF parent = Err THEN 0 ELSE ChildIndex(parent, Last(path)))
  IN IF path = <<>> THEN Err ELSE From(ValueAt(c, Parent(path)))

(* ordered_projected_object_rename: in place, retiring the destination. *)
RenameAt(c, path, from, to) ==
  LET Named(e) == IF e.key = from THEN Entry(to, e.val) ELSE e
      Kept(entries) == IF from = to THEN entries ELSE SelectSeq(entries, LAMBDA e : e.key # to)
      Renamed(entries) == [i \in DOMAIN entries |-> Named(entries[i])]
      Holds(obj) == IF obj = Err THEN Err
                    ELSE IF obj.t # "obj" \/ EntryIndex(obj, from) = 0 THEN Err
                    ELSE PutAt(c, path, [obj EXCEPT !.v = Renamed(Kept(@))])
  IN Holds(ValueAt(c, path))

MoveAt(c, path, from, to) ==
  LET Holds(arr) ==
        IF arr = Err THEN Err
        ELSE IF arr.t # "arr" \/ {from, to} \notin SUBSET (0..(Len(arr.v) - 1)) THEN Err
        ELSE PutAt(c, path, [arr EXCEPT !.v = InsertAt(RemoveAt(@, from + 1), to + 1, @[from + 1])])
  IN Holds(ValueAt(c, path))

SpliceAt(c, path, start, deleteCount, items) ==
  LET Holds(arr) ==
        IF arr = Err THEN Err
        ELSE IF arr.t # "arr" \/ start < 0 \/ deleteCount < 0 \/ start + deleteCount > Len(arr.v) THEN Err
        ELSE PutAt(c, path,
               [arr EXCEPT !.v = SubSeq(@, 1, start) \o items \o SubSeq(@, start + deleteCount + 1, Len(@))])
  IN Holds(ValueAt(c, path))

-----------------------------------------------------------------------------
(* Write intents and transport operations.  An operation has the fields of *)
(* every kind: path; val for set, replace and merge; from and to for       *)
(* rename and move; start, count and items for splice.                     *)

Write(kind, path, val) ==
  [kind |-> kind, path |-> path, val |-> val, from |-> 0, to |-> 0, start |-> 0, count |-> 0, items |-> <<>>]
Shift(kind, path, from, to) == [Write(kind, path, PVNone) EXCEPT !.from = from, !.to = to]
Splice(path, start, count, items) ==
  [Write("splice", path, PVNone) EXCEPT !.start = start, !.count = count, !.items = items]

(* What one direct write does to the candidate. *)
ApplyWrite(c, w) ==
  CASE w.kind = "set"     -> SetAt(c, w.path, w.val)
    [] w.kind = "replace" -> PutAt(c, w.path, w.val)
    [] w.kind = "delete"  -> DeleteAt(c, w.path)
    [] w.kind = "rename"  -> RenameAt(c, w.path, w.from, w.to)
    [] w.kind = "move"    -> MoveAt(c, w.path, w.from, w.to)
    [] w.kind = "splice"  -> SpliceAt(c, w.path, w.start, w.count, w.items)

(* A write that leaves its endpoint equal is planned but not transported. *)
LeavesEqual(c, next, w) ==
  CASE w.kind \in {"rename", "move"} -> w.from = w.to
    [] w.kind = "delete" -> FALSE
    [] OTHER -> Same(ValueAt(c, w.path), ValueAt(next, w.path))

(* A constructive set: one child set per entry of the object. *)
ChildSets(w) ==
  [i \in 1..Len(w.val.v) |-> Write("set", Append(w.path, w.val.v[i].key), w.val.v[i].val)]

Direct(c, w) ==
  IF w.kind # "merge" THEN <<w>>
  ELSE IF ValueAt(c, w.path) = Err THEN <<Write("delete", <<>>, PVNone)>>
  ELSE IF ValueAt(c, w.path).t # "obj" THEN <<Write("delete", <<>>, PVNone)>> ELSE ChildSets(w)

Transported(c, next, w) ==
  [write |-> w, prev |-> ValueAt(c, w.path), next |-> ValueAt(next, w.path),
   removed |-> IF w.kind = "splice"
               THEN SubSeq(ValueAt(c, w.path).v, w.start + 1, w.start + w.count) ELSE <<>>]

PlanOne(plan, w) ==
  LET Planned(next) ==
        IF next = Err THEN [value |-> Err, ops |-> <<>>]
        ELSE [value |-> next,
              ops |-> IF LeavesEqual(plan.value, next, w) THEN plan.ops
                      ELSE Append(plan.ops, Transported(plan.value, next, w))]
  IN Planned(IF plan.value = Err THEN Err ELSE ApplyWrite(plan.value, w))

(* plan_write_ops. *)
PlanWrites(c, writes) ==
  FoldLeft(LAMBDA plan, w :
             IF plan.value = Err THEN plan ELSE FoldLeft(PlanOne, plan, Direct(plan.value, w)),
           [value |-> c, ops |-> <<>>], writes)

-----------------------------------------------------------------------------
(* Public calls: the writes they compile to against the current candidate, *)
(* or Err where they throw.                                                 *)

IsObj(c) == c # Err /\ c.t = "obj"
IsArr(c) == c # Err /\ c.t = "arr"

(* write_ops_from_set: an object value over an object is a constructive set. *)
SetWrites(c, path, val) ==
  LET current == ValueAt(c, path)
  IN IF path # <<>> /\ current = Err THEN Err
     ELSE <<Write(IF path # <<>> /\ val.t = "obj" /\ IsObj(current) THEN "merge" ELSE "set", path, val)>>

ReplaceWrites(c, path, val) ==
  IF path # <<>> /\ ValueAt(c, path) = Err THEN Err ELSE <<Write("replace", path, val)>>

(* write_ops_from_set_many *)
SetManyWrites(c, path, val) ==
  IF IsObj(ValueAt(c, path)) THEN ChildSets(Write("merge", path, val)) ELSE Err

DeleteWrites(c, path) ==
  IF path # <<>> /\ ValueAt(c, path) = Err THEN Err ELSE <<Write("delete", path, PVNone)>>

(* normalize_splice_start, normalize_splice_delete_count *)
SpliceStart(len, start) ==
  IF start < 0 THEN IF len + start < 0 THEN 0 ELSE len + start
  ELSE IF start > len THEN len ELSE start
SpliceCount(len, start, count) == IF count > len - start THEN len - start ELSE count

(* splice_write_op *)
SpliceWrites(c, path, start, count, items) ==
  LET current == ValueAt(c, path)
  IN IF ~IsArr(current) \/ count < 0 THEN Err
     ELSE LET at == SpliceStart(Len(current.v), start)
          IN <<Splice(path, at, SpliceCount(Len(current.v), at, count), items)>>

(* arrayIndex and arrayInsertIndex: a negative index counts from the end. *)
ResolveIndex(len, index) == IF index < 0 THEN len + index ELSE index

FirstEqual(items, val) == SelectInSeq(items, LAMBDA item : Same(item, val))
Unique(items) ==
  FoldLeft(LAMBDA kept, item : IF FirstEqual(kept, item) = 0 THEN Append(kept, item) ELSE kept, <<>>, items)

(* make_livemap_array_api: reordering helpers set the array, the others     *)
(* splice it.                                                               *)
ArrayCalls == {"push", "unshift", "pop", "shift", "insert", "remove", "replace", "splice", "move",
               "clear", "reverse", "unique", "removeValue", "removeAll"}

ArrayWrites(c, path, name, index, count, val) ==
  LET current == ValueAt(c, path)
      items == current.v
      len == Len(items)
      at == ResolveIndex(len, index)
      set(next) == <<Write("set", path, Arr(next))>>
      spliced(start, removed, inserted) == <<Splice(path, start, removed, inserted)>>
  IN IF ~IsArr(current) THEN Err
     ELSE CASE name = "push"    -> spliced(len, 0, <<val>>)
            [] name = "unshift" -> spliced(0, 0, <<val>>)
            [] name = "pop"     -> IF len = 0 THEN Err ELSE spliced(len - 1, 1, <<>>)
            [] name = "shift"   -> IF len = 0 THEN Err ELSE spliced(0, 1, <<>>)
            [] name = "insert"  -> IF at \in 0..len THEN spliced(at, 0, <<val>>) ELSE Err
            [] name = "remove"  -> IF at \in 0..(len - 1) THEN spliced(at, 1, <<>>) ELSE Err
            [] name = "replace" -> IF at \in 0..(len - 1) THEN spliced(at, 1, <<val>>) ELSE Err
            [] name = "splice"  -> SpliceWrites(c, path, index, count, <<val>>)
            [] name = "move"    -> CASE {index, count} \notin SUBSET (0..(len - 1)) -> Err
                                     [] index = count -> <<>>
                                     [] OTHER -> <<Shift("move", path, index, count)>>
            [] name = "clear"   -> set(<<>>)
            [] name = "reverse" -> set(Reverse(items))
            [] name = "unique"  -> set(Unique(items))
            [] name = "removeValue" ->
                 set(IF FirstEqual(items, val) = 0 THEN items ELSE RemoveAt(items, FirstEqual(items, val)))
            [] name = "removeAll" -> set(SelectSeq(items, LAMBDA item : ~Same(item, val)))

(* make_livemap_object_api *)
ObjectCalls == {"setKey", "setMany", "clear", "deleteKey", "deleteMany", "renameKey"}

ObjectWrites(c, path, name, from, to, val) ==
  LET current == ValueAt(c, path)
      present == SelectSeq(current.v, LAMBDA e : e.key \in {from, to})
  IN IF ~IsObj(current) THEN Err
     ELSE CASE name = "setKey"  -> <<Write("set", Append(path, from), val)>>
            [] name = "setMany" -> ChildSets(Write("merge", path, Obj(<<Entry(from, val), Entry(to, val)>>)))
            [] name = "clear"   -> <<Write("replace", path, Obj(<<>>))>>
            [] name = "deleteKey" ->
                 IF EntryIndex(current, from) = 0 THEN <<>> ELSE <<Write("delete", Append(path, from), PVNone)>>
            [] name = "deleteMany" ->
                 [i \in 1..Len(present) |-> Write("delete", Append(path, present[i].key), PVNone)]
            [] name = "renameKey" -> CASE EntryIndex(current, from) = 0 -> Err
                                       [] from = to -> <<>>
                                       [] OTHER -> <<Shift("rename", path, from, to)>>

-----------------------------------------------------------------------------
(* Identity: where a marked container is after a transport operation.      *)

transform_rename(path, parent, from, to) ==
  IF from = to \/ ~IsPathPrefix(parent, path) \/ Len(path) = Len(parent) THEN path
  ELSE LET key == path[Len(parent) + 1]
       IN CASE key = from -> parent \o <<to>> \o PathTail(path, Len(parent) + 1)
            [] key = to   -> Err
            [] OTHER      -> path

transform_move(path, parent, from, to) ==
  IF from = to \/ ~IsPathPrefix(parent, path) \/ Len(path) = Len(parent) THEN path
  ELSE LET index == path[Len(parent) + 1]
           next == CASE index = from -> to
                     [] from < to /\ index > from /\ index <= to -> index - 1
                     [] to < from /\ index >= to /\ index < from -> index + 1
                     [] OTHER -> index
       IN parent \o <<next>> \o PathTail(path, Len(parent) + 1)

transform_splice(path, parent, start, removed, inserted) ==
  IF ~IsPathPrefix(parent, path) \/ Len(path) = Len(parent) THEN path
  ELSE LET index == path[Len(parent) + 1]
       IN CASE index \in start..(start + removed - 1) -> Err
            [] index < start -> path
            [] OTHER -> parent \o <<index + inserted - removed>> \o PathTail(path, Len(parent) + 1)

transform_path(path, op) ==
  LET w == op.write
  IN CASE w.kind = "rename" -> transform_rename(path, w.path, w.from, w.to)
       [] w.kind = "move"   -> transform_move(path, w.path, w.from, w.to)
       [] w.kind = "splice" -> transform_splice(path, w.path, w.start, Len(op.removed), Len(w.items))
       [] OTHER -> IF IsPathPrefix(w.path, path) THEN Err ELSE path

RECURSIVE PathsOf(_)
(* Every path of a carrier. *)
PathsOf(c) ==
  IF c.t = "atom" THEN {<<>>}
  ELSE {<<>>} \cup UNION {LET part == IF c.t = "obj" THEN c.v[i].key ELSE i - 1
                          IN {<<part>> \o p : p \in PathsOf(Child(c, i))} : i \in 1..Len(c.v)}

MarkAt(c, path) == PutAt(c, path, [ValueAt(c, path) EXCEPT !.mark = "marked"])
MarkedPaths(c) == {p \in PathsOf(c) : ValueAt(c, p).mark # PVNone}

-----------------------------------------------------------------------------
(* The transport codec: an operation as a carrier object with exact fields.*)

OptionalToCarrier(c) == IF c = Err THEN <<>> ELSE <<c>>

EncodeOp(op) ==
  LET w == op.write
  IN CASE w.kind = "splice" ->
            <<<<"kind", w.kind>>, <<"path", w.path>>, <<"start", w.start>>, <<"removed", op.removed>>,
              <<"inserted", w.items>>, <<"prev", op.prev.v>>, <<"next", op.next.v>>>>
       [] w.kind \in {"rename", "move"} ->
            <<<<"kind", w.kind>>, <<"path", w.path>>, <<"from", w.from>>, <<"to", w.to>>,
              <<"prev", op.prev>>, <<"next", op.next>>>>
       [] OTHER ->
            <<<<"kind", w.kind>>, <<"path", w.path>>,
              <<"prev", OptionalToCarrier(op.prev)>>, <<"next", OptionalToCarrier(op.next)>>>>

(* carrier_to_projected_op followed by projected_write_op_from_transport:   *)
(* the write to plan, and the values it claims to have found and left.      *)
DecodeOp(fields) ==
  LET kind == fields[1][2]
      path == fields[2][2]
      optional(field) == IF field = <<>> THEN Err ELSE field[1]
  IN CASE kind = "splice" ->
            [write |-> Splice(path, fields[3][2], Len(fields[4][2]), fields[5][2]),
             prev |-> Arr(fields[6][2]), next |-> Arr(fields[7][2])]
       [] kind \in {"rename", "move"} ->
            [write |-> Shift(kind, path, fields[3][2], fields[4][2]),
             prev |-> fields[5][2], next |-> fields[6][2]]
       [] OTHER ->
            [write |-> Write(kind, path, IF kind = "delete" THEN PVNone ELSE optional(fields[4][2])),
             prev |-> optional(fields[3][2]), next |-> optional(fields[4][2])]

(* replay_write_ops: each operation must find and leave what it recorded. *)
ReplayStep(plan, op) ==
  LET Replayed(next) ==
        IF next = Err \/ ~Same(ValueAt(plan.value, op.write.path), op.prev)
        THEN [value |-> Err, writes |-> <<>>]
        ELSE IF ~Same(ValueAt(next, op.write.path), op.next) THEN [value |-> Err, writes |-> <<>>]
        ELSE [value |-> next, writes |-> Append(plan.writes, op.write)]
  IN IF plan.value = Err THEN plan
     ELSE Replayed(PlanOne([value |-> plan.value, ops |-> <<>>], op.write).value)

ReplayWritesBackwards(c, ops) == FoldLeft(ReplayStep, [value |-> c, writes |-> <<>>], Reverse(ops))
ReplayWrites(c, ops) == FoldLeft(ReplayStep, [value |-> c, writes |-> <<>>], ops)

-----------------------------------------------------------------------------
(* The HSON value graph: a node is [tag, kids], an array item also has its *)
(* index metadata; the tag of a property is its key.                       *)

GNode(tag, kids) == [tag |-> tag, kids |-> kids, index |-> PVNone]
IsValueTag(tag) == tag \in {"str", "obj", "arr"}

RECURSIVE ToNode(_)
PropertyNode(key, c) ==
  LET child == ToNode(c)
  IN GNode(key, <<IF child.tag = "str" THEN GNode("obj", <<child>>) ELSE child>>)
ItemNode(index, c) == [GNode("ii", <<ToNode(c)>>) EXCEPT !.index = index]

(* projected_value_to_hson_node *)
ToNode(c) ==
  CASE c.t = "atom" -> GNode("str", <<c.v>>)
    [] c.t = "arr"  -> GNode("arr", [i \in 1..Len(c.v) |-> ItemNode(i - 1, c.v[i])])
    [] OTHER        -> GNode("obj", [i \in 1..Len(c.v) |-> PropertyNode(c.v[i].key, c.v[i].val)])

ToRoot(c) == GNode("root", <<ToNode(c)>>)

RECURSIVE FromNode(_)
(* projected_value_from_hson_node: Err on a graph that is not canonical. *)
FromNode(n) ==
  LET kids == [i \in 1..Len(n.kids) |-> FromNode(n.kids[i].kids[1])]
      transparent == Len(n.kids) = 1 /\ IsValueTag(n.kids[1].tag)
  IN CASE n.tag = "root" -> FromNode(n.kids[1])
       [] n.tag = "str"  -> Atom(n.kids[1])
       [] n.tag = "arr"  ->
            IF \A i \in 1..Len(n.kids) : n.kids[i].tag = "ii" /\ n.kids[i].index = i - 1 /\ kids[i] # Err
            THEN Arr(kids) ELSE Err
       [] n.tag = "obj" /\ transparent -> FromNode(n.kids[1])
       [] OTHER ->
            IF \A i \in 1..Len(n.kids) : n.kids[i].tag \in PVKey /\ Len(n.kids[i].kids) = 1 /\ kids[i] # Err
            THEN Obj([i \in 1..Len(n.kids) |-> Entry(n.kids[i].tag, kids[i])]) ELSE Err

(* unwrap_value_payload *)
Payload(n) == IF IsValueTag(n.tag) THEN n ELSE n.kids[1]

(* find_child_wrapper, as a position in the payload's children. *)
WrapperIndex(n, part) ==
  CASE n.tag = "obj" /\ part \in PVKey -> SelectInSeq(n.kids, LAMBDA kid : kid.tag = part)
    [] n.tag = "arr" /\ part \notin PVKey -> IF part \in 0..(Len(n.kids) - 1) THEN part + 1 ELSE 0
    [] OTHER -> 0

WithPayload(n, payload) == IF IsValueTag(n.tag) THEN payload ELSE [n EXCEPT !.kids[1] = payload]

(* write_object_property and write_array_index. *)
WriteChild(payload, part, c) ==
  LET i == WrapperIndex(payload, part)
      wrapper == IF part \in PVKey THEN PropertyNode(part, c) ELSE ItemNode(part, c)
  IN IF i = 0 THEN [payload EXCEPT !.kids = Append(@, wrapper)]
     ELSE [payload EXCEPT !.kids[i] = wrapper]

(* delete_object_property *)
DeleteChild(payload, part) == [payload EXCEPT !.kids = RemoveAt(@, WrapperIndex(payload, part))]

RECURSIVE EditAt(_, _, _)
(* Resolve the parent of a path and edit its payload in place. *)
EditAt(n, path, op) ==
  LET payload == Payload(n)
      i == WrapperIndex(payload, Head(path))
  IN WithPayload(n,
       CASE Len(path) > 1             -> [payload EXCEPT !.kids[i] = EditAt(@, Tail(path), op)]
         [] op.write.kind = "delete"  -> DeleteChild(payload, path[1])
         [] OTHER                     -> WriteChild(payload, path[1], op.next))

(* apply_projected_transport_ops, one operation: a splice, a rename and a   *)
(* move replace the container they act on.                                  *)
EditGraph(root, op) ==
  IF op.write.path = <<>> THEN ToRoot(op.next) ELSE EditAt(root, op.write.path, op)
=============================================================================
