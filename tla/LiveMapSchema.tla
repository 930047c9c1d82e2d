---------------------------- MODULE LiveMapSchema ----------------------------
(***************************************************************************)
(* Projected schemas (livemap.schema.ts) and the gate that validates a     *)
(* planned candidate (must_core_schema_candidate in livemap.core.ts).      *)
(* Diagnostics are left out: a validation is TRUE or FALSE.                *)
(***************************************************************************)
EXTENDS ProjectedValue

CONSTANTS PVNull,      \* the null atom's value
          PVNumbers,   \* values of number atoms; the others are strings
          RecurseNode, \* the node a recurse() reference resolves to
          Satisfies(_) \* the predicate of constrain()

SNode(kind) ==
  [kind |-> kind, optional |-> FALSE, nullable |-> FALSE, exact |-> FALSE,
   subs |-> <<>>, keys |-> <<>>, literals |-> {}]
SOptional(n) == [n EXCEPT !.optional = TRUE]
SNullable(n) == [n EXCEPT !.nullable = TRUE]
SArray(item) == [SNode("array") EXCEPT !.subs = <<item>>]
STuple(items) == [SNode("tuple") EXCEPT !.subs = items]
SRecord(item) == [SNode("record") EXCEPT !.subs = <<item>>]
SObject(keys, nodes) == [SNode("object") EXCEPT !.keys = keys, !.subs = nodes]
SExact(n) == [n EXCEPT !.exact = TRUE]
SPick(choices) == [SNode("pick") EXCEPT !.subs = choices]
SLiteral(values) == [SNode("literal") EXCEPT !.literals = values]
SConstrain(base) == [SNode("constrain") EXCEPT !.subs = <<base>>]

(* make_partial_schema_input *)
SPartial(n) == [n EXCEPT !.subs = [i \in 1..Len(n.subs) |-> SOptional(n.subs[i])]]

RECURSIVE DeepOptional(_)
(* make_deep_optional_schema_node: choices, constraints and recursions are  *)
(* made optional and not entered.                                           *)
DeepOptional(n) ==
  IF n.kind \in {"object", "array", "tuple", "record"}
  THEN [SOptional(n) EXCEPT !.subs = [i \in 1..Len(n.subs) |-> DeepOptional(n.subs[i])]]
  ELSE SOptional(n)

(* make_tagged_schema_choices: the discriminator replaces a property of its *)
(* name and goes last.                                                      *)
STagged(key, tags, variants) ==
  SPick([i \in 1..Len(tags) |->
    LET n == variants[i]
        kept == SelectSeq([j \in 1..Len(n.keys) |-> j], LAMBDA j : n.keys[j] # key)
    IN [n EXCEPT !.keys = Append([j \in 1..Len(kept) |-> n.keys[kept[j]]], key),
                 !.subs = Append([j \in 1..Len(kept) |-> n.subs[kept[j]]], SLiteral({Atom(tags[i])}))]])

TypeName(c) ==
  CASE c.t # "atom" -> c.t
    [] c.v = PVNull -> "null"
    [] c.v \in PVNumbers -> "number"
    [] OTHER -> "string"

PropIndex(n, key) == SelectInSeq(n.keys, LAMBDA k : k = key)

RECURSIVE Valid(_, _)
ValidPick(n, c) == \E i \in 1..Len(n.subs) : Valid(n.subs[i], c)
ValidRecurse(n, c) == Valid(RecurseNode, c)
ValidConstrain(n, c) == (TypeName(c) = "null" /\ n.nullable) \/ (Valid(n.subs[1], c) /\ Satisfies(c))
ValidArray(n, c) == c.t = "arr" /\ \A i \in 1..Len(c.v) : Valid(n.subs[1], c.v[i])
ValidTuple(n, c) ==
  /\ c.t = "arr"
  /\ Len(c.v) <= Len(n.subs)
  /\ \A i \in 1..Len(n.subs) : Valid(n.subs[i], IF i <= Len(c.v) THEN c.v[i] ELSE Err)
ValidObject(n, c) ==
  /\ c.t = "obj"
  /\ \A i \in 1..Len(n.keys) : Valid(n.subs[i], ValueAt(c, <<n.keys[i]>>))
  /\ n.exact => \A i \in 1..Len(c.v) : PropIndex(n, c.v[i].key) # 0
ValidRecord(n, c) == c.t = "obj" /\ \A i \in 1..Len(c.v) : Valid(n.subs[1], c.v[i].val)

(* validate_schema_node; Err stands for a missing value.  null is decided   *)
(* before the kind of node: only null, nullable and constrain nodes take it.*)
Valid(n, c) ==
  CASE c = Err -> n.optional
    [] c # Err /\ n.kind = "constrain" -> ValidConstrain(n, c)
    [] c # Err /\ n.kind # "constrain" /\ TypeName(c) = "null" -> n.kind = "null" \/ n.nullable
    [] OTHER ->
         CASE n.kind = "unknown" -> TRUE
           [] n.kind = "literal" -> \E l \in n.literals : Same(l, c)
           [] n.kind = "pick"    -> ValidPick(n, c)
           [] n.kind = "recurse" -> ValidRecurse(n, c)
           [] n.kind = "array"   -> ValidArray(n, c)
           [] n.kind = "tuple"   -> ValidTuple(n, c)
           [] n.kind = "object"  -> ValidObject(n, c)
           [] n.kind = "record"  -> ValidRecord(n, c)
           [] OTHER              -> TypeName(c) = n.kind

RECURSIVE SchemaNodeAt(_, _)
(* schema_node_at_path *)
SchemaNodeAt(n, path) ==
  IF path = <<>> THEN n
  ELSE LET part == Head(path)
           prop == IF part \in PVKey THEN PropIndex(n, part) ELSE 0
       IN CASE n.kind = "recurse"   -> SchemaNodeAt(RecurseNode, path)
            [] n.kind = "constrain" -> SchemaNodeAt(n.subs[1], path)
            [] n.kind = "object" /\ prop # 0 -> SchemaNodeAt(n.subs[prop], Tail(path))
            [] n.kind = "array" /\ part \notin PVKey -> SchemaNodeAt(n.subs[1], Tail(path))
            [] n.kind = "tuple" /\ part \notin PVKey ->
                 IF part < Len(n.subs) THEN SchemaNodeAt(n.subs[part + 1], Tail(path)) ELSE Err
            [] n.kind = "record" /\ part \in PVKey -> SchemaNodeAt(n.subs[1], Tail(path))
            [] OTHER -> Err

RECURSIVE HasRule(_, _)
(* schema.has: collect_schema_rules stops at recurse, constrain and pick,   *)
(* so no path below one has a rule of its own.                              *)
HasRule(n, path) ==
  IF path = <<>> THEN TRUE
  ELSE /\ n.kind \in {"object", "array", "tuple", "record"}
       /\ LET below == SchemaNodeAt(n, <<Head(path)>>) IN below # Err /\ HasRule(below, Tail(path))

(* The constrain rule strictly above a path, if any, forces the whole root. *)
ConstrainedAbove(schema, path) ==
  \E len \in 0..(Len(path) - 1) :
    LET prefix == SubSeq(path, 1, len)
    IN HasRule(schema, prefix) /\ SchemaNodeAt(schema, prefix).kind = "constrain"

RECURSIVE RuledPath(_, _)
RuledPath(schema, path) ==
  IF path = <<>> \/ HasRule(schema, path) THEN path ELSE RuledPath(schema, Front(path))

(* must_core_schema_candidate: the candidate is validated at the nearest    *)
(* ruled path of every write, or as a whole.                                *)
CandidateAdmitted(schema, candidate, writes) ==
  LET paths == {writes[i].path : i \in 1..Len(writes)}
  IN IF \E p \in paths : p = <<>> \/ ConstrainedAbove(schema, p)
     THEN Valid(schema, candidate)
     ELSE \A p \in paths :
            LET at == RuledPath(schema, p) IN Valid(SchemaNodeAt(schema, at), ValueAt(candidate, at))
=============================================================================
