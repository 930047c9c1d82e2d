------------------------------ MODULE LocusWire ------------------------------
(***************************************************************************)
(* What a Locus document looks like outside the process, and whether it    *)
(* comes back: the codec of graph content and captures                     *)
(* (livemap.document.view-state-codec.ts, locus.graph-content-codec.ts),   *)
(* the canonical commit (locus.history.ts, locus.protocol.ts), snapshots   *)
(* in HSON and view-state form (locus.document-snapshot.ts), the bootstrap *)
(* artifact (locus.bootstrap.ts), and the checkpoint and tail a persistent *)
(* Locus is restored from (locus.persistence.ts).                          *)
(*                                                                         *)
(* A persistent authority commits graph operations, is checkpointed and    *)
(* reloaded.  A mirror takes a snapshot in either form or installs an      *)
(* artifact, and then the commits that follow.  Transport is the identity  *)
(* on what the encoders made; order, loss and retries are LocusRecovery's. *)
(*                                                                         *)
(* A payload is the codec's representation, a plain value.  That writing   *)
(* one as HSON and reading it back gives the value is what TransformCircuit*)
(* checks; what is left of it here is that the reader stops at MaxNesting. *)
(***************************************************************************)
EXTENDS DocumentGraph, TLC

CONSTANTS
  WireStarts,       \* root nodes a document may start with
  WireRequests,     \* requests a caller may make
  WireActions,      \* document actions a client may send
  WireInstalls,     \* root nodes a caller may put in place of the root
  MaxNesting,       \* where the HSON reader gives up (75 in the code)
  MaxWireCalls      \* calls of a behaviour; deliveries are not counted

Json == INSTANCE JsonText
Hson == INSTANCE HsonText

VARIABLES
  origin,    \* the authority's document: [status, root, overlay, issued, rev]
  past,      \* the roots it had, from revision 0
  sent,      \* every canonical commit as it was put on the wire
  kept,      \* the revision from which the authority retains commits
  durable,   \* the stored checkpoint: an envelope with its snapshot
  artifact,  \* the bootstrap artifact last captured
  mirror,    \* the client's document, of the same form
  wireCalls

wireVars == <<origin, past, sent, kept, durable, artifact, mirror, wireCalls>>

WireMode == classify_live_root_mode(past[1])

-----------------------------------------------------------------------------
\* The codec.  encode_value: every node, bag and entry in a tagged record.  A
\* primitive is written with its type; the model's have one.  A bag is a set of
\* pairs, absent when it is empty.
RECURSIVE encode_value(_), decode_value(_)

JString(v) == Json!JObj(<<"type", "value">>, <<Json!JStr("string"), Json!JStr(v)>>)

\* Object.keys(...).sort(): one order for every set of keys.
sorted(keys) == SetToSeq(keys)

encode_entries(pairs) ==
  LET keys == sorted(AttrNames(pairs))
      ValueOf(key) == (CHOOSE p \in pairs : p[1] = key)[2]
  IN Json!JArr([i \in DOMAIN keys |->
       Json!JObj(<<"key", "value">>, <<Json!JStr(keys[i]), JString(ValueOf(keys[i]))>>)])

encode_bag(pairs) ==
  IF pairs = {} THEN Json!JObj(<<"presence">>, <<Json!JStr("absent")>>)
  ELSE Json!JObj(<<"presence", "entries">>, <<Json!JStr("present"), encode_entries(pairs)>>)

MetaPairs(n) == IF n.quid = NoQuid THEN {} ELSE {<<"quid", n.quid>>}

encode_value(n) ==
  IF n.tag = "prim" THEN JString(n.val)
  ELSE LET slots == Slots(n)
       IN Json!JObj(<<"type", "tag", "attrs", "meta", "content">>,
            <<Json!JStr("node"), Json!JStr(n.tag), encode_bag(n.attrs), encode_bag(MetaPairs(n)),
              Json!JArr([i \in DOMAIN slots |-> encode_value(slots[i])])>>)

\* require_exact_keys: the keys a record must have, and no others.
Exactly(v, keys) == v.j = "obj" /\ ToSet(v.keys) = keys /\ IsInjective(v.keys)
Tagged(v, type) == v.j = "obj" /\ Json!Has(v, "type") /\ Json!Get(v, "type") = Json!JStr(type)

NoPairs == {<<>>}

\* Entries in the order of their keys, none twice, as <<key, decoded value>>.
decode_entries(v) ==
  LET Entry(i) == <<Json!Get(v.items[i], "key").v, decode_value(Json!Get(v.items[i], "value"))>>
      Checked(entries) ==
        IF \/ [i \in DOMAIN entries |-> entries[i][1]] # sorted({ e[1] : e \in ToSet(entries) })
           \/ \E e \in ToSet(entries) : IsBad(e[2])
        THEN NoPairs ELSE ToSet(entries)
  IN IF \/ v.j # "arr"
        \/ \E i \in DOMAIN v.items :
             ~Exactly(v.items[i], {"key", "value"}) \/ Json!Get(v.items[i], "key").j # "str"
     THEN NoPairs ELSE Checked([i \in DOMAIN v.items |-> Entry(i)])

decode_bag(v) ==
  CASE Exactly(v, {"presence"}) /\ Json!Get(v, "presence") = Json!JStr("absent") -> {}
    [] Exactly(v, {"presence", "entries"}) /\ Json!Get(v, "presence") = Json!JStr("present") ->
         decode_entries(Json!Get(v, "entries"))
    [] OTHER -> NoPairs

\* decode_attrs and decode_meta: primitives, and for metadata known keys.
decode_attrs(entries) ==
  IF entries = NoPairs \/ \E e \in entries : e[2].tag # "prim" THEN NoPairs
  ELSE { <<e[1], e[2].val>> : e \in entries }
decode_meta(entries) ==
  LET pairs == decode_attrs(entries)
  IN IF pairs = NoPairs \/ \E p \in pairs : p[1] # "quid" THEN NoPairs ELSE pairs

\* A node with the slots that were decoded, the only one of a leaf its payload.
DecodedNode(tag, attrs, meta, slots) ==
  LET quid == IF meta = {} THEN NoQuid ELSE (CHOOSE m \in meta : TRUE)[2]
      node == HNode(tag, quid, attrs, IF tag \in Leaves THEN <<>> ELSE slots)
  IN IF NoPairs \in {attrs, meta} \/ AnyBad(slots) THEN Bad
     ELSE IF tag \in Leaves THEN [node EXCEPT !.val = slots[1].val] ELSE node

decode_value(v) ==
  CASE Tagged(v, "string") ->
         IF Exactly(v, {"type", "value"}) /\ Json!Get(v, "value").j = "str"
         THEN Prim(Json!Get(v, "value").v) ELSE Bad
    [] Tagged(v, "node") ->
         IF /\ Exactly(v, {"type", "tag", "attrs", "meta", "content"})
            /\ Json!Get(v, "tag").j = "str" /\ Json!Get(v, "content").j = "arr"
         THEN LET content == Json!Get(v, "content").items
              IN DecodedNode(Json!Get(v, "tag").v,
                   decode_attrs(decode_bag(Json!Get(v, "attrs"))), decode_meta(decode_bag(Json!Get(v, "meta"))),
                   [i \in DOMAIN content |-> decode_value(content[i])])
         ELSE Bad
    [] OTHER -> Bad

\* How deep the HSON reader goes in a plain value; it reads nothing that deep.
\* The codec's own limits lie beyond: 256 levels, 100000 nodes, four megabytes.
RECURSIVE Nesting(_), ObjectNesting(_)

\* Mutant: only objects count.
ObjectNesting(v) ==
  IF v.items = <<>> THEN 0
  ELSE (IF v.j = "arr" THEN 0 ELSE 1) + Max({ ObjectNesting(v.items[i]) : i \in DOMAIN v.items })

Nesting(v) ==
  IF v.items = <<>> THEN 0 ELSE 1 + Max({ Nesting(v.items[i]) : i \in DOMAIN v.items })

Readable(payload) == Nesting(payload) < MaxNesting

-----------------------------------------------------------------------------
\* Graph content: encode_exact_hson_value and back, and locus graph content.
validate_content(n) == n.tag = "prim" \/ (Canonical(n) /\ QuidsWellPlaced(n))

NoContent == [format |-> "none", payload |-> Json!JBad]

encode_exact_hson_value(n) ==
  Json!JObj(<<"valueKind", "value">>, <<Json!JStr("canonical-graph-content"), encode_value(n)>>)

decode_exact_hson_value(payload) ==
  LET Checked(value) ==
        IF IsBad(value) \/ encode_exact_hson_value(value) # payload THEN Bad
        ELSE IF value.tag = "prim" THEN value ELSE normalize_hson_array_index_order(value)
  IN IF /\ Readable(payload) /\ Exactly(payload, {"valueKind", "value"})
        /\ Json!Get(payload, "valueKind") = Json!JStr("canonical-graph-content")
     THEN Checked(decode_value(Json!Get(payload, "value"))) ELSE Bad

encode_locus_graph_content(n) ==
  IF validate_content(n) THEN [format |-> "hson-graph", payload |-> encode_exact_hson_value(n)]
  ELSE NoContent

decode_locus_graph_content(encoded) ==
  LET Checked(content) == IF ~IsBad(content) /\ validate_content(content) THEN content ELSE Bad
  IN IF encoded.format = "hson-graph" THEN Checked(decode_exact_hson_value(encoded.payload)) ELSE Bad

-----------------------------------------------------------------------------
\* The canonical commit, and what the receiver makes of it.  On the wire an
\* operation is [graph, mode, content]: the operation without its content, the
\* mode a new root has, and the content encoded.
GraphCommit(prevRev, rev, ops) == [prevRev |-> prevRev, rev |-> rev, ops |-> ops]
CanonicalCommit(mode, prevRev, rev, ops) == [mode |-> mode] @@ GraphCommit(prevRev, rev, ops)
NoCommit == CanonicalCommit("none", 0, 0, <<>>)

CarriesContent(op) == op.op \in {"replace-root", "replace-content", "insert-content"}
RootMode(op) == IF op.op = "replace-root" THEN classify_live_root_mode(op.content) ELSE "none"

canonical_graph_op(op) ==
  [graph |-> [op EXCEPT !.content = Bad], mode |-> RootMode(op),
   content |-> IF CarriesContent(op) THEN encode_locus_graph_content(op.content) ELSE NoContent]

\* NoCommit where the code throws.
make_locus_canonical_commit(mode, commit, expectedPrevRev) ==
  LET Made(ops) ==
        IF \E i \in DOMAIN ops : CarriesContent(ops[i].graph) /\ ops[i].content = NoContent THEN NoCommit
        ELSE CanonicalCommit(mode, commit.prevRev, commit.rev, ops)
  IN IF /\ commit.rev = commit.prevRev + 1 /\ commit.prevRev = expectedPrevRev
        /\ commit.ops # <<>>
        /\ \A i \in DOMAIN commit.ops : RootMode(commit.ops[i]) \in {"none", mode}
     THEN Made([i \in DOMAIN commit.ops |-> canonical_graph_op(commit.ops[i])]) ELSE NoCommit

PublicName(name) == name \notin {"", "data-_quid", "data-_index"}

\* decode_graph_op: whether an operation is one a document of this mode takes.
decode_graph_op(encoded, mode) ==
  LET op == encoded.graph
      IsRoot(content) ==
        ~IsBad(content) /\ content.tag # "prim" /\ classify_live_root_mode(content) = mode
  IN CASE op.op = "replace-root" ->
            encoded.mode = mode /\ IsRoot(decode_locus_graph_content(encoded.content))
       [] op.op \in {"replace-content", "insert-content"} ->
            ~IsBad(decode_locus_graph_content(encoded.content))
       [] op.op \in {"set-attr", "remove-attr"} -> PublicName(op.name)
       [] op.op = "replace-attrs" -> \A a \in op.attrs : PublicName(a[1])
       [] op.op = "ensure-quid" -> op.quid # NoQuid
       [] op.op = "move-content" -> op.index # op.to
       [] OTHER -> op.op = "remove-content"

decode_canonical_commit(commit) ==
  /\ commit.mode \in {"element", "fragment"}
  /\ commit.rev = commit.prevRev + 1 /\ commit.ops # <<>>
  /\ \A i \in DOMAIN commit.ops : decode_graph_op(commit.ops[i], commit.mode)

decode_locus_document_commit(commit) ==
  LET Decoded(encoded) ==
        IF CarriesContent(encoded.graph)
        THEN [encoded.graph EXCEPT !.content = decode_locus_graph_content(encoded.content)]
        ELSE encoded.graph
  IN GraphCommit(commit.prevRev, commit.rev, [i \in DOMAIN commit.ops |-> Decoded(commit.ops[i])])

-----------------------------------------------------------------------------
\* The document actions: a name and a payload, a record of its fields.
Action(name, payload) == [name |-> name, payload |-> payload]
PathTarget(path) == [kind |-> "path", path |-> path]
QuidTarget(quid) == [kind |-> "quid", quid |-> quid]

\* encode_client_message: the content of a payload goes encoded; content that
\* cannot be encoded goes as something no server decodes.
encode_client_message(action) ==
  LET field == IF action.name = "document.content.insert" THEN "content" ELSE "replacement"
  IN IF /\ action.name \in {"document.content.insert", "document.content.replace"}
        /\ field \in DOMAIN action.payload
     THEN [action EXCEPT !.payload[field] = encode_locus_graph_content(@)]
     ELSE action

\* The fields of a payload besides its target.
ActionFields ==
  ("document.attrs.set" :> {"name", "value"}) @@ ("document.attrs.drop" :> {"name"})
  @@ ("document.attrs.setMany" :> {"values"}) @@ ("document.attrs.dropMany" :> {"names"})
  @@ ("document.attrs.clear" :> {}) @@ ("document.attrs.replace" :> {"values"})
  @@ ("document.content.replace" :> {"index", "replacement"})
  @@ ("document.content.insert" :> {"index", "content"})
  @@ ("document.content.remove" :> {"index"}) @@ ("document.content.move" :> {"from", "to"})

\* decode_document_target.
decode_document_target(target) ==
  \/ DOMAIN target = {"kind", "path"} /\ target.kind = "path" /\ \A i \in DOMAIN target.path : target.path[i] >= 0
  \/ DOMAIN target = {"kind", "quid"} /\ target.kind = "quid" /\ target.quid # NoQuid

\* What a field must be.
decode_field(field, value) ==
  CASE field = "name" -> PublicName(value)
    [] field = "names" -> \A i \in DOMAIN value : PublicName(value[i])
    [] field = "values" -> \A pair \in value : PublicName(pair[1])
    [] field \in {"index", "from", "to"} -> value >= 0
    [] field \in {"content", "replacement"} -> ~IsBad(decode_locus_graph_content(value))
    [] OTHER -> TRUE

\* The call an action stands for, at the target: the attributes of the bulk
\* ones are planned from those the element has when it runs.
ActionCall(action, at, attrs) ==
  LET payload == action.payload
      Replace(planned) == [at EXCEPT !.op = "replace-attrs", !.attrs = planned]
      Indexed(op) == [at EXCEPT !.op = op, !.index = payload.index]
  IN CASE action.name = "document.attrs.set" ->
            [at EXCEPT !.op = "set-attr", !.name = payload.name, !.value = payload.value]
       [] action.name = "document.attrs.drop" -> [at EXCEPT !.op = "remove-attr", !.name = payload.name]
       [] action.name = "document.attrs.setMany" -> Replace(plan_public_attrs_set_many(attrs, payload.values))
       [] action.name = "document.attrs.dropMany" ->
            Replace(plan_public_attrs_drop_many(attrs, ToSet(payload.names)))
       [] action.name = "document.attrs.clear" -> Replace({})
       [] action.name = "document.attrs.replace" -> Replace(payload.values)
       [] action.name = "document.content.replace" ->
            [Indexed("replace-content") EXCEPT !.content = decode_locus_graph_content(payload.replacement)]
       [] action.name = "document.content.insert" ->
            [Indexed("insert-content") EXCEPT !.content = decode_locus_graph_content(payload.content)]
       [] action.name = "document.content.remove" -> Indexed("remove-content")
       [] action.name = "document.content.move" ->
            [at EXCEPT !.op = "move-content", !.index = payload.from, !.to = payload.to]

\* resolve_locus_document_action: "invalid", or the call that is run.
InvalidAction == GraphOp("invalid", NoPath)
resolve_locus_document_action(document, action) ==
  LET payload == action.payload
      target == payload.target
      at == IF target.kind = "path" THEN GraphOp("none", target.path)
            ELSE Request([GraphOp("none", NoPath) EXCEPT !.quid = target.quid], document.overlay)
      endpoint == IF at.path = NoPath \/ EmptyFragment(document.root) THEN Bad
                  ELSE resolve_document_path(document.root, WireMode, at.path)
  IN IF /\ "target" \in DOMAIN payload
        /\ decode_document_target(target)
        /\ DOMAIN payload = {"target"} \union ActionFields[action.name]
        /\ \A field \in ActionFields[action.name] : decode_field(field, payload[field])
     THEN ActionCall(action, at, endpoint.attrs)
     ELSE InvalidAction

-----------------------------------------------------------------------------
\* A document [status, root, overlay, issued, rev] and what is done to it.
Unavailable(status, rev) == [status |-> status, root |-> Bad, overlay |-> {}, issued |-> {}, rev |-> rev]
Available(root, overlay, issued, rev) ==
  [status |-> "live", root |-> root, overlay |-> overlay, issued |-> issued, rev |-> rev]

\* prepare_document_install: a whole root, and with it a new epoch of QUIDs.
WithRoot(root, mode, rev) ==
  LET Over(new, overlay) ==
        IF OverlayOK(overlay) THEN Available(new, overlay, OverlayQuids(overlay), rev)
        ELSE Unavailable("rejected", rev)
      Normal(new) ==
        IF classify_live_root_mode(new) # mode THEN Unavailable("rejected", rev)
        ELSE Over(new, build_overlay(new, mode))
  IN Normal(normalize_hson_array_index_order(root))

\* One operation on the detached candidate: prepared on the recorded path, with
\* the witness as evidence; it changes the root and brings no retired QUID back.
StageOp(candidate, op) ==
  LET Stopped(status) == Unavailable(status, candidate.rev)
      Applied(next, ledger) ==
        IF next.root = candidate.root THEN Stopped("rejected")
        ELSE IF ~ledger.ok THEN Stopped("reused")
        ELSE Available(next.root, next.overlay, ledger.issued, candidate.rev)
      Checked(next) ==
        IF next.ok THEN Applied(next, StagedLedger(candidate, next.overlay)) ELSE Stopped("rejected")
  IN IF candidate.status # "live" THEN candidate
     ELSE IF op.op = "replace-root"
     THEN WithRoot(op.content, WireMode, candidate.rev)
     ELSE Checked(Prepared(candidate.root, WireMode, candidate.overlay, op))

\* replay_livemap_document_commit: every operation on a candidate, then one swap.
replay_livemap_document_commit(document, commit) ==
  LET Swapped(candidate) == [candidate EXCEPT !.rev = commit.rev]
      alone == Len(commit.ops) = 1 \/ \A i \in DOMAIN commit.ops : commit.ops[i].op # "replace-root"
  IN IF commit.prevRev # document.rev \/ commit.rev # commit.prevRev + 1 \/ commit.ops = <<>> \/ ~alone
     THEN Unavailable("rejected", commit.rev)
     ELSE Swapped(FoldLeft(StageOp, document, commit.ops))

replay_locus_document_commit(document, commit) ==
  IF commit.mode # WireMode THEN Unavailable("rejected", commit.rev)
  ELSE replay_livemap_document_commit(document, decode_locus_document_commit(commit))

-----------------------------------------------------------------------------
\* Captures [mode, rev, root] and snapshots: an envelope [rev, mode] around a
\* body, an HSON text or a payload.
Capture(mode, rev, root) == [mode |-> mode, rev |-> rev, root |-> root]
NoCapture == Capture("none", 0, Bad)
CaptureOf(document) == Capture(WireMode, document.rev, document.root)

Envelope(format, capture, hson, payload) ==
  [rev |-> capture.rev, mode |-> capture.mode, format |-> format, hson |-> hson, payload |-> payload]
NoSnapshot == Envelope("none", NoCapture, <<>>, Json!JBad)

validate_canonical_document(root, mode) ==
  /\ Canonical(root) /\ classify_live_root_mode(root) = mode
  /\ OverlayOK(build_overlay(root, mode))

\* The key of the root is not the tag that HsonGraph calls "root".
encode_view_state_payload(capture) ==
  Json!JObj(<<"captureKind", "mode", "revision", "root node">>,
            <<Json!JStr("hson-document"), Json!JStr(capture.mode), Json!JPrim(ToString(capture.rev)),
              encode_value(capture.root)>>)

encode_view_state_snapshot(capture) ==
  IF validate_canonical_document(capture.root, capture.mode)
  THEN Envelope("view-state", capture, <<>>, encode_view_state_payload(capture)) ELSE NoSnapshot

\* A number is a revision when it is one a document has had.
decode_payload(v) ==
  LET revisions == { r \in 0..MaxWireCalls : Json!Get(v, "revision") = Json!JPrim(ToString(r)) }
      Decoded(root) ==
        IF IsBad(root) \/ root.tag = "prim" THEN NoCapture
        ELSE Capture(Json!Get(v, "mode").v, CHOOSE r \in revisions : TRUE, root)
  IN IF /\ Exactly(v, {"captureKind", "mode", "revision", "root node"})
        /\ Json!Get(v, "captureKind") = Json!JStr("hson-document")
        /\ Json!Get(v, "mode") \in {Json!JStr("element"), Json!JStr("fragment")}
        /\ revisions # {}
     THEN Decoded(decode_value(Json!Get(v, "root node"))) ELSE NoCapture

decode_view_state_snapshot(payload) ==
  LET Normalized(capture) ==
        IF validate_canonical_document(capture.root, capture.mode) THEN capture ELSE NoCapture
      Checked(capture) ==
        IF capture = NoCapture \/ encode_view_state_payload(capture) # payload THEN NoCapture
        ELSE Normalized([capture EXCEPT !.root = normalize_hson_array_index_order(@)])
  IN IF Readable(payload) THEN Checked(decode_payload(payload)) ELSE NoCapture

\* The HSON form writes the one value the root holds, with a lone text as its
\* owner's; the view-state form is the codec's.
encode_locus_document_snapshot(capture, format) ==
  LET Written(text) == IF Hson!Refused(text) THEN NoSnapshot ELSE Envelope("hson", capture, text, Json!JBad)
      Detached(value) ==
        IF IsBad(value) THEN NoSnapshot
        ELSE Written(Hson!serialize_hson(value, Hson!Options(FALSE, FALSE, TRUE)))
  IN IF format = "view-state" THEN encode_view_state_snapshot(capture)
     ELSE Detached(detach_hson_root_value(capture.root))

\* make_classified_livemap: the map at revision 0 that a parsed root stands for.
make_classified_livemap(root) ==
  IF IsBad(root) THEN Unavailable("rejected", 0)
  ELSE WithRoot(root, classify_live_root_mode(root), 0)

\* A text is read into a map of its own, which is captured with the revision of
\* the envelope; a payload has a mode and a revision, which must be those.
decode_locus_document_snapshot(snapshot) ==
  LET Staged(map) ==
        IF map.status = "live" /\ classify_live_root_mode(map.root) = snapshot.mode
        THEN Capture(snapshot.mode, snapshot.rev, map.root) ELSE NoCapture
      Matching(capture) ==
        IF capture.mode = snapshot.mode /\ capture.rev = snapshot.rev THEN capture ELSE NoCapture
  IN IF snapshot.format = "hson" THEN Staged(make_classified_livemap(Hson!ParseHson(snapshot.hson, TRUE)))
     ELSE Matching(decode_view_state_snapshot(snapshot.payload))

\* A capture restored into a map of its mode, with its QUID metadata preserved.
RestoredFrom(capture, mode, failure, rev) ==
  IF capture.mode # mode THEN Unavailable(failure, rev) ELSE WithRoot(capture.root, mode, capture.rev)

-----------------------------------------------------------------------------
NoArtifact == NoSnapshot

\* map_from_snapshot: the text is read into a map and its mode compared, and
\* the capture of the text restored there.
map_from_snapshot(snapshot) ==
  LET Into(map) ==
        IF map.status # "live" \/ classify_live_root_mode(map.root) # snapshot.mode
        THEN Unavailable("undecodable", snapshot.rev)
        ELSE RestoredFrom(decode_locus_document_snapshot(snapshot), snapshot.mode, "undecodable", snapshot.rev)
  IN Into(make_classified_livemap(Hson!ParseHson(snapshot.hson, TRUE)))

\* validate_package, its selector, identities and endpoint left out.
validate_package(package) ==
  /\ package.format = "hson" /\ package.mode \in {"element", "fragment"}
  /\ map_from_snapshot(package).status = "live"

document_checkpoint(document) == encode_view_state_snapshot(CaptureOf(document))

\* persisted_commit: what the gate appends, or NoCommit.
persisted_commit(commit) == make_locus_canonical_commit(WireMode, commit, commit.prevRev)

\* One record of the tail: decoded, replayed on the map, and made again from
\* the commit that was replayed.
ReplayRecord(state, commit) ==
  LET Failed(status) == [state EXCEPT !.map = Unavailable(status, commit.rev)]
      Remade(map, canonical) ==
        IF map.status # "live" THEN [state EXCEPT !.map = map]
        ELSE IF canonical = NoCommit THEN Failed("rejected")
        ELSE [map |-> map, tail |-> Append(state.tail, canonical), expectedPrevRev |-> canonical.rev]
  IN IF state.map.status # "live" THEN state
     ELSE IF ~decode_canonical_commit(commit) THEN Failed("undecodable")
     ELSE IF commit.mode # WireMode \/ commit.prevRev # state.expectedPrevRev THEN Failed("rejected")
     ELSE Remade(replay_locus_document_commit(state.map, commit),
                 make_locus_canonical_commit(WireMode, decode_locus_document_commit(commit), state.expectedPrevRev))

\* validate_persisted_state: the checkpoint decoded and restored, the tail
\* replayed; the map must end at the last revision of the tail.
validate_persisted_state(checkpoint, commits) ==
  LET Restored(capture) ==
        IF capture.rev # checkpoint.rev THEN Unavailable("unloadable", checkpoint.rev)
        ELSE RestoredFrom(capture, checkpoint.mode, "unloadable", checkpoint.rev)
      From(map) == [map |-> map, tail |-> <<>>, expectedPrevRev |-> checkpoint.rev]
      Ended(state) ==
        IF state.map.status = "live" /\ state.map.rev # state.expectedPrevRev
        THEN [state EXCEPT !.map = Unavailable("rejected", state.expectedPrevRev)] ELSE state
  IN Ended(FoldLeft(ReplayRecord, From(Restored(decode_view_state_snapshot(checkpoint.payload))), commits))

WireInit ==
  \E root \in WireStarts :
    /\ past = <<root>>
    /\ origin = WithRoot(root, classify_live_root_mode(root), 0)
    /\ sent = <<>> /\ kept = 0
    /\ durable = document_checkpoint(origin)
    /\ artifact = NoArtifact
    /\ mirror \in {Unavailable("empty", 0), origin}   \* nobody, or a client that has recovered
    /\ wireCalls = 0

Calling == wireCalls < MaxWireCalls /\ wireCalls' = wireCalls + 1

\* A commit that changes the document is made canonical and appended to the
\* persisted tail before it shows; then it is retained.
OriginCommits(next, op) ==
  LET Appended(canonical) ==
        /\ canonical # NoCommit
        /\ sent' = Append(sent, canonical)
        /\ origin' = [next EXCEPT !.rev = origin.rev + 1]
        /\ past' = Append(past, next.root)
  IN /\ next.status = "live" /\ next.root # origin.root
     /\ Appended(persisted_commit(GraphCommit(origin.rev, origin.rev + 1, <<op>>)))
     /\ UNCHANGED <<kept, durable, artifact, mirror>>

OriginEdits ==
  /\ origin.status = "live" /\ Calling
  /\ \E request \in WireRequests :
       LET op == Recorded(origin.root, WireMode, Request(request, origin.overlay))
       IN op.path # NoPath /\ OriginCommits(StageOp(origin, op), op)

\* A client's action, received as it was sent; one that is invalid, or that the
\* document does not take, is answered with an error.
OriginActs ==
  /\ origin.status = "live" /\ Calling
  /\ \E action \in WireActions :
       LET op == Recorded(origin.root, WireMode,
                          resolve_locus_document_action(origin, encode_client_message(action)))
       IN op.path # NoPath /\ OriginCommits(StageOp(origin, op), op)

OriginReplacesRoot ==
  /\ origin.status = "live" /\ Calling
  /\ \E root \in WireInstalls :
       OriginCommits(WithRoot(root, WireMode, origin.rev),
                     [GraphOp("replace-root", <<>>) EXCEPT !.content = root])

\* checkpoint(): the stored checkpoint is replaced and the tail before it cut.
\* Mutant: the document is captured before the commits that were waiting.
CheckpointsEarlier ==
  /\ Calling
  /\ origin.status = "live" /\ durable.rev # origin.rev
  /\ durable' = document_checkpoint([origin EXCEPT !.root = past[origin.rev]])
  /\ UNCHANGED <<origin, past, sent, kept, artifact, mirror>>

OriginCheckpoints ==
  /\ Calling
  /\ origin.status = "live" /\ durable.rev # origin.rev
  /\ durable' = document_checkpoint(origin)
  /\ UNCHANGED <<origin, past, sent, kept, artifact, mirror>>

\* The process is gone, and the Locus is restored from what was stored; the
\* history it retains is the tail, made again.
OriginReloads ==
  LET Loaded(state) ==
        /\ origin' = state.map
        /\ sent' = IF state.map.status = "live" THEN SubSeq(sent, 1, durable.rev) \o state.tail ELSE sent
  IN /\ Calling
     /\ origin.status = "live"
     /\ Loaded(validate_persisted_state(durable, SubSeq(sent, durable.rev + 1, Len(sent))))
     /\ kept' = durable.rev
     /\ UNCHANGED <<past, durable, artifact, mirror>>

\* The client asks for a snapshot, gets it in the form it can read, decodes it
\* and restores its mirror from it.
MirrorRecovers ==
  \E format \in {"hson", "view-state"} :
    LET failure == IF format = "hson" THEN "garbled" ELSE "undecodable"
        Received(snapshot) ==
          IF snapshot = NoSnapshot THEN Unavailable("refused", origin.rev)
          ELSE RestoredFrom(decode_locus_document_snapshot(snapshot), WireMode, failure, snapshot.rev)
    IN /\ Calling
       /\ origin.status = "live"
       /\ mirror' = Received(encode_locus_document_snapshot(CaptureOf(origin), format))
       /\ UNCHANGED <<origin, past, sent, kept, durable, artifact>>

\* apply_commit on a commit that was decoded: one the mirror has is a duplicate,
\* one that skips a revision or does not apply fails the recovery.
apply_commit(commit) ==
  IF commit.rev <= mirror.rev THEN mirror
  ELSE IF ~decode_canonical_commit(commit) THEN Unavailable("undecodable", commit.rev)
  ELSE IF commit.prevRev # mirror.rev THEN Unavailable("rejected", commit.rev)
  ELSE replay_locus_document_commit(mirror, commit)

\* A retained commit reaches the mirror: the next one, or one it has had.
MirrorReplays ==
  /\ origin.status = "live" /\ mirror.status = "live" /\ kept <= mirror.rev
  /\ \E i \in kept + 1..Min({mirror.rev + 1, Len(sent)}) : mirror' = apply_commit(sent[i])
  /\ UNCHANGED <<origin, past, sent, kept, durable, artifact, wireCalls>>

\* capture_locus_bootstrap fails when the package does not validate.
CaptureBootstrap ==
  LET Captured(package) == validate_package(package) /\ artifact' = package
  IN /\ Calling
     /\ origin.status = "live"
     /\ Captured(encode_locus_document_snapshot(CaptureOf(origin), "hson"))
     /\ UNCHANGED <<origin, past, sent, kept, durable, mirror>>

\* install_locus_bootstrap: the mirror and the cursor of its recovery.
InstallBootstrap ==
  /\ Calling
  /\ validate_package(artifact)
  /\ mirror' = map_from_snapshot(artifact)
  /\ UNCHANGED <<origin, past, sent, kept, durable, artifact>>

WireNext ==
  \/ OriginEdits \/ OriginActs \/ OriginReplacesRoot \/ OriginCheckpoints \/ OriginReloads
  \/ MirrorRecovers \/ MirrorReplays \/ CaptureBootstrap \/ InstallBootstrap

WireSpec == WireInit /\ [][WireNext]_wireVars

-----------------------------------------------------------------------------
\* The codec puts five levels around an attribute or a QUID, three around a
\* text, and two around every node: a graph of this depth cannot be read back.
RECURSIVE Depth(_)
Depth(n) ==
  Max({ IF n.attrs # {} \/ n.quid # NoQuid THEN 5 ELSE 2, IF n.tag \in Leaves THEN 3 ELSE 0 }
      \union { 2 + Depth(n.kids[i]) : i \in DOMAIN n.kids })

TooDeep(n) == 1 + Depth(n) >= MaxNesting

\* A live document is the one the authority had at its revision, its nodes, its
\* attributes and its QUIDs, wherever it came from: from commits decoded and
\* replayed, from a snapshot in either form or from a bootstrap artifact, and
\* for the authority itself from a checkpoint and its tail.
IsPast(document) ==
  document.status = "live" =>
    /\ document.root = past[document.rev + 1]
    /\ document.overlay = build_overlay(document.root, WireMode)
    /\ OverlayQuids(document.overlay) \subseteq document.issued

MirrorIsExact == IsPast(mirror)
ReloadIsExact == IsPast(origin)

\* A QUID left the document and came back with this revision.
QuidsAt(rev) == OverlayQuids(build_overlay(past[rev + 1], WireMode))
BroughtBack(rev) ==
  \E before, between \in 0..rev - 1 :
    before < between /\ (QuidsAt(rev) \intersect QuidsAt(before)) \ QuidsAt(between) # {}

Contents(commit) == { commit.ops[i].content : i \in DOMAIN commit.ops } \ {NoContent}
Unreadable(commit) == \E content \in Contents(commit) : ~Readable(content.payload)

\* Nothing the authority accepted is ever rejected on the other side.  An HSON
\* snapshot is refused for an empty fragment only, which HSON cannot write; a
\* payload is unreadable only when it holds a graph deeper than the reader
\* goes; and a commit that brings a QUID back is refused by a mirror that saw it
\* go, after the authority, restored from a checkpoint, has forgotten it.
RefusedForCause ==
  LET wanted == past[mirror.rev + 1]
  IN /\ mirror.status \notin {"rejected", "garbled"}
     /\ mirror.status = "refused" => EmptyFragment(wanted)
     /\ mirror.status = "undecodable" =>
          TooDeep(wanted) \/ (mirror.rev > 0 /\ Unreadable(sent[mirror.rev]))
     /\ mirror.status = "reused" => BroughtBack(mirror.rev) /\ durable.rev > 0
     /\ origin.status \notin {"rejected", "reused"}
     /\ origin.status = "unloadable" => TooDeep(past[durable.rev + 1])
     /\ origin.status = "undecodable" =>
          \E i \in durable.rev + 1..Len(sent) : Unreadable(sent[i])

\* The abstraction of the payload's text: written as HSON and read back, with
\* the limit of the reader, a payload is itself, or nothing when it is too deep
\* (serialize_hson and parse_hson around the codec).
ReadsAs(payload) ==
  LET Says(node) ==
        IF Readable(payload) THEN Json!projected_value_from_hson_node(node) = payload ELSE IsBad(node)
  IN Says(Hson!parse_hson(Hson!serialize_hson(Json!parse_json(payload), Hson!Options(FALSE, FALSE, FALSE))))

PayloadsRead ==
  sent # <<>> /\ wireCalls = Len(sent) =>
    \A content \in Contents(Last(sent)) : ReadsAs(content.payload)

\* "Persistent construction stores an exact initial checkpoint before returning
\* the host" (docs/locus/overview.md): what was stored is restored.
StoredIsRestored == origin.status = "live"

\* A mirror, a checkpoint and an artifact hold the document they were made
\* from; what the codec refuses it refuses for a reason a reader would have.
WireIsExact == MirrorIsExact /\ ReloadIsExact /\ RefusedForCause /\ PayloadsRead
==============================================================================
