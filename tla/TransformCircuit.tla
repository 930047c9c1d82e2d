--------------------------- MODULE TransformCircuit ---------------------------
(***************************************************************************)
(* The transform circuit (src/src/diagnostics/circuit-engine.ts,           *)
(* circuit-transform-boundary.ts, verify-universal-circuit.ts): a source   *)
(* is parsed, and its graph is sent round the three forms in both          *)
(* directions, comparing it strictly after every leg.  The boundary is the *)
(* transform itself (HsonText, JsonText, HtmlText).                        *)
(*                                                                         *)
(* The source starts as one of a set of sources and, for HSON, is edited a *)
(* lexeme at a time before the circuit is entered.  Cancellation is asked  *)
(* for by a callback at every checkpoint, which may answer at will.        *)
(***************************************************************************)
EXTENDS HsonText, JsonText, HtmlText

CONSTANTS
  Sources,          \* HSON sources to start from
  Documents,        \* JSON documents
  Pages,            \* markup documents
  Alphabet,         \* the lexemes an edit may type
  MaxEdits,         \* edits before the circuit is entered
  Times             \* laps in each direction (3 in the verifier)

ASSUME CircuitAssumption ==
  /\ MaxEdits \in Nat
  /\ Times \in Nat \ {0}

VARIABLES
  entry,    \* the form of the source
  source,   \* the HSON source, or <<>>
  typed,    \* edits made to it
  stopOnFirstFail, \* the option of the engine (true in the verifier)
  stage,    \* where execute_circuit is
  base,     \* the prepared graph
  here,     \* the graph of the current representation
  lap, leg, \* the leg that comes next
  clean,    \* no failure so far in this direction
  ends,     \* per direction: the final graph, or Bad when not completed
  legs,     \* counts.serializations
  verdict   \* the result

cvars == <<entry, source, typed, stopOnFirstFail, stage, base, here, lap, leg, clean, ends, legs, verdict>>

\* The boundary: serialization goes through fromNode.
Serialized(form, n) ==
  LET Texts(g) ==
     [hson |-> IF form = "hson" /\ ~IsBad(g) THEN serialize_hson(g, Options(TRUE, FALSE, FALSE)) ELSE <<Refusal>>,
      json |-> IF form = "json" /\ ~IsBad(g) THEN serialize_json(g) ELSE JBad,
      html |-> IF form = "html" /\ ~IsBad(g) THEN serialize_html(g) ELSE MBad]
  IN Texts(transform_from_node(n))

Parsed(form, text) ==
  CASE form = "hson" -> IF Refused(text.hson) THEN Bad ELSE parse_hson(text.hson)
    [] form = "json" -> parse_json(text.json)
    [] form = "html" -> parse_html(text.html)

Converted(form, n) == Parsed(form, Serialized(form, n))

\* direction_path: round the ring from the entry, and the entry again.
Ring(direction) == IF direction = "cw" THEN <<"json", "html", "hson">> ELSE <<"json", "hson", "html">>

direction_path(from, direction) ==
  LET ring == Ring(direction)
      start == CHOOSE i \in 1..3 : ring[i] = from
  IN [i \in 1..4 |-> ring[((start + i - 2) % 3) + 1]]

-----------------------------------------------------------------------------
CircuitInit ==
  /\ \/ entry = "hson" /\ source \in Sources /\ base = Bad
     \/ entry = "json" /\ source = <<>> /\ base \in { parse_json(d) : d \in Documents }
     \/ entry = "html" /\ source = <<>> /\ base \in { parse_html(p) : p \in Pages }
  /\ typed = 0 /\ stopOnFirstFail \in BOOLEAN /\ stage = "source" /\ here = Bad /\ lap = 0 /\ leg = 0 /\ clean = TRUE
  /\ ends = [d \in {"cw", "ccw"} |-> Bad]
  /\ legs = 0 /\ verdict = "none"

\* The author of the source inserts, replaces or deletes a lexeme.
WithLexeme(i, l) == SubSeq(source, 1, i) \o <<l>> \o SubSeq(source, i + 1, Len(source))
InPlaceOf(i, l) == [source EXCEPT ![i] = l]
Without(i) == SubSeq(source, 1, i - 1) \o SubSeq(source, i + 1, Len(source))

Spelled(s) == \A i \in 1..(Len(s) - 1) : WellSpaced(SubSeq(s, 1, i), s[i + 1])

Edit ==
  /\ stage = "source" /\ entry = "hson" /\ typed < MaxEdits
  /\ source' \in { WithLexeme(i, l) : i \in 0..Len(source), l \in Alphabet }
                   \union { InPlaceOf(i, l) : i \in DOMAIN source, l \in Alphabet }
                   \union { Without(i) : i \in DOMAIN source }
  /\ Spelled(source')
  /\ typed' = typed + 1
  /\ UNCHANGED <<entry, stopOnFirstFail, stage, base, here, lap, leg, clean, ends, legs, verdict>>

\* prepare_with_context
Prepare ==
  /\ stage = "source"
  /\ base' = IF entry = "hson" THEN parse_hson(source) ELSE base
  /\ IF IsBad(base')
     THEN stage' = "over" /\ verdict' = "failed" /\ UNCHANGED here
     ELSE stage' = "cw" /\ here' = base' /\ UNCHANGED verdict
  /\ UNCHANGED <<entry, source, typed, stopOnFirstFail, lap, leg, clean, ends, legs>>

\* shouldCancel answers yes at a checkpoint: before a direction, between laps,
\* before a leg, or before the final comparison.
CancelCircuit ==
  /\ stage \in {"cw", "ccw", "comparing"}
  /\ stage' = "over" /\ verdict' = "cancelled"
  /\ UNCHANGED <<entry, source, typed, stopOnFirstFail, base, here, lap, leg, clean, ends, legs>>

\* The direction is over: the engine goes on unless a failure stops it.
EndDirection(final, ok) ==
  /\ ends' = [ends EXCEPT ![stage] = final]
  /\ here' = base /\ lap' = 0 /\ leg' = 0
  /\ clean' = IF stage = "cw" THEN ok ELSE clean /\ ok
  /\ IF stopOnFirstFail /\ ~ok THEN stage' = "over" /\ verdict' = "failed"
     ELSE stage' = (IF stage = "cw" THEN "ccw" ELSE "comparing") /\ UNCHANGED verdict

\* execute_leg, and the end of the lap and of the direction when it was the last.
NextLeg(next) ==
  /\ here' = next /\ leg' = (leg + 1) % 4 /\ lap' = IF leg = 3 THEN lap + 1 ELSE lap
  /\ clean' = (clean /\ next = here)
  /\ UNCHANGED <<ends, stage, verdict>>

Leg ==
  /\ stage \in {"cw", "ccw"}
  /\ legs' = legs + 1
  /\ \E next \in { Converted(direction_path(entry, stage)[leg + 1], here) } :
       IF IsBad(next) \/ (stopOnFirstFail /\ next # here) THEN EndDirection(Bad, FALSE)
       ELSE IF leg = 3 /\ lap + 1 = Times THEN EndDirection(next, clean /\ next = here)
       ELSE NextLeg(next)
  /\ UNCHANGED <<entry, source, typed, stopOnFirstFail, base>>

\* compare_directions, only when both directions are complete.
Compare ==
  /\ stage = "comparing"
  /\ stage' = "over"
  /\ verdict' = IF clean /\ ~IsBad(ends["cw"]) /\ ends["cw"] = ends["ccw"] THEN "verified" ELSE "failed"
  /\ UNCHANGED <<entry, source, typed, stopOnFirstFail, base, here, lap, leg, clean, ends, legs>>

CircuitNext == Edit \/ Prepare \/ CancelCircuit \/ Leg \/ Compare

-----------------------------------------------------------------------------
\* A graph that every form can carry: no QUID on a projected container, which
\* JSON has no place for; no attribute that markup reads as a flag or trims; no
\* text among several values at the top, which HSON refuses.
RECURSIVE Portable(_)
Portable(n) ==
  /\ n.tag \in {"obj", "arr"} => n.quid = NoQuid
  /\ \A a \in n.attrs : a[2] # "" /\ a[2] \notin DOMAIN Trims /\ a \notin EndsWith
  /\ \A i \in DOMAIN n.kids : Portable(n.kids[i])

TopText(n) == n.tag = "elem" /\ \E i \in DOMAIN n.kids : n.kids[i].tag = "str"

\* What the project relies on the circuit for: when nobody cancels, a source is
\* verified exactly when its graph is one that every form can carry, whichever
\* form it was written in.  The parsers, the serializers and normalisation
\* (parse-*.ts, serialize-*.ts, normalize-hson-graph.ts) have to agree for that.
CircuitVerifiesPortable ==
  stage = "over" /\ verdict # "cancelled" /\ ~IsBad(base) =>
    (verdict = "verified" <=> Portable(base) /\ ~TopText(base))

\* A verdict of "verified" stands for a full circuit: every leg of every lap in
\* both directions was taken and none of them changed the graph
\* (circuit-engine.ts execute_direction, compare_directions).
VerifiedIsFullCircuit ==
  verdict = "verified" => legs = 8 * Times /\ ends = [d \in {"cw", "ccw"} |-> base]

\* The text of a graph reads as that graph in either layout, with and without
\* QUIDs, and a text fragment reads back where its owner allows one
\* (serialize-hson.ts, tokenize-hson.ts, parse-tokens.ts).
LayoutsReparse ==
  stage \in {"cw", "ccw"} /\ ~IsBad(base) =>
    \A readable, noQuid \in BOOLEAN :
      LET text == serialize_hson(base, Options(readable, noQuid, TopText(base)))
          wanted == IF noQuid THEN WithoutQuids(base, {"ordinary", "obj", "arr"}) ELSE base
      IN ~Refused(text) /\ detach_hson_root_value(ParseHson(text, TopText(base))) = wanted

\* The scanner chooses the grammar of an angle by looking ahead for its closer;
\* a scan that succeeds ends at the very closer the look ahead found
\* (tokenize-hson.ts classifyAngleCloser against scanAngle).
LookaheadAgrees ==
  stage = "source" /\ entry = "hson" =>
    \A i \in DOMAIN source :
      Sees(source, i, "<") =>
        LET scan == scanAngle(source, i, 0)
        IN scan.at # 0 => scan.at = classifyAngleCloser(source, i).at + 1

\* A verified circuit went all the way round, a portable source is verified,
\* and what HSON writes in either layout it reads again.
CircuitSound ==
  CircuitVerifiesPortable /\ VerifiedIsFullCircuit /\ LayoutsReparse /\ LookaheadAgrees
==============================================================================
