------------------------------ MODULE StyleSheet ------------------------------
(***************************************************************************)
(* The stylesheet of one LiveTree runtime: CssManager, GlobalCss, the      *)
(* keyframes manager and the documents of the runtime.                     *)
(*                                                                         *)
(*   css          the stores and the two deferred callbacks:               *)
(*     quidRules    declarations by QUID (rulesByQuid)                     *)
(*     rules, rendered   the keyed global rules, and what get() answers    *)
(*     byName, namesByOwner, ownerByName   the keyframes and their owners  *)
(*     pending      the microtask of GlobalCss.notifyChanged is queued     *)
(*     listening    the manager's callback is registered with GlobalCss    *)
(*     changed, frame    the stylesheet is dirty; an animation frame is    *)
(*                  requested (scheduled and rafId)                        *)
(*     docs, sheet  the runtime's documents; the text of the style element *)
(*                  of each                                                *)
(*     disposed, live  of the runtime; QUIDs whose node is not yet disposed *)
(*   ruleHandles  the rule handles held, with their own declarations       *)
(*   clean        QUIDs whose styles were released and not written since   *)
(*                                                                         *)
(* A text is the data it renders.  Microtasks run before frames.           *)
(***************************************************************************)
EXTENDS Naturals, Sequences, Functions

CONSTANTS CssQuids, CssProps, CssVals, Documents, Ambient, FrameNames,
          MaxRuleHandles, MaxCssCalls

VARIABLES css, ruleHandles, clean, hasFrames, cssCalls

cssVars == <<css, ruleHandles, clean, hasFrames, cssCalls>>

NoDecls == <<>>
\* The source of keyframes that are defined for good, which no QUID is.
NoOwner == "no owner"
ASSUME StyleAssumption == NoOwner \notin CssQuids /\ Ambient \in Documents

Blank == [globals |-> NoDecls, keyframes |-> NoDecls, quids |-> NoDecls]
\* The style element of a document: there, absent, or removed by the page.
Gone == [element |-> "absent", text |-> Blank]
Removed == [element |-> "removed", text |-> Blank]
Sheet(text) == [element |-> "there", text |-> text]
Less(map, keys) == Restrict(map, DOMAIN map \ keys)
Assoc(map, key, value) == [k \in DOMAIN map \cup {key} |-> IF k = key THEN value ELSE map[k]]

\* sel() keys a rule by its selector; the selector rules of a QUID are keyed
\* by the QUID and the scope.  <<kind, what the selector mentions, scope>>.
SelKeys == { <<"sel", s, "">> : s \in {"app"} \cup CssQuids }
OwnKeys == { <<"own", q, scope>> : q \in CssQuids, scope \in {"", "media"} }
RuleKeys == SelKeys \cup OwnKeys
Mentions(key) == key[2]

-----------------------------------------------------------------------------
\* buildCombinedCss with GlobalCss.renderAll.
buildCombinedCss(s) ==
  [globals |-> Restrict(s.rules, DOMAIN s.rules \cap DOMAIN s.rendered),
   keyframes |-> s.byName, quids |-> s.quidRules]

syncToDom(s) ==
  [s EXCEPT !.sheet = [d \in Documents |-> IF d \in s.docs THEN Sheet(buildCombinedCss(s)) ELSE @[d]],
            !.changed = FALSE]
syncNow(s) ==
  LET cancelled == [s EXCEPT !.frame = FALSE]
  IN IF s.changed THEN syncToDom(cancelled) ELSE cancelled

scheduleSync(s) ==
  IF s.frame THEN s ELSE IF hasFrames THEN [s EXCEPT !.frame = TRUE] ELSE syncNow(s)
markChanged(s) == scheduleSync([s EXCEPT !.changed = TRUE])
notifyChanged(s) == [s EXCEPT !.pending = TRUE]

\* register_runtime_document; the manager listens.
register_runtime_document(s, d) ==
  IF d \in s.docs THEN s ELSE markChanged([s EXCEPT !.docs = @ \cup {d}])
\* forRuntime with claimAmbientDocument: a runtime with no document takes the
\* page's.
WithDocument(s) == IF s.docs = {} THEN register_runtime_document(s, Ambient) ELSE s

-----------------------------------------------------------------------------
\* Declarations of a QUID.
Put(map, q, p, v) == Assoc(map, q, Assoc(IF q \in DOMAIN map THEN map[q] ELSE NoDecls, p, v))
unsetForQuid(s, q, p) ==
  IF q \notin DOMAIN s.quidRules THEN s
  ELSE LET rest == Less(s.quidRules[q], {p})
       IN markChanged([s EXCEPT !.quidRules = IF rest = NoDecls THEN Less(@, {q})
                                              ELSE [@ EXCEPT ![q] = rest]])
setForQuid(s, q, p, v) ==
  IF v = "" THEN unsetForQuid(s, q, p) ELSE markChanged([s EXCEPT !.quidRules = Put(@, q, p, v)])
clearQuid(s, q) ==
  IF q \notin DOMAIN s.quidRules THEN s ELSE markChanged([s EXCEPT !.quidRules = Less(@, {q})])

-----------------------------------------------------------------------------

\* Global rules: remove, removeByPrefix, removeBySelectorFragment, clear.
Dropped(s, keys) ==
  IF keys \cap (DOMAIN s.rules \cup DOMAIN s.rendered) = {} THEN s
  ELSE notifyChanged([s EXCEPT !.rules = Less(@, keys), !.rendered = Less(@, keys)])
dropBySelectorFragment(s, q) == Dropped(s, { k \in DOMAIN s.rules : Mentions(k) = q })
dropByPrefix(s, q) == Dropped(s, { k \in OwnKeys : Mentions(k) = q })

\* applyNow of a handle; the text compared leaves the scope out.
applyNow(s, h) ==
  IF h.decls = NoDecls THEN Dropped(s, {h.key})
  ELSE IF h.key \in DOMAIN s.rendered /\ s.rendered[h.key] = h.decls THEN s
  ELSE notifyChanged([s EXCEPT !.rules = Assoc(@, h.key, [decls |-> h.decls, scope |-> h.scope]),
                               !.rendered = Assoc(@, h.key, h.decls)])

\* rule(key, selector) starts from the declarations of the rule of that key.
RuleHandle(s, key, scope) ==
  [key |-> key, scope |-> scope,
   decls |-> IF key \in DOMAIN s.rules THEN s.rules[key].decls ELSE NoDecls]

-----------------------------------------------------------------------------
\* Keyframes.
releaseNameOwnership(s, name) ==
  IF name \notin DOMAIN s.ownerByName THEN s
  ELSE LET prior == s.ownerByName[name]
           left == s.namesByOwner[prior] \ {name}
       IN [s EXCEPT !.ownerByName = Less(@, {name}),
                    !.namesByOwner = IF left = {} THEN Less(@, {prior})
                                     ELSE [@ EXCEPT ![prior] = left]]
claimNameForOwner(s, owner, name) ==
  LET r == releaseNameOwnership(s, name)
      had == IF owner \in DOMAIN r.namesByOwner THEN r.namesByOwner[owner] ELSE {}
  IN [r EXCEPT !.namesByOwner = Assoc(@, owner, had \cup {name}),
               !.ownerByName = Assoc(@, name, owner)]
Def(v, source) == [steps |-> v, source |-> source]
Defines(s, name, def) == name \in DOMAIN s.byName /\ s.byName[name] = def

setFrames(s, name, v) ==
  IF Defines(s, name, Def(v, NoOwner)) THEN s
  ELSE markChanged([releaseNameOwnership(s, name) EXCEPT !.byName = Assoc(@, name, Def(v, NoOwner))])
setOwned(s, owner, name, v) ==
  IF /\ Defines(s, name, Def(v, owner))
     /\ name \in DOMAIN s.ownerByName /\ s.ownerByName[name] = owner
  THEN s
  ELSE markChanged(claimNameForOwner([s EXCEPT !.byName = Assoc(@, name, Def(v, owner))], owner, name))
deleteFrames(s, name) ==
  IF name \notin DOMAIN s.byName THEN s
  ELSE markChanged(releaseNameOwnership([s EXCEPT !.byName = Less(@, {name})], name))
releaseOwner(s, owner) ==
  IF owner \notin DOMAIN s.namesByOwner THEN s
  ELSE LET names == s.namesByOwner[owner]
       IN markChanged([s EXCEPT !.byName = Less(@, names), !.ownerByName = Less(@, names),
                                !.namesByOwner = Less(@, {owner})])

\* Mutant: selector rules are forgotten.
KeepsSelectorRules(s, q) == releaseOwner(clearQuid(s, q), q)
\* releaseOwnedCssForQuid, from the disposal of the node of the QUID.
releaseOwnedCssForQuid(s, q) == dropBySelectorFragment(releaseOwner(clearQuid(s, q), q), q)

-----------------------------------------------------------------------------
EmptyCss(live) ==
  [quidRules |-> NoDecls, rules |-> NoDecls, rendered |-> NoDecls,
   byName |-> NoDecls, namesByOwner |-> NoDecls, ownerByName |-> NoDecls,
   pending |-> FALSE, listening |-> TRUE, changed |-> FALSE, frame |-> FALSE,
   docs |-> {}, sheet |-> [d \in Documents |-> Gone], disposed |-> FALSE, live |-> live]
CssInit ==
  /\ \E live \in SUBSET CssQuids : css = EmptyCss(live)
  /\ ruleHandles = <<>>
  /\ clean = {}
  /\ hasFrames \in BOOLEAN
  /\ cssCalls = 0

\* A call that leaves the handles alone and writes for the QUIDs given.
CssCall(s, written) ==
  /\ cssCalls < MaxCssCalls
  /\ css' = s
  /\ clean' = clean \ written
  /\ cssCalls' = cssCalls + 1
  /\ UNCHANGED hasFrames
Silent(s, written) == CssCall(s, written) /\ UNCHANGED ruleHandles

\* tree.css and manager calls.  A disposed runtime refuses new handles; the
\* manager and the handles held stay usable.
SetProp(q, p, v) == Silent(setForQuid(css, q, p, v), {q})
ClearCss(q) ==
  /\ ~css.disposed
  /\ Silent(dropByPrefix(WithDocument(clearQuid(css, q)), q), {})
ClearAllQuids ==
  /\ css.quidRules # NoDecls
  /\ Silent(markChanged([css EXCEPT !.quidRules = NoDecls]), {})
ClearAllRules == css.rules # NoDecls /\ Silent(Dropped(css, RuleKeys), {})

OpenRule(key, scope) ==
  /\ ~css.disposed /\ Len(ruleHandles) < MaxRuleHandles
  /\ key[3] \in {"", scope}
  /\ CssCall(WithDocument(css), {})
  /\ ruleHandles' = Append(ruleHandles, RuleHandle(css, key, scope))

\* set and remove on a handle, and clear; a selector handle also drops.
HandleWrites(i, decls, also) ==
  LET h == [ruleHandles[i] EXCEPT !.decls = decls]
  IN /\ decls # ruleHandles[i].decls
     /\ CssCall(Dropped(applyNow(css, h), also), {Mentions(h.key)})
     /\ ruleHandles' = [ruleHandles EXCEPT ![i] = h]
HandleSet(i, p, v) == HandleWrites(i, Assoc(ruleHandles[i].decls, p, v), {})
HandleRemove(i, p) == HandleWrites(i, Less(ruleHandles[i].decls, {p}), {})
HandleClear(i) == HandleWrites(i, NoDecls, {ruleHandles[i].key})
DropRule(key) == key \in DOMAIN css.rules /\ Silent(Dropped(css, {key}), {})

SetFrames(name, v) == Silent(setFrames(css, name, v), {})
SetOwnedFrames(q, name, v) == Silent(setOwned(css, q, name, v), {q})
DeleteFrames(name) == name \in DOMAIN css.byName /\ Silent(deleteFrames(css, name), {})

\* The node of the QUID is disposed; a QUID is never given again.
DisposeStyled(q) ==
  /\ cssCalls < MaxCssCalls /\ q \in css.live
  /\ css' = [releaseOwnedCssForQuid(css, q) EXCEPT !.live = @ \ {q}]
  /\ clean' = clean \cup {q}
  /\ cssCalls' = cssCalls + 1
  /\ UNCHANGED <<ruleHandles, hasFrames>>

\* api().dispose(): the callback is the one the manager shares.
DisposeApi == css.listening /\ Silent([css EXCEPT !.listening = FALSE], {})
RegisterDocument(d) ==
  ~css.disposed /\ d \notin css.docs /\ Silent(register_runtime_document(css, d), {})
\* The page removes the style element, or its host.
PageRemoves(d) == css.sheet[d].element = "there" /\ Silent([css EXCEPT !.sheet[d] = Removed], {})

\* dispose_livetree_runtime with disposeRuntimeStyles: refused while QUIDs
\* are active.
DisposeRuntime ==
  /\ ~css.disposed /\ css.live = {}
  /\ LET cleared == Dropped([css EXCEPT !.frame = FALSE, !.changed = FALSE,
                                        !.quidRules = NoDecls], RuleKeys)
     IN Silent([cleared EXCEPT !.sheet = [d \in Documents |-> Gone], !.docs = {},
                              !.disposed = TRUE], {})

-----------------------------------------------------------------------------
\* The microtask of GlobalCss and the animation frame.
Microtask ==
  /\ css.pending
  /\ LET ran == [css EXCEPT !.pending = FALSE]
     IN css' = IF css.listening THEN markChanged(ran) ELSE ran
  /\ UNCHANGED <<ruleHandles, clean, hasFrames, cssCalls>>
AnimationFrame ==
  /\ css.frame /\ ~css.pending
  /\ css' = syncNow(css)
  /\ UNCHANGED <<ruleHandles, clean, hasFrames, cssCalls>>

CssNext ==
  \/ \E q \in CssQuids :
       \/ \E p \in CssProps, v \in CssVals \cup {""} : SetProp(q, p, v)
       \/ ClearCss(q)
       \/ DisposeStyled(q)
       \/ \E name \in FrameNames, v \in CssVals : SetOwnedFrames(q, name, v)
  \/ ClearAllQuids \/ ClearAllRules
  \/ \E key \in RuleKeys, scope \in {"", "media"} : OpenRule(key, scope)
  \/ \E i \in DOMAIN ruleHandles :
       \/ \E p \in CssProps, v \in CssVals : HandleSet(i, p, v)
       \/ \E p \in CssProps : HandleRemove(i, p)
       \/ HandleClear(i)
  \/ \E key \in RuleKeys : DropRule(key)
  \/ \E name \in FrameNames :
       \/ \E v \in CssVals : SetFrames(name, v)
       \/ DeleteFrames(name)
  \/ \E d \in Documents : RegisterDocument(d) \/ PageRemoves(d)
  \/ DisposeApi \/ DisposeRuntime
  \/ Microtask \/ AnimationFrame

-----------------------------------------------------------------------------
\* CssManager.markChanged and GlobalCss.notifyChanged (css-manager.ts:226,
\* global-css.ts:202): a stylesheet that is behind has a callback under way that
\* will write it, whatever calls and callbacks came in between; only the global
\* rules wait when someone disposed the shared api, and only a style element
\* the page removed is missing.
SheetCatchesUp ==
  css.frame \/ css.pending \/
  \A d \in css.docs :
    LET text == css.sheet[d].text
    IN css.sheet[d] = Removed \/
       /\ css.sheet[d] # Gone
       /\ text.quids = css.quidRules /\ text.keyframes = css.byName
       /\ css.listening => text.globals = buildCombinedCss(css).globals

\* releaseOwnedCssForQuid (css-manager.ts:570): a disposed QUID leaves no
\* declaration, no keyframes and no rule that selects it, until a handle kept
\* over the disposal is written through.
ReleasedStaysClean ==
  \A q \in clean :
    /\ q \notin DOMAIN css.quidRules
    /\ \A k \in DOMAIN css.rules : Mentions(k) # q
    /\ \A n \in DOMAIN css.byName : css.byName[n].source # q
    /\ q \notin DOMAIN css.namesByOwner

\* has, get and list answer from one map and renderAll from the other
\* (global-css.ts:610-650): what get() shows is what the stylesheet has.
GetShowsWhatRenders ==
  /\ DOMAIN css.rules = DOMAIN css.rendered
  /\ \A k \in DOMAIN css.rules : css.rendered[k] = css.rules[k].decls

\* releaseOwner (keyframes-manager.ts:434) deletes "the names still owned by
\* it": the disposal of a node takes nothing that was since claimed by another
\* QUID or redefined for good, and no rule of another node.
ReleaseSparesOthers ==
  [][\A q \in css.live \ css'.live :
       /\ css'.quidRules = Less(css.quidRules, {q})
       /\ \A k \in DOMAIN css.rules : Mentions(k) # q => k \in DOMAIN css'.rules
       /\ \A n \in DOMAIN css.byName : css.byName[n].source # q => n \in DOMAIN css'.byName]_cssVars

\* dispose_livetree_runtime (livetree-runtime.ts:156): the microtask its own
\* clearing queues, and calls through handles still held, write no document.
DisposedLeavesNoSheet ==
  css.disposed => \A d \in Documents : css.sheet[d].element # "there"

\* What every document renders is what the rules and declarations say, and
\* nothing of a released QUID or a disposed runtime stays in it.
SheetExact == SheetCatchesUp /\ ReleasedStaysClean /\ GetShowsWhatRenders /\ DisposedLeavesNoSheet
=============================================================================
