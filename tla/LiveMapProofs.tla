---------------------------- MODULE LiveMapProofs ----------------------------
(***************************************************************************)
(* Theorems of LiveMapCore, and their proofs; behind them those of two     *)
(* systems that share no state with it: StyleSheet, what a LiveTree        *)
(* renders, and ReflectCollection, the branches that mirror an array.      *)
(***************************************************************************)
EXTENDS LiveMapCore, StyleSheet, ReflectCollection, SequenceTheorems, WellFoundedInduction, TLAPS

-----------------------------------------------------------------------------
(* Induction over the naturals, for sets, and the three folds of the planner. *)

(* A non-empty set of naturals has a least element. *)
LEMMA LeastNat ==
  ASSUME NEW T, T \subseteq Nat, T # {}
  PROVE \E x \in T : \A y \in T : x <= y
<1> DEFINE R == OpToRel(<, Nat)
<1>1. IsWellFoundedOn(R, Nat) BY NatLessThanWellFounded, Zenon
<1> HIDE DEF R
<1>2. PICK x \in T : \A y \in T : ~(<<y, x>> \in R)
  BY <1>1, WFMin
<1>3. \A y \in T : <<y, x>> \in R <=> y < x
  BY DEF R, OpToRel
<1>4. \A y \in T : x \in Nat /\ y \in Nat /\ ~(y < x) BY <1>2, <1>3
<1>5. \A y \in T : x <= y BY <1>4
<1> QED BY <1>5

(* A set with zero and with every successor has all the naturals. *)
LEMMA SetInduction ==
  ASSUME NEW T, 0 \in T, \A n \in Nat : n \in T => n + 1 \in T
  PROVE Nat \subseteq T
<1> DEFINE Out == { n \in Nat : n \notin T }
<1>1. SUFFICES ASSUME Out # {} PROVE FALSE OBVIOUS
<1>2. PICK x \in Out : \A y \in Out : x <= y
  <2>1. Out \subseteq Nat OBVIOUS
  <2> HIDE DEF Out
  <2> QED BY <1>1, <2>1, LeastNat
<1>3. x \in Nat /\ x \notin T BY <1>2
<1>4. x # 0 BY <1>3
<1>5. x - 1 \in Nat /\ x - 1 + 1 = x BY <1>3, <1>4
<1>6. x - 1 \notin T BY <1>3, <1>5
<1>7. x - 1 \in Out BY <1>5, <1>6
<1>8. x <= x - 1 BY <1>2, <1>7
<1> QED BY <1>8, <1>3

(* Induction up to a bound. *)
LEMMA BoundedInduction ==
  ASSUME NEW N \in Nat, NEW T, 0 \in T, \A n \in 1..N : n - 1 \in T => n \in T
  PROVE 0..N \subseteq T
<1> DEFINE S == { n \in Nat : n \in T \/ n > N }
<1>1. 0 \in S OBVIOUS
<1>2. ASSUME NEW n \in Nat, n \in S PROVE n + 1 \in S
  <2>1. CASE n + 1 > N BY <2>1
  <2>2. CASE ~(n + 1 > N)
    <3>1. n + 1 \in 1..N /\ n + 1 - 1 = n BY <2>2
    <3>2. n \in T BY <1>2, <2>2
    <3> QED BY <3>1, <3>2
  <2> QED BY <2>1, <2>2
<1> HIDE DEF S
<1>3. Nat \subseteq S BY <1>1, <1>2, SetInduction
<1> USE DEF S
<1> QED BY <1>3

(* The plan after each of the writes. *)
LEMMA PlansSteps ==
  ASSUME NEW root, NEW writes, Len(writes) \in Nat
  PROVE /\ Plans(root, writes)[0] = [ok |-> TRUE, value |-> root, ops |-> <<>>]
        /\ \A n \in 1..Len(writes) :
             Plans(root, writes)[n] = PlanOne(Plans(root, writes)[n - 1], writes[n])
<1> DEFINE first == [ok |-> TRUE, value |-> root, ops |-> <<>>]
           Fits(f, m) == f = [n \in 0..m |-> IF n = 0 THEN first ELSE PlanOne(f[n - 1], writes[n])]
           T == { m \in Nat : \E f : Fits(f, m) }
<1> HIDE DEF first
<1>1. 0 \in T
  <2>1. Fits([n \in 0..0 |-> first], 0) OBVIOUS
  <2> QED BY <2>1
<1>2. ASSUME NEW m \in Nat, m \in T PROVE m + 1 \in T
  <2>1. PICK f : Fits(f, m) BY <1>2
  <2> DEFINE g == [n \in 0..(m + 1) |-> IF n = m + 1 THEN PlanOne(f[m], writes[m + 1]) ELSE f[n]]
  <2>2. ASSUME NEW n \in 0..(m + 1)
        PROVE g[n] = IF n = 0 THEN first ELSE PlanOne(g[n - 1], writes[n])
    <3>1. CASE n = m + 1
      <4>1. g[n] = PlanOne(f[m], writes[m + 1]) /\ n # 0 BY <3>1
      <4>2. n - 1 = m /\ g[m] = f[m] BY <3>1
      <4> QED BY <4>1, <4>2, <3>1
    <3>2. CASE n # m + 1
      <4>1. n \in 0..m BY <3>2
      <4>2. g[n] = f[n] BY <3>2
      <4>3. f[n] = IF n = 0 THEN first ELSE PlanOne(f[n - 1], writes[n]) BY <4>1, <2>1
      <4>4. CASE n = 0 BY <4>4, <4>2, <4>3
      <4>5. CASE n # 0
        <5>1. n - 1 \in 0..(m + 1) /\ n - 1 # m + 1 BY <4>1, <4>5
        <5>2. g[n - 1] = f[n - 1] BY <5>1
        <5> QED BY <4>2, <4>3, <4>5, <5>2
      <4> QED BY <4>4, <4>5
    <3> QED BY <3>1, <3>2
  <2> HIDE DEF g
  <2>3. g = [n \in 0..(m + 1) |-> g[n]] BY DEF g
  <2>4. Fits(g, m + 1) BY <2>2, <2>3
  <2> QED BY <2>4
<1>3. Len(writes) \in T
  <2> HIDE DEF T
  <2> QED BY <1>1, <1>2, SetInduction
<1>4. Fits(Plans(root, writes), Len(writes))
  <2>1. PICK f : Fits(f, Len(writes)) BY <1>3
  <2> QED BY <2>1 DEF Plans, first
<1> DEFINE plan == Plans(root, writes)
<1> HIDE DEF plan
<1>5. plan = [n \in 0..Len(writes) |-> IF n = 0 THEN first ELSE PlanOne(plan[n - 1], writes[n])]
  BY <1>4 DEF plan
<1>6. plan[0] = first BY <1>5
<1>7. \A n \in 1..Len(writes) : n \in 0..Len(writes) /\ n # 0 OBVIOUS
<1>8. \A n \in 1..Len(writes) : plan[n] = PlanOne(plan[n - 1], writes[n]) BY <1>5, <1>7
<1> QED BY <1>6, <1>8 DEF plan, first

(* The overlay after each of the operations. *)
LEMMA OverlaysSteps ==
  ASSUME NEW q, NEW ops, Len(ops) \in Nat
  PROVE /\ Overlays(q, ops)[0] = q
        /\ \A n \in 1..Len(ops) :
             Overlays(q, ops)[n] = TransformOverlay(Overlays(q, ops)[n - 1], ops[n])
<1> DEFINE first == q
           Fits(f, m) == f = [n \in 0..m |-> IF n = 0 THEN first ELSE TransformOverlay(f[n - 1], ops[n])]
           T == { m \in Nat : \E f : Fits(f, m) }
<1> HIDE DEF first
<1>1. 0 \in T
  <2>1. Fits([n \in 0..0 |-> first], 0) OBVIOUS
  <2> QED BY <2>1
<1>2. ASSUME NEW m \in Nat, m \in T PROVE m + 1 \in T
  <2>1. PICK f : Fits(f, m) BY <1>2
  <2> DEFINE g == [n \in 0..(m + 1) |-> IF n = m + 1 THEN TransformOverlay(f[m], ops[m + 1]) ELSE f[n]]
  <2>2. ASSUME NEW n \in 0..(m + 1)
        PROVE g[n] = IF n = 0 THEN first ELSE TransformOverlay(g[n - 1], ops[n])
    <3>1. CASE n = m + 1
      <4>1. g[n] = TransformOverlay(f[m], ops[m + 1]) /\ n # 0 BY <3>1
      <4>2. n - 1 = m /\ g[m] = f[m] BY <3>1
      <4> QED BY <4>1, <4>2, <3>1
    <3>2. CASE n # m + 1
      <4>1. n \in 0..m BY <3>2
      <4>2. g[n] = f[n] BY <3>2
      <4>3. f[n] = IF n = 0 THEN first ELSE TransformOverlay(f[n - 1], ops[n]) BY <4>1, <2>1
      <4>4. CASE n = 0 BY <4>4, <4>2, <4>3
      <4>5. CASE n # 0
        <5>1. n - 1 \in 0..(m + 1) /\ n - 1 # m + 1 BY <4>1, <4>5
        <5>2. g[n - 1] = f[n - 1] BY <5>1
        <5> QED BY <4>2, <4>3, <4>5, <5>2
      <4> QED BY <4>4, <4>5
    <3> QED BY <3>1, <3>2
  <2> HIDE DEF g
  <2>3. g = [n \in 0..(m + 1) |-> g[n]] BY DEF g
  <2>4. Fits(g, m + 1) BY <2>2, <2>3
  <2> QED BY <2>4
<1>3. Len(ops) \in T
  <2> HIDE DEF T
  <2> QED BY <1>1, <1>2, SetInduction
<1>4. Fits(Overlays(q, ops), Len(ops))
  <2>1. PICK f : Fits(f, Len(ops)) BY <1>3
  <2> QED BY <2>1 DEF Overlays, first
<1> DEFINE overlay == Overlays(q, ops)
<1> HIDE DEF overlay
<1>5. overlay = [n \in 0..Len(ops) |-> IF n = 0 THEN first ELSE TransformOverlay(overlay[n - 1], ops[n])]
  BY <1>4 DEF overlay
<1>6. overlay[0] = first BY <1>5
<1>7. \A n \in 1..Len(ops) : n \in 0..Len(ops) /\ n # 0 OBVIOUS
<1>8. \A n \in 1..Len(ops) : overlay[n] = TransformOverlay(overlay[n - 1], ops[n]) BY <1>5, <1>7
<1> QED BY <1>6, <1>8 DEF overlay, first

(* The retiring operations among the first of the writes. *)
LEMMA RetirementsSteps ==
  ASSUME NEW root, NEW q, NEW writes, Len(writes) \in Nat
  PROVE /\ Retirements(root, q, writes)[0] = <<>>
        /\ \A n \in 1..Len(writes) :
             Retirements(root, q, writes)[n] = (IF Retires(root, q, writes[n]) THEN Append(Retirements(root, q, writes)[n - 1], writes[n]) ELSE Retirements(root, q, writes)[n - 1])
<1> DEFINE first == <<>>
           Fits(f, m) == f = [n \in 0..m |-> IF n = 0 THEN first ELSE (IF Retires(root, q, writes[n]) THEN Append(f[n - 1], writes[n]) ELSE f[n - 1])]
           T == { m \in Nat : \E f : Fits(f, m) }
<1> HIDE DEF first
<1>1. 0 \in T
  <2>1. Fits([n \in 0..0 |-> first], 0) OBVIOUS
  <2> QED BY <2>1
<1>2. ASSUME NEW m \in Nat, m \in T PROVE m + 1 \in T
  <2>1. PICK f : Fits(f, m) BY <1>2
  <2> DEFINE g == [n \in 0..(m + 1) |-> IF n = m + 1 THEN (IF Retires(root, q, writes[m + 1]) THEN Append(f[m], writes[m + 1]) ELSE f[m]) ELSE f[n]]
  <2>2. ASSUME NEW n \in 0..(m + 1)
        PROVE g[n] = IF n = 0 THEN first ELSE (IF Retires(root, q, writes[n]) THEN Append(g[n - 1], writes[n]) ELSE g[n - 1])
    <3>1. CASE n = m + 1
      <4>1. g[n] = (IF Retires(root, q, writes[m + 1]) THEN Append(f[m], writes[m + 1]) ELSE f[m]) /\ n # 0 BY <3>1
      <4>2. n - 1 = m /\ g[m] = f[m] BY <3>1
      <4> QED BY <4>1, <4>2, <3>1
    <3>2. CASE n # m + 1
      <4>1. n \in 0..m BY <3>2
      <4>2. g[n] = f[n] BY <3>2
      <4>3. f[n] = IF n = 0 THEN first ELSE (IF Retires(root, q, writes[n]) THEN Append(f[n - 1], writes[n]) ELSE f[n - 1]) BY <4>1, <2>1
      <4>4. CASE n = 0 BY <4>4, <4>2, <4>3
      <4>5. CASE n # 0
        <5>1. n - 1 \in 0..(m + 1) /\ n - 1 # m + 1 BY <4>1, <4>5
        <5>2. g[n - 1] = f[n - 1] BY <5>1
        <5> QED BY <4>2, <4>3, <4>5, <5>2
      <4> QED BY <4>4, <4>5
    <3> QED BY <3>1, <3>2
  <2> HIDE DEF g
  <2>3. g = [n \in 0..(m + 1) |-> g[n]] BY DEF g
  <2>4. Fits(g, m + 1) BY <2>2, <2>3
  <2> QED BY <2>4
<1>3. Len(writes) \in T
  <2> HIDE DEF T
  <2> QED BY <1>1, <1>2, SetInduction
<1>4. Fits(Retirements(root, q, writes), Len(writes))
  <2>1. PICK f : Fits(f, Len(writes)) BY <1>3
  <2> QED BY <2>1 DEF Retirements, first
<1> DEFINE retired == Retirements(root, q, writes)
<1> HIDE DEF retired
<1>5. retired = [n \in 0..Len(writes) |-> IF n = 0 THEN first ELSE (IF Retires(root, q, writes[n]) THEN Append(retired[n - 1], writes[n]) ELSE retired[n - 1])]
  BY <1>4 DEF retired
<1>6. retired[0] = first BY <1>5
<1>7. \A n \in 1..Len(writes) : n \in 0..Len(writes) /\ n # 0 OBVIOUS
<1>8. \A n \in 1..Len(writes) : retired[n] = (IF Retires(root, q, writes[n]) THEN Append(retired[n - 1], writes[n]) ELSE retired[n - 1]) BY <1>5, <1>7
<1> QED BY <1>6, <1>8 DEF retired, first

-----------------------------------------------------------------------------
(* What one operation does to a value and to the identities that lie on it. *)

(* Identities mark what exists, and each of them marks one place. *)
Coherent(v, q) ==
  /\ \A k \in Key : q[k] # NoQuid => v[k] # Absent
  /\ \A j, k \in Key : q[j] = q[k] /\ q[j] # NoQuid => j = k

(* The kinds of operations, and what their fields hold. *)
LEMMA OperationKinds ==
  ASSUME NEW op \in Operation
  PROVE \/ op.kind \in {"set", "replace"} /\ op.key \in Key /\ op.val \in Val
        \/ op.kind = "delete" /\ op.key \in Key
        \/ op.kind = "rename" /\ op.key \in Key /\ op.to \in Key
        \/ op.kind = "root" /\ op.val \in Root
BY DEF Operation

(* An operation on a root gives a root. *)
LEMMA ApplyOpType ==
  ASSUME NEW v \in Root, NEW op \in Operation
  PROVE ApplyOp(v, op) \in Root
<1>1. CASE op.kind \in {"set", "replace"} BY <1>1, OperationKinds DEF ApplyOp, Root
<1>2. CASE op.kind = "delete" BY <1>2, OperationKinds DEF ApplyOp, Root
<1>3. CASE op.kind = "rename" BY <1>3, OperationKinds DEF ApplyOp, Renamed, Root
<1>4. CASE op.kind = "root" BY <1>4, OperationKinds DEF ApplyOp
<1> QED BY <1>1, <1>2, <1>3, <1>4, OperationKinds

(* What does not change a value leaves it as it is. *)
LEMMA UnchangedValue ==
  ASSUME NEW v \in Root, NEW op \in Operation, ~Changes(v, op)
  PROVE ApplyOp(v, op) = v
BY OperationKinds DEF Changes, ApplyOp

(* An operation on an overlay gives an overlay, with no identity that was not there. *)
LEMMA TransformType ==
  ASSUME NEW q \in Overlay, NEW op \in Operation
  PROVE /\ TransformOverlay(q, op) \in Overlay
        /\ Active(TransformOverlay(q, op)) \subseteq Active(q)
<1>1. CASE op.kind \in {"set", "replace", "delete"} 
  BY <1>1, OperationKinds DEF TransformOverlay, Overlay, Active
<1>2. CASE op.kind = "rename" BY <1>2, OperationKinds DEF TransformOverlay, Overlay, Active
<1>3. CASE op.kind = "root" BY <1>3, OperationKinds DEF TransformOverlay, Overlay, Active
<1> QED BY <1>1, <1>2, <1>3, OperationKinds

(* A value and its identities stay coherent through an operation that resolves. *)
LEMMA TransformCoherent ==
  ASSUME NEW v \in Root, NEW q \in Overlay, NEW op \in Operation,
         Coherent(v, q), Resolves(v, op), op.kind = "rename" => op.key # op.to
  PROVE Coherent(ApplyOp(v, op), TransformOverlay(q, op))
<1>1. CASE op.kind \in {"set", "replace", "delete"}
  BY <1>1, OperationKinds DEF TransformOverlay, ApplyOp, Coherent, Overlay, Root
<1>2. CASE op.kind = "rename"
  BY <1>2, OperationKinds DEF TransformOverlay, ApplyOp, Renamed, Coherent, Overlay, Root
<1>3. CASE op.kind = "root" BY <1>3, OperationKinds DEF TransformOverlay, Coherent
<1> QED BY <1>1, <1>2, <1>3, OperationKinds

(* An overlay with fewer identities on it is as coherent. *)
LEMMA RetiringCoherent ==
  ASSUME NEW v \in Root, NEW q \in Overlay, NEW op \in Operation,
         Coherent(v, q), op.kind \in {"replace", "root"}
  PROVE Coherent(v, TransformOverlay(q, op))
<1>1. CASE op.kind = "replace" BY <1>1, OperationKinds DEF TransformOverlay, Coherent, Overlay
<1>2. CASE op.kind = "root" BY <1>2 DEF TransformOverlay, Coherent
<1> QED BY <1>1, <1>2

-----------------------------------------------------------------------------
(* The overlay through a sequence of operations. *)

(* Nothing is done to it by no operation. *)
LEMMA OverlayEmpty ==
  ASSUME NEW q PROVE reconcile_overlay(q, <<>>) = q
BY OverlaysSteps DEF reconcile_overlay

(* After each of the operations it is an overlay. *)
LEMMA OverlayType ==
  ASSUME NEW q \in Overlay, NEW ops \in Seq(Operation)
  PROVE /\ reconcile_overlay(q, ops) \in Overlay
        /\ Active(reconcile_overlay(q, ops)) \subseteq Active(q)
<1> DEFINE T == { n \in 0..Len(ops) : /\ Overlays(q, ops)[n] \in Overlay
                                      /\ Active(Overlays(q, ops)[n]) \subseteq Active(q) }
<1>1. Len(ops) \in Nat OBVIOUS
<1>2. 0 \in T BY <1>1, OverlaysSteps
<1>3. ASSUME NEW n \in 1..Len(ops), n - 1 \in T PROVE n \in T
  <2>1. Overlays(q, ops)[n] = TransformOverlay(Overlays(q, ops)[n - 1], ops[n]) BY <1>1, OverlaysSteps
  <2>2. Overlays(q, ops)[n - 1] \in Overlay BY <1>3
  <2>3. Active(Overlays(q, ops)[n - 1]) \subseteq Active(q) BY <1>3
  <2>4. ops[n] \in Operation OBVIOUS
  <2>5. /\ Overlays(q, ops)[n] \in Overlay
        /\ Active(Overlays(q, ops)[n]) \subseteq Active(Overlays(q, ops)[n - 1])
    BY <2>1, <2>2, <2>4, TransformType
  <2> QED BY <2>3, <2>5
<1>4. 0..Len(ops) \subseteq T
  <2> HIDE DEF T
  <2> QED BY <1>1, <1>2, <1>3, BoundedInduction
<1>5. Len(ops) \in T BY <1>1, <1>4
<1> QED BY <1>5 DEF reconcile_overlay

(* One operation more is done on what the others leave. *)
LEMMA OverlayAppend ==
  ASSUME NEW q, NEW ops \in Seq(Operation), NEW op \in Operation
  PROVE reconcile_overlay(q, Append(ops, op)) = TransformOverlay(reconcile_overlay(q, ops), op)
<1> DEFINE more == Append(ops, op)
           T == { n \in 0..Len(ops) : Overlays(q, more)[n] = Overlays(q, ops)[n] }
<1>1. /\ Len(ops) \in Nat /\ Len(more) = Len(ops) + 1
      /\ more[Len(ops) + 1] = op
      /\ \A n \in 1..Len(ops) : more[n] = ops[n]
  OBVIOUS
<1> HIDE DEF more
<1>2. Len(more) \in Nat BY <1>1
<1>3. /\ Overlays(q, ops)[0] = q
      /\ \A n \in 1..Len(ops) : Overlays(q, ops)[n] = TransformOverlay(Overlays(q, ops)[n - 1], ops[n])
  BY <1>1, OverlaysSteps
<1>4. /\ Overlays(q, more)[0] = q
      /\ \A n \in 1..Len(more) : Overlays(q, more)[n] = TransformOverlay(Overlays(q, more)[n - 1], more[n])
  BY <1>2, OverlaysSteps
<1>5. 0 \in T BY <1>1, <1>3, <1>4
<1>6. ASSUME NEW n \in 1..Len(ops), n - 1 \in T PROVE n \in T
  <2>1. n \in 1..Len(more) BY <1>1
  <2> QED BY <1>6, <2>1, <1>1, <1>3, <1>4
<1>7. 0..Len(ops) \subseteq T
  <2> HIDE DEF T
  <2> QED BY <1>1, <1>5, <1>6, BoundedInduction
<1>8. Overlays(q, more)[Len(ops)] = Overlays(q, ops)[Len(ops)] BY <1>1, <1>7
<1>9. Len(more) \in 1..Len(more) /\ Len(more) - 1 = Len(ops) BY <1>1
<1>10. Overlays(q, more)[Len(more)] = TransformOverlay(Overlays(q, ops)[Len(ops)], op)
  BY <1>1, <1>4, <1>8, <1>9
<1> QED BY <1>10 DEF more, reconcile_overlay

-----------------------------------------------------------------------------
(* Plans.                                                                  *)

(* The operations of a plan lead from the root to its value: identities stay *)
(* coherent along them, what they change they touch, a last "set" is what    *)
(* is there in the end, and planned again on the root they are that plan.    *)
Leads(root, p) ==
  /\ p.ops = <<>> => p.value = root
  /\ \A q \in Overlay : Coherent(root, q) => Coherent(p.value, reconcile_overlay(q, p.ops))
  /\ \A k \in Key : Touches(p.ops, k) = {} => p.value[k] = root[k]
  /\ \A k \in Key : \A i \in Touches(p.ops, k) :
       p.ops[i].kind = "set" /\ (\A j \in Touches(p.ops, k) : j <= i) => p.ops[i].val = p.value[k]
  /\ plan_write_ops(root, p.ops) = [ok |-> TRUE, value |-> p.value, ops |-> p.ops]

Plan == [ok : BOOLEAN, value : Root, ops : Seq(Operation)]

(* The operation that is added touches what it overlaps. *)
LEMMA TouchesAppend ==
  ASSUME NEW ops \in Seq(Operation), NEW op \in Operation, NEW k \in Key
  PROVE /\ Overlaps(k, op) => Touches(Append(ops, op), k) = Touches(ops, k) \cup {Len(ops) + 1}
        /\ ~Overlaps(k, op) => Touches(Append(ops, op), k) = Touches(ops, k)
<1> DEFINE more == Append(ops, op)
<1>1. /\ Len(ops) \in Nat /\ Len(more) = Len(ops) + 1
      /\ more[Len(ops) + 1] = op
      /\ \A i \in 1..Len(ops) : more[i] = ops[i]
  OBVIOUS
<1> HIDE DEF more
<1>2. 1..Len(more) = (1..Len(ops)) \cup {Len(ops) + 1} BY <1>1
<1>3. ASSUME NEW i \in 1..Len(ops) PROVE Overlaps(k, more[i]) <=> Overlaps(k, ops[i]) BY <1>1
<1>4. Overlaps(k, more[Len(ops) + 1]) <=> Overlaps(k, op) BY <1>1
<1>5. Touches(more, k) = { i \in (1..Len(ops)) \cup {Len(ops) + 1} : Overlaps(k, more[i]) }
  BY <1>2 DEF Touches
<1>6. Touches(ops, k) = { i \in 1..Len(ops) : Overlaps(k, ops[i]) } BY DEF Touches
<1> HIDE DEF Overlaps
<1> QED BY <1>3, <1>4, <1>5, <1>6 DEF more

(* What an operation does not overlap it does not change; a "set" leaves its value. *)
LEMMA Untouched ==
  ASSUME NEW v \in Root, NEW op \in Operation, NEW k \in Key
  PROVE /\ ~Overlaps(k, op) => ApplyOp(v, op)[k] = v[k]
        /\ Overlaps(k, op) /\ op.kind = "set" => ApplyOp(v, op)[k] = op.val
<1>1. CASE op.kind \in {"set", "replace", "delete"}
  BY <1>1, OperationKinds DEF Overlaps, ApplyOp, Root
<1>2. CASE op.kind \in {"rename", "root"} BY <1>2 DEF Overlaps
<1> QED BY <1>1, <1>2, OperationKinds

(* One write more is planned on the plan of the others. *)
LEMMA PlanAppend ==
  ASSUME NEW root, NEW ops \in Seq(Operation), NEW op \in Operation
  PROVE plan_write_ops(root, Append(ops, op)) = PlanOne(plan_write_ops(root, ops), op)
<1> DEFINE more == Append(ops, op)
           T == { n \in 0..Len(ops) : Plans(root, more)[n] = Plans(root, ops)[n] }
<1>1. /\ Len(ops) \in Nat /\ Len(more) = Len(ops) + 1
      /\ more[Len(ops) + 1] = op
      /\ \A n \in 1..Len(ops) : more[n] = ops[n]
  OBVIOUS
<1> HIDE DEF more
<1>2. Len(more) \in Nat BY <1>1
<1>3. /\ Plans(root, ops)[0] = [ok |-> TRUE, value |-> root, ops |-> <<>>]
      /\ \A n \in 1..Len(ops) : Plans(root, ops)[n] = PlanOne(Plans(root, ops)[n - 1], ops[n])
  BY <1>1, PlansSteps
<1>4. /\ Plans(root, more)[0] = [ok |-> TRUE, value |-> root, ops |-> <<>>]
      /\ \A n \in 1..Len(more) : Plans(root, more)[n] = PlanOne(Plans(root, more)[n - 1], more[n])
  BY <1>2, PlansSteps
<1>5. 0 \in T BY <1>1, <1>3, <1>4
<1>6. ASSUME NEW n \in 1..Len(ops), n - 1 \in T PROVE n \in T
  <2>1. n \in 1..Len(more) BY <1>1
  <2> QED BY <1>6, <2>1, <1>1, <1>3, <1>4
<1>7. 0..Len(ops) \subseteq T
  <2> HIDE DEF T
  <2> QED BY <1>1, <1>5, <1>6, BoundedInduction
<1>8. Plans(root, more)[Len(ops)] = Plans(root, ops)[Len(ops)] BY <1>1, <1>7
<1>9. Len(more) \in 1..Len(more) /\ Len(more) - 1 = Len(ops) BY <1>1
<1>10. Plans(root, more)[Len(more)] = PlanOne(Plans(root, ops)[Len(ops)], op)
  BY <1>1, <1>4, <1>8, <1>9
<1> QED BY <1>10 DEF more, plan_write_ops

(* The plan of nothing. *)
LEMMA PlanEmpty ==
  ASSUME NEW root
  PROVE plan_write_ops(root, <<>>) = [ok |-> TRUE, value |-> root, ops |-> <<>>]
BY PlansSteps DEF plan_write_ops

(* A plan stays one through the next write. *)
LEMMA PlanOneLeads ==
  ASSUME NEW root \in Root, NEW p \in Plan, Leads(root, p), NEW op \in Operation
  PROVE PlanOne(p, op) \in Plan /\ Leads(root, PlanOne(p, op))
<1>1. p.ok \in BOOLEAN /\ p.value \in Root /\ p.ops \in Seq(Operation) BY DEF Plan
<1>2. CASE ~(p.ok /\ Resolves(p.value, op))
  <2>1. PlanOne(p, op) = [p EXCEPT !.ok = FALSE] BY <1>2 DEF PlanOne
  <2>2. PlanOne(p, op) \in Plan BY <2>1 DEF Plan
  <2>3. PlanOne(p, op).value = p.value /\ PlanOne(p, op).ops = p.ops BY <2>1 DEF Plan
  <2> QED BY <2>2, <2>3 DEF Leads
<1>3. CASE p.ok /\ Resolves(p.value, op) /\ ~Changes(p.value, op)
  <2>1. ApplyOp(p.value, op) = p.value BY <1>1, <1>3, UnchangedValue
  <2>2. PlanOne(p, op) = [ok |-> TRUE, value |-> p.value, ops |-> p.ops] BY <1>3, <2>1 DEF PlanOne
  <2>3. PlanOne(p, op) \in Plan BY <1>1, <2>2 DEF Plan
  <2>4. PlanOne(p, op).value = p.value /\ PlanOne(p, op).ops = p.ops BY <2>2
  <2> QED BY <2>3, <2>4 DEF Leads
<1>4. CASE p.ok /\ Resolves(p.value, op) /\ Changes(p.value, op)
  <2> DEFINE v == ApplyOp(p.value, op)
             more == Append(p.ops, op)
  <2>1. PlanOne(p, op) = [ok |-> TRUE, value |-> v, ops |-> more] BY <1>4 DEF PlanOne
  <2>2. v \in Root BY <1>1, ApplyOpType
  <2>3. more \in Seq(Operation) /\ more # <<>> /\ Len(more) = Len(p.ops) + 1 /\ more[Len(p.ops) + 1] = op
        /\ Len(p.ops) \in Nat /\ \A i \in 1..Len(p.ops) : more[i] = p.ops[i]
    BY <1>1
  <2>4. ASSUME NEW q \in Overlay, Coherent(root, q) PROVE Coherent(v, reconcile_overlay(q, more))
    <3>1. Coherent(p.value, reconcile_overlay(q, p.ops)) BY <2>4 DEF Leads
    <3>2. reconcile_overlay(q, p.ops) \in Overlay BY <1>1, OverlayType
    <3>3. op.kind = "rename" => op.key # op.to BY <1>4 DEF Changes
    <3>4. Resolves(p.value, op) BY <1>4
    <3>5. Coherent(v, TransformOverlay(reconcile_overlay(q, p.ops), op))
      BY <1>1, <3>1, <3>2, <3>3, <3>4, TransformCoherent
    <3> QED BY <1>1, <3>5, OverlayAppend
  <2>5. ASSUME NEW k \in Key, Touches(more, k) = {} PROVE v[k] = root[k]
    <3>0. /\ Overlaps(k, op) => Touches(more, k) = Touches(p.ops, k) \cup {Len(p.ops) + 1}
          /\ ~Overlaps(k, op) => Touches(more, k) = Touches(p.ops, k)
      BY <1>1, TouchesAppend
    <3> HIDE DEF more
    <3>1. ~Overlaps(k, op) /\ Touches(p.ops, k) = {} BY <2>5, <3>0
    <3>2. v[k] = p.value[k] BY <1>1, <3>1, Untouched
    <3>3. p.value[k] = root[k] BY <3>1 DEF Leads
    <3> QED BY <3>2, <3>3
  <2>6. ASSUME NEW k \in Key, NEW i \in Touches(more, k), more[i].kind = "set",
               \A j \in Touches(more, k) : j <= i
        PROVE more[i].val = v[k]
    <3>1. CASE Overlaps(k, op)
      <4>1. Touches(more, k) = Touches(p.ops, k) \cup {Len(p.ops) + 1} BY <1>1, <3>1, TouchesAppend
      <4>2. i \in 1..(Len(p.ops) + 1) BY <2>3 DEF Touches
      <4>3. Len(p.ops) + 1 <= i BY <2>6, <4>1
      <4>4. i = Len(p.ops) + 1 BY <2>3, <4>2, <4>3
      <4>5. more[i] = op BY <2>3, <4>4
      <4>6. op.kind = "set" BY <2>6, <4>5
      <4>7. v[k] = op.val BY <1>1, <3>1, <4>6, Untouched
      <4> QED BY <4>5, <4>7
    <3>2. CASE ~Overlaps(k, op)
      <4>1. Touches(more, k) = Touches(p.ops, k) BY <1>1, <3>2, TouchesAppend
      <4>2. i \in 1..Len(p.ops) BY <4>1 DEF Touches
      <4>3. more[i] = p.ops[i] BY <2>3, <4>2
      <4>4. p.ops[i].val = p.value[k] BY <2>6, <4>1, <4>3 DEF Leads
      <4>5. v[k] = p.value[k] BY <1>1, <3>2, Untouched
      <4> QED BY <4>3, <4>4, <4>5
    <3> QED BY <3>1, <3>2
  <2>7. plan_write_ops(root, more) = [ok |-> TRUE, value |-> v, ops |-> more]
    <3>1. plan_write_ops(root, more) = PlanOne(plan_write_ops(root, p.ops), op) BY <1>1, PlanAppend
    <3>2. plan_write_ops(root, p.ops) = [ok |-> TRUE, value |-> p.value, ops |-> p.ops] BY DEF Leads
    <3>3. PlanOne([ok |-> TRUE, value |-> p.value, ops |-> p.ops], op) = [ok |-> TRUE, value |-> v, ops |-> more]
      BY <1>4 DEF PlanOne
    <3> QED BY <3>1, <3>2, <3>3
  <2> HIDE DEF v, more
  <2>8. PlanOne(p, op) \in Plan BY <2>1, <2>2, <2>3 DEF Plan
  <2>9. PlanOne(p, op).value = v /\ PlanOne(p, op).ops = more BY <2>1
  <2> QED BY <2>3, <2>4, <2>5, <2>6, <2>7, <2>8, <2>9 DEF Leads
<1> QED BY <1>2, <1>3, <1>4

(* Every plan of the planner leads from its root to its value. *)
LEMMA PlanLeads ==
  ASSUME NEW root \in Root, NEW writes \in Seq(Operation)
  PROVE plan_write_ops(root, writes) \in Plan /\ Leads(root, plan_write_ops(root, writes))
<1> DEFINE p(n) == Plans(root, writes)[n]
           T == { n \in 0..Len(writes) : p(n) \in Plan /\ Leads(root, p(n)) }
<1>1. Len(writes) \in Nat OBVIOUS
<1>2. 0 \in T
  <2> DEFINE first == [ok |-> TRUE, value |-> root, ops |-> <<>>]
  <2>1. p(0) = first BY <1>1, PlansSteps
  <2>2. first \in Plan BY DEF Plan
  <2>3. first.value = root /\ first.ops = <<>> OBVIOUS
  <2>4. \A k \in Key : Touches(<<>>, k) = {} BY DEF Touches
  <2>5. Leads(root, first) BY <2>3, <2>4, OverlayEmpty, PlanEmpty DEF Leads
  <2> HIDE DEF first
  <2> QED BY <1>1, <2>1, <2>2, <2>5
<1>3. ASSUME NEW n \in 1..Len(writes), n - 1 \in T PROVE n \in T
  <2>1. p(n) = PlanOne(p(n - 1), writes[n]) BY <1>1, PlansSteps
  <2>2. p(n - 1) \in Plan /\ Leads(root, p(n - 1)) BY <1>3
  <2>3. writes[n] \in Operation OBVIOUS
  <2> HIDE DEF p
  <2>4. p(n) \in Plan /\ Leads(root, p(n)) BY <2>1, <2>2, <2>3, PlanOneLeads
  <2> QED BY <2>4
<1>4. 0..Len(writes) \subseteq T
  <2> HIDE DEF T
  <2> QED BY <1>1, <1>2, <1>3, BoundedInduction
<1>5. Len(writes) \in T BY <1>1, <1>4
<1> QED BY <1>5 DEF plan_write_ops

-----------------------------------------------------------------------------
(* Plans that retire identities.                                           *)

Retiring(root, q, ops) == \A i \in 1..Len(ops) : Retires(root, q, ops[i])

(* What a plan of equal replacements leaves are the retiring ones. *)
LEMMA RetirementsRetire ==
  ASSUME NEW root, NEW q, NEW writes \in Seq(Operation)
  PROVE /\ Retirements(root, q, writes)[Len(writes)] \in Seq(Operation)
        /\ Retiring(root, q, Retirements(root, q, writes)[Len(writes)])
<1> DEFINE r(n) == Retirements(root, q, writes)[n]
           T == { n \in 0..Len(writes) : r(n) \in Seq(Operation) /\ Retiring(root, q, r(n)) }
<1>1. Len(writes) \in Nat OBVIOUS
<1>2. 0 \in T
  <2>1. r(0) = <<>> BY <1>1, RetirementsSteps
  <2>2. Retiring(root, q, <<>>) BY DEF Retiring
  <2>3. <<>> \in Seq(Operation) OBVIOUS
  <2>4. r(0) \in Seq(Operation) /\ Retiring(root, q, r(0)) BY <2>1, <2>2, <2>3
  <2>5. 0 \in 0..Len(writes) BY <1>1
  <2> HIDE DEF r
  <2> QED BY <2>4, <2>5
<1>3. ASSUME NEW n \in 1..Len(writes), n - 1 \in T PROVE n \in T
  <2>1. r(n) = IF Retires(root, q, writes[n]) THEN Append(r(n - 1), writes[n]) ELSE r(n - 1)
    BY <1>1, RetirementsSteps
  <2>2. r(n - 1) \in Seq(Operation) /\ Retiring(root, q, r(n - 1)) BY <1>3
  <2>3. writes[n] \in Operation OBVIOUS
  <2> DEFINE before == r(n - 1)
  <2>4. before \in Seq(Operation) /\ Retiring(root, q, before) BY <2>2
  <2> HIDE DEF before
  <2>5. CASE Retires(root, q, writes[n])
    <3>1. r(n) = Append(before, writes[n]) BY <2>1, <2>5 DEF before
    <3>2. Append(before, writes[n]) \in Seq(Operation) BY <2>3, <2>4
    <3> HIDE DEF Retires
    <3>3. Retiring(root, q, Append(before, writes[n])) BY <2>3, <2>4, <2>5 DEF Retiring
    <3>4. r(n) \in Seq(Operation) /\ Retiring(root, q, r(n)) BY <3>1, <3>2, <3>3
    <3> HIDE DEF r
    <3> QED BY <3>4
  <2>6. CASE ~Retires(root, q, writes[n])
    <3>1. r(n) = before BY <2>1, <2>6 DEF before
    <3>2. r(n) \in Seq(Operation) /\ Retiring(root, q, r(n)) BY <2>4, <3>1
    <3> HIDE DEF r
    <3> QED BY <3>2
  <2> QED BY <2>5, <2>6
<1>4. 0..Len(writes) \subseteq T
  <2> HIDE DEF T
  <2> QED BY <1>1, <1>2, <1>3, BoundedInduction
<1>5. Len(writes) \in T BY <1>1, <1>4
<1> QED BY <1>5

(* Of operations that all retire every one is left. *)
LEMMA RetirementsAll ==
  ASSUME NEW root, NEW q, NEW ops \in Seq(Operation), Retiring(root, q, ops)
  PROVE Retirements(root, q, ops)[Len(ops)] = ops
<1> DEFINE r(n) == Retirements(root, q, ops)[n]
           T == { n \in 0..Len(ops) : r(n) = SubSeq(ops, 1, n) }
<1>1. Len(ops) \in Nat OBVIOUS
<1>2. 0 \in T
  <2>1. r(0) = <<>> BY <1>1, RetirementsSteps
  <2>2. SubSeq(ops, 1, 0) = <<>> OBVIOUS
  <2>3. r(0) = SubSeq(ops, 1, 0) BY <2>1, <2>2
  <2>4. 0 \in 0..Len(ops) BY <1>1
  <2> HIDE DEF r
  <2> QED BY <2>3, <2>4
<1>3. ASSUME NEW n \in 1..Len(ops), n - 1 \in T PROVE n \in T
  <2>1. r(n) = Append(r(n - 1), ops[n]) BY <1>1, RetirementsSteps DEF Retiring
  <2>2. r(n - 1) = SubSeq(ops, 1, n - 1) BY <1>3
  <2>3. Append(SubSeq(ops, 1, n - 1), ops[n]) = SubSeq(ops, 1, n) OBVIOUS
  <2> HIDE DEF r
  <2> QED BY <2>1, <2>2, <2>3
<1>4. 0..Len(ops) \subseteq T
  <2> HIDE DEF T
  <2> QED BY <1>1, <1>2, <1>3, BoundedInduction
<1>5. r(Len(ops)) = SubSeq(ops, 1, Len(ops)) BY <1>1, <1>4
<1>6. SubSeq(ops, 1, Len(ops)) = ops OBVIOUS
<1> QED BY <1>5, <1>6

(* They leave a coherent value and overlay coherent. *)
LEMMA RetiringOverlay ==
  ASSUME NEW root \in Root, NEW q \in Overlay, Coherent(root, q),
         NEW ops \in Seq(Operation), Retiring(root, q, ops)
  PROVE Coherent(root, reconcile_overlay(q, ops))
<1> DEFINE o(n) == Overlays(q, ops)[n]
           T == { n \in 0..Len(ops) : o(n) \in Overlay /\ Coherent(root, o(n)) }
<1>1. Len(ops) \in Nat OBVIOUS
<1>2. 0 \in T
  <2>1. o(0) = q BY <1>1, OverlaysSteps
  <2> HIDE DEF o
  <2> QED BY <1>1, <2>1
<1>3. ASSUME NEW n \in 1..Len(ops), n - 1 \in T PROVE n \in T
  <2>1. o(n) = TransformOverlay(o(n - 1), ops[n]) BY <1>1, OverlaysSteps
  <2>2. o(n - 1) \in Overlay /\ Coherent(root, o(n - 1)) BY <1>3
  <2>3. ops[n] \in Operation OBVIOUS
  <2>4. ops[n].kind \in {"replace", "root"} BY DEF Retiring, Retires
  <2> HIDE DEF o
  <2>5. o(n) \in Overlay BY <2>1, <2>2, <2>3, TransformType
  <2>6. Coherent(root, o(n)) BY <2>1, <2>2, <2>3, <2>4, RetiringCoherent
  <2> QED BY <2>5, <2>6
<1>4. 0..Len(ops) \subseteq T
  <2> HIDE DEF T
  <2> QED BY <1>1, <1>2, <1>3, BoundedInduction
<1>5. Len(ops) \in T
  <2> HIDE DEF T
  <2> QED BY <1>1, <1>4
<1> QED BY <1>5 DEF reconcile_overlay

(* Planned as writes they change nothing. *)
LEMMA RetiringPlan ==
  ASSUME NEW root \in Root, NEW q \in Overlay, Coherent(root, q),
         NEW ops \in Seq(Operation), Retiring(root, q, ops)
  PROVE plan_write_ops(root, ops) = [ok |-> TRUE, value |-> root, ops |-> <<>>]
<1> DEFINE first == [ok |-> TRUE, value |-> root, ops |-> <<>>]
           p(n) == Plans(root, ops)[n]
           T == { n \in 0..Len(ops) : p(n) = first }
<1>1. Len(ops) \in Nat OBVIOUS
<1>2. 0 \in T
  <2>1. p(0) = first BY <1>1, PlansSteps
  <2> HIDE DEF p, first
  <2> QED BY <1>1, <2>1
<1>3. ASSUME NEW n \in 1..Len(ops), n - 1 \in T PROVE n \in T
  <2>1. p(n) = PlanOne(p(n - 1), ops[n]) BY <1>1, PlansSteps
  <2>2. p(n - 1) = first BY <1>3
  <2>3. ops[n] \in Operation OBVIOUS
  <2>4. Retires(root, q, ops[n]) BY DEF Retiring
  <2>5. Resolves(root, ops[n])
    BY <2>3, <2>4, OperationKinds DEF Retires, Resolves, Coherent
  <2>6. ApplyOp(root, ops[n]) = root
    <3>1. CASE ops[n].kind = "root" BY <3>1, <2>4 DEF Retires, ApplyOp
    <3>2. CASE ops[n].kind = "replace" BY <3>2, <2>3, <2>4, OperationKinds DEF Retires, ApplyOp, Root
    <3> QED BY <2>4, <3>1, <3>2 DEF Retires
  <2>7. ~Changes(root, ops[n]) BY <2>4, <2>6 DEF Retires, Changes
  <2>8. PlanOne(first, ops[n]) = first BY <2>5, <2>6, <2>7 DEF PlanOne
  <2> HIDE DEF p, first
  <2> QED BY <2>1, <2>2, <2>8
<1>4. 0..Len(ops) \subseteq T
  <2> HIDE DEF T
  <2> QED BY <1>1, <1>2, <1>3, BoundedInduction
<1>5. Len(ops) \in T
  <2> HIDE DEF T
  <2> QED BY <1>1, <1>4
<1> QED BY <1>5 DEF plan_write_ops

(* A commit: operations that lead the map from a value and an overlay to a   *)
(* value, and whose replay on that value and that overlay is the same commit. *)
Commits(root, q, next, ops) ==
  /\ next \in Root /\ ops \in Seq(Operation) /\ ops # <<>>
  /\ Coherent(next, reconcile_overlay(q, ops))
  /\ \A k \in Key : Touches(ops, k) = {} => next[k] = root[k]
  /\ \A k \in Key : \A i \in Touches(ops, k) :
       ops[i].kind = "set" /\ (\A j \in Touches(ops, k) : j <= i) => ops[i].val = next[k]
  /\ plan_write_ops_with_identity(root, q, ops) = [ok |-> TRUE, value |-> next, ops |-> ops]

(* What the planner plans on a coherent map is such a commit. *)
LEMMA PlanCommits ==
  ASSUME NEW root \in Root, NEW q \in Overlay, Coherent(root, q), NEW writes \in Seq(Operation),
         plan_write_ops_with_identity(root, q, writes).ok,
         plan_write_ops_with_identity(root, q, writes).ops # <<>>
  PROVE LET plan == plan_write_ops_with_identity(root, q, writes)
        IN Commits(root, q, plan.value, plan.ops)
<1> DEFINE p == plan_write_ops(root, writes)
           r == Retirements(root, q, writes)[Len(writes)]
           plan == plan_write_ops_with_identity(root, q, writes)
<1>1. p \in Plan /\ Leads(root, p) BY PlanLeads
<1>2. CASE p.ops # <<>>
  <2>1. plan = p BY <1>2 DEF plan_write_ops_with_identity
  <2>2. p.ok /\ p.value \in Root /\ p.ops \in Seq(Operation) BY <1>1, <2>1 DEF Plan
  <2>3. plan_write_ops(root, p.ops) = [ok |-> TRUE, value |-> p.value, ops |-> p.ops] BY <1>1 DEF Leads
  <2>4. plan_write_ops_with_identity(root, q, p.ops) = [ok |-> TRUE, value |-> p.value, ops |-> p.ops]
    BY <1>2, <2>3 DEF plan_write_ops_with_identity
  <2> HIDE DEF p
  <2>5. Commits(root, q, p.value, p.ops) BY <1>1, <1>2, <2>2, <2>4 DEF Leads, Commits
  <2> QED BY <2>1, <2>5
<1>3. CASE p.ops = <<>>
  <2>1. p.value = root BY <1>1, <1>3 DEF Leads
  <2>2. p.ok
    <3>1. CASE ~p.ok
      <4>1. plan = p BY <3>1 DEF plan_write_ops_with_identity
      <4> QED BY <3>1, <4>1
    <3> QED BY <3>1
  <2>3. plan = [ok |-> TRUE, value |-> p.value, ops |-> r] BY <1>3, <2>2 DEF plan_write_ops_with_identity
  <2>4. plan.value = root /\ plan.ops = r BY <1>1, <2>1, <2>3 DEF Plan
  <2>5. r \in Seq(Operation) /\ Retiring(root, q, r) BY RetirementsRetire
  <2>6. r # <<>> BY <2>4
  <2>7. Coherent(root, reconcile_overlay(q, r)) BY <2>5, RetiringOverlay
  <2>8. plan_write_ops(root, r) = [ok |-> TRUE, value |-> root, ops |-> <<>>] BY <2>5, RetiringPlan
  <2>9. Retirements(root, q, r)[Len(r)] = r BY <2>5, RetirementsAll
  <2>10. plan_write_ops_with_identity(root, q, r) = [ok |-> TRUE, value |-> root, ops |-> r]
    <3> DEFINE quiet == [ok |-> TRUE, value |-> root, ops |-> <<>>]
    <3>1. quiet.ok /\ quiet.value = root /\ quiet.ops = <<>> OBVIOUS
    <3>2. plan_write_ops(root, r) = quiet BY <2>8
    <3> HIDE DEF quiet, r
    <3> QED BY <2>9, <3>1, <3>2 DEF plan_write_ops_with_identity
  <2>11. \A i \in 1..Len(r) : r[i].kind # "set" BY <2>5 DEF Retiring, Retires
  <2> HIDE DEF r
  <2>12. \A k \in Key : \A i \in Touches(r, k) : r[i].kind # "set" BY <2>11 DEF Touches
  <2>13. Commits(root, q, root, r) BY <2>5, <2>6, <2>7, <2>10, <2>12 DEF Commits
  <2> QED BY <2>4, <2>13
<1> QED BY <1>2, <1>3

-----------------------------------------------------------------------------
(* The inductive invariant.                                                *)

(* Whether the publication e makes a listener at k look at the map. *)
Bears(e, k) == e.kind = "snapshot" \/ (e.kind = "commit" /\ Touches(e.commit.ops, k) # {})

(* A publication of q that bears on k has not been seen yet: the first of q  *)
(* counts while the place in it is still before the listener (ahead).        *)
Awaits(q, k, ahead) == \E m \in 1..Len(q) : Bears(q[m], k) /\ (m = 1 => ahead)

Phases == {"watch", "link", "feed", "store", "observer"}

(* The publications, and what a transition and a capture hold. *)
Publication ==
       [kind : {"commit"}, frozen : Root \cup {None}, follows : BOOLEAN,
        commit : [prevRev : Nat, rev : Nat, ops : Seq(Operation), before : Root]]
  \cup [kind : {"identity"}, frozen : Root \cup {None}, follows : BOOLEAN,
        commit : [prevRev : Nat, rev : Nat,
                  ops : Seq([kind : {"quid"}, key : Key, to : {None}, val : Quid])]]
  \cup [kind : {"snapshot"}, frozen : Root \cup {None}, follows : BOOLEAN, commit : {None}]

Transition ==
  [next : Root, ops : Seq(Operation), replacesRoot : BOOLEAN, base : Root, baseQuids : Overlay,
   rev : Nat, fresh : BOOLEAN, detached : BOOLEAN]

MapOK ==
  /\ value \in Root /\ quids \in Overlay /\ issued \subseteq Quid /\ schema \in BOOLEAN
  /\ calls \in 0..MaxCalls /\ rev \in 0..calls /\ epoch \in 0..calls
  /\ Coherent(value, quids) /\ Active(quids) \subseteq issued
  /\ schema => value \in Valid

(* Where the publication is; the phases of the feeds are those of commits. *)
PlaceOK ==
  /\ queue \in Seq(Publication)
  /\ stage \in [phase : Phases, i : Nat \ {0}, call : BOOLEAN]
  /\ queue = <<>> => stage = NoCall
  /\ \A m \in 1..Len(queue) : queue[m].kind = "identity" => Len(queue[m].commit.ops) = 1
  /\ stage.phase \in {"link", "feed", "store"} => queue[1].kind = "commit"
  /\ restored \in BOOLEAN
  /\ ~restored => \A m \in 1..Len(queue) : queue[m].kind # "snapshot" /\ queue[m].frozen = None

(* A fresh transition lies on its base and holds a commit of the planner. *)
StagedOK ==
  staged # None =>
    /\ staged \in Transition
    /\ staged.fresh =>
         /\ staged.base = value /\ staged.baseQuids = quids
         /\ Commits(value, quids, staged.next, staged.ops)
         /\ schema => staged.next \in Valid
         /\ RootsShow /\ staged.replacesRoot => ReplacesRoot(staged.ops)

(* A capture is coherent, its identities are on the ledger of its epoch, and *)
(* at its revision the map has its value unless a restore reused revisions.  *)
SavedOK ==
  saved # None =>
    /\ saved \in [value : Root, quids : Overlay, rev : Nat, epoch : Nat, same : BOOLEAN]
    /\ saved.rev <= calls /\ saved.epoch <= epoch
    /\ Coherent(saved.value, saved.quids)
    /\ saved.epoch = epoch => Active(saved.quids) \subseteq issued
    /\ ~restored => saved.rev <= rev /\ (saved.rev = rev => saved.value = value)

(* The listener of watch i has not been passed in the first publication. *)
BeforeWatch(i) == stage.phase = "watch" /\ (stage.i < i \/ (stage.i = i /\ ~stage.call))
BeforeFeed == stage.phase \in {"watch", "link"} \/ (stage.phase = "feed" /\ stage.i = 1 /\ ~stage.call)
BeforeStore ==
  stage.phase \in {"watch", "link", "feed"} \/ (stage.phase = "store" /\ stage.i = 1 /\ ~stage.call)
BeforeLink == stage.phase \in {"watch", "link"}

WatchesOK ==
  /\ previous \in Root /\ told = previous
  /\ \A i \in 1..Len(Watches) :
       previous[Watches[i]] = value[Watches[i]] \/ Awaits(queue, Watches[i], BeforeWatch(i))

(* A commit whose last operation at the linked path is a "set" set what the  *)
(* path holds (v), or one that follows bears on the path.                    *)
LastSetHolds(q, m, v) ==
  \A i \in Touches(q[m].commit.ops, LinkKey) :
    (/\ q[m].commit.ops[i].kind = "set"
     /\ \A j \in Touches(q[m].commit.ops, LinkKey) : j <= i)
    => q[m].commit.ops[i].val = v \/ \E n \in 1..Len(q) : n > m /\ Bears(q[n], LinkKey)

LinkOK ==
  ~restored /\ "link" \notin cut =>
    /\ linked = value[LinkKey] \/ Awaits(queue, LinkKey, BeforeLink)
    /\ \A m \in 1..Len(queue) : queue[m].kind = "commit" => LastSetHolds(queue, m, value[LinkKey])

FeedsOK ==
  ~restored /\ cut = {} =>
    /\ heard = value[FeedKey] \/ Awaits(queue, FeedKey, BeforeFeed)
    /\ subPrev = value[SubKey] \/ Awaits(queue, SubKey, BeforeStore)

(* What the observer keeps, and what it makes of the publications q that it  *)
(* is shown, one after the other, when no snapshot is among them.            *)
Replica == [value : Root, quids : Overlay, rev : Nat, issued : SUBSET Quid]

Shown(r, e) == Replayed(r, e, r)

CatchesUp(r, q) ==
  LET after[n \in 0..Len(q)] == IF n = 0 THEN r ELSE Shown(after[n - 1], q[n])
  IN after

CatchUp(r, q) == CatchesUp(r, q)[Len(q)]

(* From m on the queue holds no snapshot. *)
QuietFrom(q, m) == \A n \in m..Len(q) : q[n].kind # "snapshot"

(* The commits behind the last snapshot were made one after the other. *)
Ordered(q, now) ==
  \A m \in 1..Len(q) : QuietFrom(q, m) =>
    /\ q[m].commit.prevRev < now
    /\ \A n \in 1..Len(q) : m < n => q[m].commit.prevRev < q[n].commit.prevRev

(* The replica missed a commit, and refuses the ones that follow. *)
Behind(r, q, now) == r.rev < now /\ \A m \in 1..Len(q) : q[m].commit.prevRev # r.rev

(* It holds the state of the map, and no identity the map would issue again. *)
Mirrors(r, v, o, n, s) == r.value = v /\ r.quids = o /\ r.rev = n /\ r.issued \subseteq s

(* Shown all that is queued the replica is the map, or it is behind because  *)
(* a commit was cut off. A snapshot in the queue makes up for everything.    *)
ReplicaOK ==
  /\ replica \in Replica
  /\ Ordered(queue, rev)
  /\ RootsShow /\ QuietFrom(queue, 1) =>
       \/ Mirrors(CatchUp(replica, queue), value, quids, rev, issued)
       \/ cut # {} /\ Behind(replica, queue, rev)

CoreInv ==
  MapOK /\ PlaceOK /\ StagedOK /\ SavedOK /\ WatchesOK /\ LinkOK /\ FeedsOK /\ ReplicaOK

-----------------------------------------------------------------------------
(* What the steps come to.                                                 *)

(* A commit of the planner is installed. *)
Installs(next, ops, replacesRoot, follows) ==
  /\ CallerRuns
  /\ Commits(value, quids, next, ops) /\ SchemaAdmits(next)
  /\ InstallCommit(next, ops, replacesRoot, follows)
  /\ follows \in BOOLEAN
  /\ RootsShow /\ replacesRoot => ReplacesRoot(ops)
  /\ staged' = None \/ Invalidate
  /\ UNCHANGED <<schema, saved, stage, listenerVars, restored>>

(* One is staged. *)
Prepares(next, ops, replacesRoot, detached) ==
  /\ CallerRuns
  /\ Commits(value, quids, next, ops) /\ SchemaAdmits(next)
  /\ staged' = [next |-> next, ops |-> ops, replacesRoot |-> replacesRoot,
                base |-> value, baseQuids |-> quids, rev |-> rev, fresh |-> TRUE, detached |-> detached]
  /\ replacesRoot \in BOOLEAN /\ detached \in BOOLEAN
  /\ RootsShow /\ replacesRoot => ReplacesRoot(ops)
  /\ UNCHANGED <<mapVars, saved, queue, stage, listenerVars, restored>>

(* The plan of apply() is a root replacement. *)
LEMMA RootPlan ==
  ASSUME NEW root \in Root, NEW q, NEW next \in Root
  PROVE LET writes == <<[kind |-> "root", key |-> None, to |-> None, val |-> next]>>
            plan == plan_write_ops_with_identity(root, q, writes)
        IN /\ writes \in Seq(Operation) /\ plan.ok /\ plan.value = next
           /\ plan.ops # <<>> => ReplacesRoot(plan.ops)
<1> DEFINE op == [kind |-> "root", key |-> None, to |-> None, val |-> next]
           writes == <<op>>
           first == [ok |-> TRUE, value |-> root, ops |-> <<>>]
           p == plan_write_ops(root, writes)
           plan == plan_write_ops_with_identity(root, q, writes)
<1>1. op \in Operation BY DEF Operation
<1>2. op.kind = "root" /\ op.val = next OBVIOUS
<1> HIDE DEF op
<1>3. writes \in Seq(Operation) /\ writes = Append(<<>>, op) /\ <<>> \in Seq(Operation) BY <1>1
<1>4. p = PlanOne(first, op)
  <2>1. plan_write_ops(root, <<>>) = first BY PlanEmpty
  <2> HIDE DEF writes, first
  <2>2. plan_write_ops(root, Append(<<>>, op)) = PlanOne(plan_write_ops(root, <<>>), op) BY <1>1, <1>3, PlanAppend
  <2> QED BY <1>3, <2>1, <2>2
<1>5. Resolves(root, op) /\ ApplyOp(root, op) = next BY <1>2 DEF Resolves, ApplyOp
<1>6. p.ok /\ p.value = next BY <1>4, <1>5 DEF PlanOne
<1>7. plan.ok /\ plan.value = next
  <2> HIDE DEF writes, p
  <2> QED BY <1>6 DEF plan_write_ops_with_identity, p
<1>8. ReplacesRoot(<<op>>) BY <1>2 DEF ReplacesRoot
<1>9. p.ops = <<>> \/ p.ops = <<op>> BY <1>4 DEF PlanOne
<1>10. Retirements(root, q, writes)[Len(writes)] \in {<<>>, <<op>>}
  <2>1. Len(writes) = 1 /\ writes[1] = op OBVIOUS
  <2> HIDE DEF writes
  <2> DEFINE r(n) == Retirements(root, q, writes)[n]
  <2>2. r(0) = <<>> BY <2>1, RetirementsSteps
  <2>3. r(1) = IF Retires(root, q, writes[1]) THEN Append(r(0), writes[1]) ELSE r(0)
    <3>1. 1 \in 1..Len(writes) /\ 1 - 1 = 0 /\ Len(writes) \in Nat BY <2>1
    <3>2. r(1) = IF Retires(root, q, writes[1]) THEN Append(r(1 - 1), writes[1]) ELSE r(1 - 1)
      BY <3>1, RetirementsSteps
    <3> HIDE DEF r
    <3> QED BY <3>1, <3>2
  <2>4. Append(<<>>, op) = <<op>> OBVIOUS
  <2>5. r(1) \in {<<>>, <<op>>}
    <3> HIDE DEF r
    <3> QED BY <2>1, <2>2, <2>3, <2>4
  <2> QED BY <2>1, <2>5
<1>11. plan.ops # <<>> => ReplacesRoot(plan.ops)
  <2> HIDE DEF writes, p
  <2>1. plan.ops = p.ops \/ plan.ops = Retirements(root, q, writes)[Len(writes)]
    BY DEF plan_write_ops_with_identity, p
  <2> HIDE DEF plan
  <2> QED BY <1>8, <1>9, <1>10, <2>1
<1> QED BY <1>3, <1>7, <1>11 DEF writes, op

(* Every step installs a commit, stages one, or is one of the others. *)
LEMMA StepKinds ==
  ASSUME CoreInv, [Next]_vars
  PROVE \/ \E next, ops, replacesRoot, follows : Installs(next, ops, replacesRoot, follows)
        \/ \E next, ops, replacesRoot, detached : Prepares(next, ops, replacesRoot, detached)
        \/ \E k \in Key : EnsureQuid(k)
        \/ UseSchema \/ Discard
        \/ \E same \in BOOLEAN : Capture(same)
        \/ \E policy \in {"same-epoch", "preserve-metadata", "strip"} : Restore(policy)
        \/ Publish
        \/ UNCHANGED vars
<1>1. value \in Root /\ quids \in Overlay /\ Coherent(value, quids) BY DEF CoreInv, MapOK
<1>2. ASSUME NEW writes \in Writes
      PROVE writes \in Seq(Operation)
  BY LiveMapAssumption
<1>3. ASSUME NEW writes \in Writes, CommitOps(writes)
      PROVE \E next, ops, replacesRoot, follows : Installs(next, ops, replacesRoot, follows)
  <2> DEFINE plan == plan_write_ops_with_identity(value, quids, writes)
  <2>1. plan.ok /\ plan.ops # <<>> BY <1>3 DEF CommitOps
  <2>2. Commits(value, quids, plan.value, plan.ops) BY <1>1, <1>2, <2>1, PlanCommits
  <2>3. Installs(plan.value, plan.ops, ReplacesRoot(writes), FALSE)
    <3> HIDE DEF plan
    <3>1. /\ CallerRuns /\ SchemaAdmits(plan.value)
          /\ InstallCommit(plan.value, plan.ops, ReplacesRoot(writes), FALSE)
          /\ Invalidate
          /\ UNCHANGED <<schema, saved, stage, listenerVars, restored>>
      BY <1>3 DEF CommitOps, plan
    <3>2. RootsShow /\ ReplacesRoot(writes) => ReplacesRoot(plan.ops) BY <1>1, <2>1 DEF RootsShow, plan
    <3> QED BY <2>2, <3>1, <3>2 DEF Installs
  <2> HIDE DEF plan
  <2> QED BY <2>3
<1>4. ASSUME NEW writes \in Writes, PrepareBatch(writes) \/ PrepareDetached(writes)
      PROVE \E next, ops, replacesRoot, detached : Prepares(next, ops, replacesRoot, detached)
  <2> DEFINE plan == plan_write_ops_with_identity(value, quids, writes)
  <2>1. plan.ok /\ plan.ops # <<>> BY <1>4 DEF PrepareBatch, PrepareDetached
  <2>2. Commits(value, quids, plan.value, plan.ops) BY <1>1, <1>2, <2>1, PlanCommits
  <2>3. \E replacesRoot \in BOOLEAN, detached \in BOOLEAN :
          Prepares(plan.value, plan.ops, replacesRoot, detached)
    <3> HIDE DEF plan
    <3>1. /\ CallerRuns /\ SchemaAdmits(plan.value)
          /\ Stage(plan, ReplacesRoot(writes), FALSE) \/ Stage(plan, ReplacesRoot(plan.ops), TRUE)
          /\ UNCHANGED <<mapVars, saved, queue, stage, listenerVars, restored>>
      BY <1>4 DEF PrepareBatch, PrepareDetached, plan
    <3>2. ReplacesRoot(writes) \in BOOLEAN /\ ReplacesRoot(plan.ops) \in BOOLEAN BY DEF ReplacesRoot
    <3>5. RootsShow /\ ReplacesRoot(writes) => ReplacesRoot(plan.ops) BY <1>1, <2>1 DEF RootsShow, plan
    <3> HIDE DEF ReplacesRoot
    <3>3. CASE Stage(plan, ReplacesRoot(writes), FALSE)
      <4>1. Prepares(plan.value, plan.ops, ReplacesRoot(writes), FALSE) BY <2>2, <3>1, <3>2, <3>3, <3>5 DEF Prepares, Stage
      <4> QED BY <3>2, <4>1
    <3>4. CASE Stage(plan, ReplacesRoot(plan.ops), TRUE)
      <4>1. Prepares(plan.value, plan.ops, ReplacesRoot(plan.ops), TRUE) BY <2>2, <3>1, <3>2, <3>4 DEF Prepares, Stage
      <4> QED BY <3>2, <4>1
    <3> QED BY <3>1, <3>3, <3>4
  <2> HIDE DEF plan
  <2> QED BY <2>3
<1>5. ASSUME NEW next \in Roots, Apply(next)
      PROVE \E ops, replacesRoot, follows : Installs(next, ops, replacesRoot, follows)
  <2> DEFINE writes == <<[kind |-> "root", key |-> None, to |-> None, val |-> next]>>
             plan == plan_write_ops_with_identity(value, quids, writes)
  <2>1. next \in Root BY LiveMapAssumption
  <2>2. /\ writes \in Seq(Operation) /\ plan.ok /\ plan.value = next
        /\ plan.ops # <<>> => ReplacesRoot(plan.ops)
    BY <1>1, <2>1, RootPlan
  <2>3. plan.ops # <<>> BY <1>5 DEF Apply
  <2> HIDE DEF writes
  <2>4. Commits(value, quids, plan.value, plan.ops) BY <1>1, <2>2, <2>3, PlanCommits
  <2>5. Commits(value, quids, next, plan.ops) BY <2>2, <2>4
  <2>6. /\ CallerRuns /\ SchemaAdmits(next)
        /\ InstallCommit(next, plan.ops, TRUE, FALSE)
        /\ Invalidate
        /\ UNCHANGED <<schema, saved, stage, listenerVars, restored>>
    BY <1>5 DEF Apply, writes
  <2> HIDE DEF plan
  <2>7. Installs(next, plan.ops, TRUE, FALSE) BY <2>2, <2>3, <2>5, <2>6 DEF Installs, plan
  <2> QED BY <2>7
<1>6. ASSUME Accept
      PROVE \E next, ops, replacesRoot, follows : Installs(next, ops, replacesRoot, follows)
  <2>1. staged # None /\ staged.fresh BY <1>6 DEF Accept, StillCurrent
  <2>2. /\ Commits(value, quids, staged.next, staged.ops)
        /\ SchemaAdmits(staged.next)
        /\ RootsShow /\ staged.replacesRoot => ReplacesRoot(staged.ops)
    BY <2>1 DEF CoreInv, StagedOK, SchemaAdmits
  <2>3. staged.detached \in BOOLEAN BY <2>1 DEF CoreInv, StagedOK, Transition
  <2>4. Installs(staged.next, staged.ops, staged.replacesRoot, staged.detached)
    BY <1>6, <2>2, <2>3 DEF Accept, Installs
  <2> QED BY <2>4
<1>7. CASE Next
  <2>1. CASE Publish BY <2>1
  <2>2. CASE Caller
    <3> HIDE DEF Installs, Prepares
    <3> QED BY <2>2, <1>3, <1>4, <1>5, <1>6 DEF Caller
  <2> QED BY <1>7, <2>1, <2>2 DEF Next
<1> QED BY <1>7

(* A call is counted, and the bound holds. *)
LEMMA CallCounts ==
  ASSUME calls \in 0..MaxCalls, CallerRuns
  PROVE calls' = calls + 1 /\ calls' \in 0..MaxCalls
BY LiveMapAssumption DEF CallerRuns

(* The map keeps its identities on its value, on its ledger and its value in the schema. *)
LEMMA MapStep ==
  ASSUME CoreInv, [Next]_vars
  PROVE MapOK'
<1>1. /\ value \in Root /\ quids \in Overlay /\ issued \subseteq Quid /\ schema \in BOOLEAN
      /\ calls \in 0..MaxCalls /\ rev \in 0..calls /\ epoch \in 0..calls
      /\ Coherent(value, quids) /\ Active(quids) \subseteq issued
      /\ schema => value \in Valid
  BY DEF CoreInv, MapOK
<1>2. ASSUME NEW next, NEW ops, NEW replacesRoot, NEW follows,
             Installs(next, ops, replacesRoot, follows)
      PROVE MapOK'
  <2>1. next \in Root /\ ops \in Seq(Operation) /\ Coherent(next, reconcile_overlay(quids, ops))
    BY <1>2 DEF Installs, Commits
  <2>2. /\ value' = next /\ quids' = reconcile_overlay(quids, ops) /\ rev' = rev + 1
        /\ \/ epoch' = epoch + 1 /\ issued' = Active(quids')
           \/ issued' = issued \cup Active(quids') /\ epoch' = epoch
        /\ schema' = schema /\ CallerRuns /\ SchemaAdmits(next)
    BY <1>2 DEF Installs, InstallCommit
  <2>3. quids' \in Overlay /\ Active(quids') \subseteq Active(quids) BY <1>1, <2>1, <2>2, OverlayType
  <2>4. issued' \subseteq Quid /\ Active(quids') \subseteq issued' BY <1>1, <2>2, <2>3
  <2>5. calls' = calls + 1 /\ calls' \in 0..MaxCalls BY <1>1, <2>2, CallCounts
  <2>6. rev' \in 0..calls' /\ epoch' \in 0..calls' BY <1>1, <2>2, <2>5
  <2>7. schema' => value' \in Valid BY <2>2 DEF SchemaAdmits
  <2>8. Coherent(value', quids') BY <2>1, <2>2
  <2> QED BY <1>1, <2>1, <2>2, <2>3, <2>4, <2>5, <2>6, <2>7, <2>8 DEF MapOK, Coherent
<1>3. ASSUME NEW k \in Key, EnsureQuid(k) PROVE MapOK'
  <2>1. PICK q \in Quid \ (issued \cup Active(quids)) :
          quids' = [quids EXCEPT ![k] = q] /\ issued' = issued \cup {q}
    BY <1>3 DEF EnsureQuid
  <2>2. /\ CallerRuns /\ value[k] # Absent /\ quids[k] = NoQuid
        /\ rev' = rev + 1 /\ value' = value /\ epoch' = epoch /\ schema' = schema
    BY <1>3 DEF EnsureQuid
  <2>3. quids' \in Overlay BY <1>1, <2>1 DEF Overlay
  <2>4. Coherent(value', quids')
    BY <1>1, <2>1, <2>2 DEF Coherent, Overlay, Active
  <2>5. issued' \subseteq Quid /\ Active(quids') \subseteq issued'
    BY <1>1, <2>1 DEF Active, Overlay
  <2>6. calls' = calls + 1 /\ calls' \in 0..MaxCalls BY <1>1, <2>2, CallCounts
  <2>7. rev' \in 0..calls' /\ epoch' \in 0..calls' BY <1>1, <2>2, <2>6
  <2> QED BY <1>1, <2>2, <2>3, <2>4, <2>5, <2>6, <2>7 DEF MapOK, Coherent
<1>4. ASSUME NEW policy, Restore(policy) PROVE MapOK'
  <2>1. /\ CallerRuns /\ saved # None /\ SchemaAdmits(saved.value)
        /\ value' = saved.value /\ rev' = saved.rev /\ schema' = schema
        /\ quids' = [k \in Key |-> NoQuid] \/ quids' = saved.quids
        /\ \/ /\ policy = "same-epoch" /\ saved.epoch = epoch /\ issued' = issued /\ epoch' = epoch
              /\ quids' = saved.quids
           \/ issued' = Active(quids') /\ epoch' = epoch + 1
    BY <1>4 DEF Restore
  <2>2. /\ saved.value \in Root /\ saved.quids \in Overlay /\ saved.rev \in Nat /\ saved.rev <= calls
        /\ Coherent(saved.value, saved.quids)
        /\ saved.epoch = epoch => Active(saved.quids) \subseteq issued
    BY <2>1 DEF CoreInv, SavedOK
  <2>3. [k \in Key |-> NoQuid] \in Overlay /\ Coherent(value', [k \in Key |-> NoQuid]) BY DEF Overlay, Coherent
  <2>4. quids' \in Overlay /\ Coherent(value', quids') BY <2>1, <2>2, <2>3
  <2>5. Active(quids') \subseteq Quid BY <2>4 DEF Active, Overlay
  <2>6. issued' \subseteq Quid /\ Active(quids') \subseteq issued' BY <1>1, <2>1, <2>2, <2>5
  <2>7. calls' = calls + 1 /\ calls' \in 0..MaxCalls BY <1>1, <2>1, CallCounts
  <2>8. rev' \in 0..calls' /\ epoch' \in 0..calls' BY <1>1, <2>1, <2>2, <2>7
  <2>9. schema' => value' \in Valid BY <2>1 DEF SchemaAdmits
  <2> QED BY <1>1, <2>1, <2>2, <2>4, <2>6, <2>7, <2>8, <2>9 DEF MapOK, Coherent
<1>5. CASE UseSchema
  <2>1. calls' = calls + 1 /\ calls' \in 0..MaxCalls BY <1>1, <1>5, CallCounts DEF UseSchema
  <2>2. rev' \in 0..calls' /\ epoch' \in 0..calls' BY <1>1, <1>5, <2>1 DEF UseSchema
  <2> QED BY <1>1, <1>5, <2>1, <2>2 DEF UseSchema, MapOK, Coherent
<1>6. ASSUME CallerRuns, UNCHANGED mapVars PROVE MapOK'
  <2>1. calls' = calls + 1 /\ calls' \in 0..MaxCalls BY <1>1, <1>6, CallCounts
  <2>2. rev' \in 0..calls' /\ epoch' \in 0..calls' BY <1>1, <1>6, <2>1 DEF mapVars
  <2> QED BY <1>1, <1>6, <2>1, <2>2 DEF MapOK, mapVars, Coherent
<1>7. ASSUME UNCHANGED <<mapVars, calls>> PROVE MapOK'
  BY <1>1, <1>7 DEF MapOK, mapVars, Coherent
<1>8. ASSUME NEW next, NEW ops, NEW replacesRoot, NEW detached,
             Prepares(next, ops, replacesRoot, detached) PROVE MapOK'
  BY <1>6, <1>8 DEF Prepares
<1>9. CASE Discard BY <1>6, <1>9 DEF Discard
<1>10. ASSUME NEW same, Capture(same) PROVE MapOK' BY <1>6, <1>10 DEF Capture
<1>11. CASE Publish
  <2>1. UNCHANGED <<mapVars, calls>>
    BY <1>11 DEF Publish, EmitWatch, WatchesDone, EmitLink, EmitFeed, EmitStore, EmitObserver,
                 ListenerReturns, WatchThrows, FeedThrows
  <2> QED BY <1>7, <2>1
<1>12. CASE UNCHANGED vars BY <1>7, <1>12 DEF vars
<1> QED BY <1>2, <1>3, <1>4, <1>5, <1>8, <1>9, <1>10, <1>11, <1>12, StepKinds

(* What is invalidated is not fresh any more. *)
LEMMA Invalidated ==
  ASSUME StagedOK, Invalidate
  PROVE staged' # None => staged' \in Transition /\ ~staged'.fresh
<1>1. CASE staged = None BY <1>1 DEF Invalidate
<1>2. CASE staged # None
  <2>1. staged \in Transition BY <1>2 DEF StagedOK
  <2>2. staged' = [staged EXCEPT !.fresh = FALSE] BY <1>2 DEF Invalidate
  <2> QED BY <2>1, <2>2 DEF Transition
<1> QED BY <1>1, <1>2

(* A fresh transition lies on the map it was prepared on. *)
LEMMA StagedStep ==
  ASSUME CoreInv, [Next]_vars
  PROVE StagedOK'
<1>1. StagedOK BY DEF CoreInv
<1>2. ASSUME staged' = None \/ Invalidate PROVE StagedOK'
  <2>1. staged' # None => staged' \in Transition /\ ~staged'.fresh BY <1>1, <1>2, Invalidated
  <2> QED BY <2>1 DEF StagedOK
<1>3. ASSUME NEW next, NEW ops, NEW replacesRoot, NEW follows,
             Installs(next, ops, replacesRoot, follows)
      PROVE StagedOK'
  BY <1>2, <1>3 DEF Installs
<1>4. ASSUME NEW k \in Key, EnsureQuid(k) PROVE StagedOK' BY <1>2, <1>4 DEF EnsureQuid
<1>5. CASE UseSchema BY <1>2, <1>5 DEF UseSchema
<1>6. CASE Discard BY <1>2, <1>6 DEF Discard
<1>7. ASSUME NEW policy, Restore(policy) PROVE StagedOK' BY <1>2, <1>7 DEF Restore
<1>8. ASSUME NEW next, NEW ops, NEW replacesRoot, NEW detached,
             Prepares(next, ops, replacesRoot, detached)
      PROVE StagedOK'
  <2>1. staged' = [next |-> next, ops |-> ops, replacesRoot |-> replacesRoot,
                   base |-> value, baseQuids |-> quids, rev |-> rev, fresh |-> TRUE, detached |-> detached]
    BY <1>8 DEF Prepares
  <2>2. /\ Commits(value, quids, next, ops) /\ SchemaAdmits(next)
        /\ replacesRoot \in BOOLEAN /\ detached \in BOOLEAN /\ UNCHANGED mapVars
    BY <1>8 DEF Prepares
  <2>3. next \in Root /\ ops \in Seq(Operation) BY <2>2 DEF Commits
  <2>4. value \in Root /\ quids \in Overlay /\ rev \in Nat BY DEF CoreInv, MapOK
  <2>5. staged' \in Transition BY <2>1, <2>2, <2>3, <2>4 DEF Transition
  <2>6. value' = value /\ quids' = quids /\ schema' = schema BY <2>2 DEF mapVars
  <2>7. Commits(value', quids', staged'.next, staged'.ops) BY <2>1, <2>2, <2>6
  <2>8. staged'.base = value' /\ staged'.baseQuids = quids' BY <2>1, <2>6
  <2>9. schema' => staged'.next \in Valid BY <2>1, <2>2, <2>6 DEF SchemaAdmits
  <2>10. RootsShow /\ staged'.replacesRoot => ReplacesRoot(staged'.ops) BY <1>8, <2>1 DEF Prepares
  <2> QED BY <2>5, <2>7, <2>8, <2>9, <2>10 DEF StagedOK
<1>9. ASSUME UNCHANGED <<mapVars, staged>> PROVE StagedOK'
  <2>1. value' = value /\ quids' = quids /\ schema' = schema /\ staged' = staged BY <1>9 DEF mapVars
  <2> QED BY <1>1, <2>1 DEF StagedOK
<1>10. ASSUME NEW same, Capture(same) PROVE StagedOK' BY <1>9, <1>10 DEF Capture
<1>11. CASE Publish
  <2>1. UNCHANGED <<mapVars, staged>>
    BY <1>11 DEF Publish, EmitWatch, WatchesDone, EmitLink, EmitFeed, EmitStore, EmitObserver,
                 ListenerReturns, WatchThrows, FeedThrows
  <2> QED BY <1>9, <2>1
<1>12. CASE UNCHANGED vars BY <1>9, <1>12 DEF vars
<1> QED BY <1>3, <1>4, <1>5, <1>6, <1>7, <1>8, <1>10, <1>11, <1>12, StepKinds

(* A capture stays coherent, on its ledger, and behind the map it was made of. *)
LEMMA SavedStep ==
  ASSUME CoreInv, [Next]_vars
  PROVE SavedOK'
<1>1. /\ SavedOK /\ value \in Root /\ quids \in Overlay /\ calls \in Nat /\ rev \in 0..calls /\ epoch \in Nat
      /\ Coherent(value, quids) /\ Active(quids) \subseteq issued
  BY DEF CoreInv, MapOK
<1> DEFINE Held == /\ UNCHANGED <<saved, restored>>
                   /\ calls' \in Nat /\ calls' >= calls
                   /\ \/ epoch' = epoch /\ issued \subseteq issued'
                      \/ epoch' = epoch + 1
                   /\ \/ rev' = rev /\ value' = value
                      \/ rev' = rev + 1
<1>2. ASSUME Held PROVE SavedOK'
  <2> SUFFICES ASSUME saved' # None
               PROVE /\ saved' \in [value : Root, quids : Overlay, rev : Nat, epoch : Nat, same : BOOLEAN]
                     /\ saved'.rev <= calls' /\ saved'.epoch <= epoch'
                     /\ Coherent(saved'.value, saved'.quids)
                     /\ saved'.epoch = epoch' => Active(saved'.quids) \subseteq issued'
                     /\ ~restored' => saved'.rev <= rev' /\ (saved'.rev = rev' => saved'.value = value')
    BY DEF SavedOK
  <2>1. saved' = saved /\ restored' = restored BY <1>2
  <2>2. /\ saved \in [value : Root, quids : Overlay, rev : Nat, epoch : Nat, same : BOOLEAN]
        /\ saved.rev <= calls /\ saved.epoch <= epoch
        /\ Coherent(saved.value, saved.quids)
        /\ saved.epoch = epoch => Active(saved.quids) \subseteq issued
        /\ ~restored => saved.rev <= rev /\ (saved.rev = rev => saved.value = value)
    BY <1>1, <2>1 DEF SavedOK
  <2>3. saved.rev \in Nat /\ saved.epoch \in Nat BY <2>2
  <2>4. saved.rev <= calls' /\ saved.epoch <= epoch' BY <1>1, <1>2, <2>2, <2>3
  <2>5. saved.epoch = epoch' => Active(saved.quids) \subseteq issued'
    <3>1. CASE epoch' = epoch /\ issued \subseteq issued' BY <2>2, <3>1
    <3>2. CASE epoch' = epoch + 1
      <4>1. saved.epoch # epoch' BY <1>1, <2>2, <2>3, <3>2
      <4> QED BY <4>1
    <3> QED BY <1>2, <3>1, <3>2
  <2>6. ~restored => saved.rev <= rev' /\ (saved.rev = rev' => saved.value = value')
    <3>1. CASE rev' = rev /\ value' = value BY <2>2, <3>1
    <3>2. CASE rev' = rev + 1 BY <1>1, <2>2, <2>3, <3>2
    <3> QED BY <1>2, <3>1, <3>2
  <2> QED BY <2>1, <2>2, <2>4, <2>5, <2>6
<1>3. ASSUME NEW next, NEW ops, NEW replacesRoot, NEW follows,
             Installs(next, ops, replacesRoot, follows)
      PROVE SavedOK'
  <2>1. /\ UNCHANGED <<saved, restored>> /\ calls' = calls + 1
        /\ rev' = rev + 1
        /\ epoch' = epoch + 1 \/ (epoch' = epoch /\ issued' = issued \cup Active(quids'))
    BY <1>3 DEF Installs, InstallCommit, CallerRuns
  <2> QED BY <1>1, <1>2, <2>1
<1>4. ASSUME NEW k \in Key, EnsureQuid(k) PROVE SavedOK'
  <2>1. \E q : issued' = issued \cup {q} BY <1>4 DEF EnsureQuid
  <2>2. UNCHANGED <<saved, restored, epoch>> /\ calls' = calls + 1 /\ rev' = rev + 1
    BY <1>4 DEF EnsureQuid, CallerRuns
  <2> QED BY <1>1, <1>2, <2>1, <2>2
<1>5. ASSUME CallerRuns \/ calls' = calls, UNCHANGED <<value, rev, issued, epoch, saved, restored>> PROVE SavedOK'
  <2>1. calls' = calls \/ calls' = calls + 1 BY <1>5 DEF CallerRuns
  <2> QED BY <1>1, <1>2, <1>5, <2>1
<1>6. CASE UseSchema BY <1>5, <1>6 DEF UseSchema
<1>7. CASE Discard BY <1>5, <1>7 DEF Discard, mapVars
<1>8. ASSUME NEW next, NEW ops, NEW replacesRoot, NEW detached,
             Prepares(next, ops, replacesRoot, detached)
      PROVE SavedOK'
  BY <1>5, <1>8 DEF Prepares, mapVars
<1>9. ASSUME NEW same \in BOOLEAN, Capture(same) PROVE SavedOK'
  <2>1. /\ saved' = [value |-> value, quids |-> quids, rev |-> rev, epoch |-> epoch, same |-> same]
        /\ UNCHANGED <<value, quids, rev, issued, epoch>> /\ calls' = calls + 1
    BY <1>9 DEF Capture, mapVars, CallerRuns
  <2>2. /\ saved'.value = value /\ saved'.quids = quids /\ saved'.rev = rev /\ saved'.epoch = epoch
        /\ saved' \in [value : Root, quids : Overlay, rev : Nat, epoch : Nat, same : BOOLEAN]
    BY <1>1, <2>1
  <2>3. rev <= calls' BY <1>1, <2>1
  <2> QED BY <1>1, <2>1, <2>2, <2>3 DEF SavedOK
<1>10. ASSUME NEW policy, Restore(policy) PROVE SavedOK'
  <2>1. /\ saved' = saved /\ saved # None /\ restored' = TRUE /\ calls' = calls + 1
        /\ \/ epoch' = epoch /\ issued' = issued
           \/ epoch' = epoch + 1
    BY <1>10 DEF Restore, CallerRuns
  <2>2. /\ saved \in [value : Root, quids : Overlay, rev : Nat, epoch : Nat, same : BOOLEAN]
        /\ saved.rev <= calls /\ saved.epoch <= epoch
        /\ Coherent(saved.value, saved.quids)
        /\ saved.epoch = epoch => Active(saved.quids) \subseteq issued
    BY <1>1, <2>1 DEF SavedOK
  <2>3. saved.rev \in Nat /\ saved.epoch \in Nat BY <2>2
  <2>4. saved.rev <= calls' /\ saved.epoch <= epoch' BY <1>1, <2>1, <2>2, <2>3
  <2>5. saved.epoch = epoch' => Active(saved.quids) \subseteq issued'
    <3>1. CASE epoch' = epoch /\ issued' = issued BY <2>2, <3>1
    <3>2. CASE epoch' = epoch + 1
      <4>1. saved.epoch # epoch' BY <1>1, <2>2, <2>3, <3>2
      <4> QED BY <4>1
    <3> QED BY <2>1, <3>1, <3>2
  <2> QED BY <2>1, <2>2, <2>4, <2>5 DEF SavedOK
<1>11. CASE Publish
  <2>1. UNCHANGED <<mapVars, saved, restored, calls>>
    BY <1>11 DEF Publish, EmitWatch, WatchesDone, EmitLink, EmitFeed, EmitStore, EmitObserver,
                 ListenerReturns, WatchThrows, FeedThrows
  <2> QED BY <1>5, <2>1 DEF mapVars
<1>12. CASE UNCHANGED vars BY <1>5, <1>12 DEF vars, mapVars
<1> QED BY <1>3, <1>4, <1>6, <1>7, <1>8, <1>9, <1>10, <1>11, <1>12, StepKinds

(* The place of NoCall. *)
LEMMA NoCallPlace == NoCall \in [phase : Phases, i : Nat \ {0}, call : BOOLEAN] /\ NoCall.phase = "watch"
BY DEF NoCall, Phases

(* A publication is queued behind the others. *)
LEMMA PlaceEnqueue ==
  ASSUME PlaceOK, NEW e \in Publication, e.kind = "identity" => Len(e.commit.ops) = 1,
         ~restored' => e.kind # "snapshot" /\ e.frozen = None,
         queue' = Append(queue, e), UNCHANGED <<stage, restored>>
  PROVE PlaceOK'
<1>1. /\ queue \in Seq(Publication) /\ Len(queue) \in Nat
      /\ stage \in [phase : Phases, i : Nat \ {0}, call : BOOLEAN]
  BY DEF PlaceOK
<1>2. /\ queue' \in Seq(Publication) /\ queue' # <<>> /\ Len(queue') = Len(queue) + 1
      /\ \A m \in 1..Len(queue) : queue'[m] = queue[m]
      /\ queue'[Len(queue) + 1] = e
  BY <1>1
<1>3. \A m \in 1..Len(queue') : m \in 1..Len(queue) \/ m = Len(queue) + 1 BY <1>1, <1>2
<1>4. stage'.phase \in {"link", "feed", "store"} => queue'[1].kind = "commit"
  <2>1. CASE queue = <<>>
    <3>1. stage'.phase = "watch" BY <2>1, NoCallPlace DEF PlaceOK
    <3> QED BY <3>1
  <2>2. CASE queue # <<>>
    <3>1. 1 \in 1..Len(queue) BY <1>1, <2>2
    <3>2. queue'[1] = queue[1] BY <1>2, <3>1
    <3> QED BY <3>2 DEF PlaceOK
  <2> QED BY <2>1, <2>2
<1>5. \A m \in 1..Len(queue') : queue'[m].kind = "identity" => Len(queue'[m].commit.ops) = 1
  BY <1>2, <1>3 DEF PlaceOK
<1>6. ~restored' => \A m \in 1..Len(queue') : queue'[m].kind # "snapshot" /\ queue'[m].frozen = None
  BY <1>2, <1>3 DEF PlaceOK
<1> QED BY <1>1, <1>2, <1>4, <1>5, <1>6 DEF PlaceOK

(* The first publication is over. *)
LEMMA PlaceEnd ==
  ASSUME PlaceOK, ~Idle, EndPublication, UNCHANGED restored
  PROVE PlaceOK'
<1>1. queue \in Seq(Publication) /\ queue # <<>> /\ Len(queue) \in Nat BY DEF PlaceOK, Idle
<1>2. queue' = Tail(queue) /\ stage' = NoCall BY DEF EndPublication
<1>3. /\ queue' \in Seq(Publication) /\ Len(queue') = Len(queue) - 1
      /\ \A m \in 1..Len(queue') : queue'[m] = queue[m + 1] /\ m + 1 \in 1..Len(queue)
  BY <1>1, <1>2
<1>4. stage' \in [phase : Phases, i : Nat \ {0}, call : BOOLEAN] /\ stage'.phase = "watch" BY <1>2, NoCallPlace
<1>5. \A m \in 1..Len(queue') : queue'[m].kind = "identity" => Len(queue'[m].commit.ops) = 1
  BY <1>3 DEF PlaceOK
<1>6. ~restored' => \A m \in 1..Len(queue') : queue'[m].kind # "snapshot" /\ queue'[m].frozen = None
  BY <1>3 DEF PlaceOK
<1>7. restored' \in BOOLEAN BY DEF PlaceOK
<1> QED BY <1>2, <1>3, <1>4, <1>5, <1>6, <1>7 DEF PlaceOK

(* The place in the first publication moves. *)
LEMMA PlaceMove ==
  ASSUME PlaceOK, ~Idle, UNCHANGED <<queue, restored>>,
         stage' \in [phase : Phases, i : Nat \ {0}, call : BOOLEAN],
         stage'.phase \in {"link", "feed", "store"} => queue[1].kind = "commit"
  PROVE PlaceOK'
BY DEF PlaceOK, Idle

(* What a restore freezes keeps its place and its kind. *)
LEMMA Frozen ==
  ASSUME PlaceOK, value \in Root
  PROVE /\ Freeze \in Seq(Publication) /\ Len(Freeze) = Len(queue)
        /\ \A m \in 1..Len(queue) : Freeze[m].kind = queue[m].kind /\ Freeze[m].commit = queue[m].commit
<1>1. queue \in Seq(Publication) /\ Len(queue) \in Nat BY DEF PlaceOK
<1> DEFINE put(m) == IF queue[m].frozen = None /\ ~queue[m].follows
                     THEN [queue[m] EXCEPT !.frozen = value] ELSE queue[m]
<1>2. ASSUME NEW e \in Publication
      PROVE LET f == [e EXCEPT !.frozen = value]
            IN f \in Publication /\ f.kind = e.kind /\ f.commit = e.commit
  BY <1>2 DEF Publication
<1>3. ASSUME NEW m \in 1..Len(queue)
      PROVE put(m) \in Publication /\ put(m).kind = queue[m].kind /\ put(m).commit = queue[m].commit
  <2>1. queue[m] \in Publication BY <1>1
  <2> QED BY <1>2, <2>1
<1> HIDE DEF put
<1>4. Freeze = [m \in 1..Len(queue) |-> put(m)] BY DEF Freeze, put
<1>5. Freeze \in Seq(Publication) /\ Len(Freeze) = Len(queue) BY <1>1, <1>3, <1>4
<1>6. \A m \in 1..Len(queue) : Freeze[m] = put(m) BY <1>4
<1> QED BY <1>3, <1>5, <1>6

(* A commit of the planner is a publication. *)
LEMMA CommitPublication ==
  ASSUME CoreInv, NEW ops \in Seq(Operation), NEW follows \in BOOLEAN
  PROVE [kind |-> "commit",
         commit |-> [prevRev |-> rev, rev |-> rev + 1, ops |-> ops, before |-> value],
         frozen |-> None, follows |-> follows] \in Publication
BY DEF CoreInv, MapOK, Publication

(* The queue and the place in it stay as the code has them. *)
LEMMA PlaceStep ==
  ASSUME CoreInv, [Next]_vars
  PROVE PlaceOK'
<1>1. /\ PlaceOK /\ value \in Root /\ rev \in Nat
      /\ queue \in Seq(Publication)
      /\ stage \in [phase : Phases, i : Nat \ {0}, call : BOOLEAN]
  BY DEF CoreInv, MapOK, PlaceOK
<1>2. ASSUME NEW next, NEW ops, NEW replacesRoot, NEW follows,
             Installs(next, ops, replacesRoot, follows)
      PROVE PlaceOK'
  <2> DEFINE e == [kind |-> "commit",
                   commit |-> [prevRev |-> rev, rev |-> rev + 1, ops |-> ops, before |-> value],
                   frozen |-> None, follows |-> follows]
  <2>1. queue' = Append(queue, e) /\ UNCHANGED <<stage, restored>>
    BY <1>2 DEF Installs, InstallCommit, Enqueue
  <2>2. ops \in Seq(Operation) BY <1>2 DEF Installs, Commits
  <2>3. follows \in BOOLEAN BY <1>2 DEF Installs
  <2>4. e \in Publication BY <2>2, <2>3, CommitPublication
  <2>5. e.kind = "commit" /\ e.frozen = None OBVIOUS
  <2> HIDE DEF e
  <2> QED BY <1>1, <2>1, <2>4, <2>5, PlaceEnqueue
<1>3. ASSUME NEW k \in Key, EnsureQuid(k) PROVE PlaceOK'
  <2>1. PICK q \in Quid :
          Enqueue("identity", [prevRev |-> rev, rev |-> rev + 1,
                               ops |-> <<[kind |-> "quid", key |-> k, to |-> None, val |-> q]>>], FALSE)
    BY <1>3 DEF EnsureQuid
  <2> DEFINE o == [kind |-> "quid", key |-> k, to |-> None, val |-> q]
             c == [prevRev |-> rev, rev |-> rev + 1, ops |-> <<o>>]
             e == [kind |-> "identity", commit |-> c, frozen |-> None, follows |-> FALSE]
  <2>2. o \in [kind : {"quid"}, key : Key, to : {None}, val : Quid] OBVIOUS
  <2> HIDE DEF o
  <2>3. <<o>> \in Seq([kind : {"quid"}, key : Key, to : {None}, val : Quid]) /\ Len(<<o>>) = 1 BY <2>2
  <2>4. c \in [prevRev : Nat, rev : Nat,
               ops : Seq([kind : {"quid"}, key : Key, to : {None}, val : Quid])] /\ c.ops = <<o>>
    BY <1>1, <2>3
  <2> HIDE DEF c
  <2>5. e \in Publication BY <2>4 DEF Publication
  <2>6. e.kind = "identity" /\ e.frozen = None /\ Len(e.commit.ops) = 1 BY <2>3, <2>4
  <2>7. queue' = Append(queue, e) BY <2>1 DEF Enqueue, e, c, o
  <2>8. UNCHANGED <<stage, restored>> BY <1>3 DEF EnsureQuid
  <2> HIDE DEF e
  <2> QED BY <1>1, <2>5, <2>6, <2>7, <2>8, PlaceEnqueue
<1>4. ASSUME NEW policy, Restore(policy) PROVE PlaceOK'
  <2> DEFINE e == [kind |-> "snapshot", commit |-> None, frozen |-> None, follows |-> TRUE]
  <2>1. queue' = Append(Freeze, e) /\ restored' = TRUE /\ stage' = stage BY <1>4 DEF Restore
  <2>2. /\ Freeze \in Seq(Publication) /\ Len(Freeze) = Len(queue) /\ Len(queue) \in Nat
        /\ \A m \in 1..Len(queue) : Freeze[m].kind = queue[m].kind /\ Freeze[m].commit = queue[m].commit
    BY <1>1, Frozen
  <2>3. e \in Publication /\ e.kind = "snapshot" BY DEF Publication
  <2> HIDE DEF e
  <2> DEFINE z == Freeze
  <2>4. /\ queue' = Append(z, e) /\ z \in Seq(Publication) /\ Len(z) = Len(queue)
        /\ \A m \in 1..Len(queue) : z[m].kind = queue[m].kind /\ z[m].commit = queue[m].commit
    BY <2>1, <2>2
  <2> HIDE DEF z
  <2>5. /\ queue' \in Seq(Publication) /\ queue' # <<>> /\ Len(queue') = Len(queue) + 1
        /\ \A m \in 1..Len(queue) : queue'[m].kind = queue[m].kind /\ queue'[m].commit = queue[m].commit
        /\ queue'[Len(queue) + 1].kind = "snapshot"
    BY <2>2, <2>3, <2>4
  <2>6. \A m \in 1..Len(queue') : m \in 1..Len(queue) \/ m = Len(queue) + 1 BY <2>2, <2>5
  <2>7. stage'.phase \in {"link", "feed", "store"} => queue'[1].kind = "commit"
    <3>1. CASE queue = <<>>
      <4>1. stage'.phase = "watch" BY <1>1, <2>1, <3>1, NoCallPlace DEF PlaceOK
      <4> QED BY <4>1
    <3>2. CASE queue # <<>>
      <4>1. 1 \in 1..Len(queue) BY <1>1, <3>2
      <4>2. queue'[1].kind = queue[1].kind BY <2>5, <4>1
      <4> QED BY <1>1, <2>1, <4>2 DEF PlaceOK
    <3> QED BY <3>1, <3>2
  <2>8. \A m \in 1..Len(queue') : queue'[m].kind = "identity" => Len(queue'[m].commit.ops) = 1
    BY <1>1, <2>5, <2>6 DEF PlaceOK
  <2> QED BY <1>1, <2>1, <2>5, <2>7, <2>8 DEF PlaceOK
<1>5. ASSUME UNCHANGED <<queue, stage, restored>> PROVE PlaceOK'
  BY <1>1, <1>5 DEF PlaceOK
<1>6. CASE UseSchema BY <1>5, <1>6 DEF UseSchema
<1>7. CASE Discard BY <1>5, <1>7 DEF Discard
<1>8. ASSUME NEW next, NEW ops, NEW replacesRoot, NEW detached,
             Prepares(next, ops, replacesRoot, detached)
      PROVE PlaceOK'
  BY <1>5, <1>8 DEF Prepares
<1>9. ASSUME NEW same, Capture(same) PROVE PlaceOK' BY <1>5, <1>9 DEF Capture
<1>10. CASE UNCHANGED vars BY <1>5, <1>10 DEF vars
<1>11. CASE Publish
  <2> DEFINE Moves(phase, i, call) == stage' = [phase |-> phase, i |-> i, call |-> call]
  <2>1. queue # <<>> => queue[1] = Publishing /\ ~Idle BY <1>1 DEF Publishing, Idle
  <2>2. stage.call => ~Idle BY <1>1 DEF PlaceOK, Idle, NoCall
  <2>3. /\ stage.i + 1 \in Nat \ {0} /\ stage.i \in Nat \ {0} /\ stage.phase \in Phases BY <1>1
  <2>4. ASSUME ~Idle, UNCHANGED <<queue, restored>>, NextEntry \/ Calls PROVE PlaceOK'
    <3>1. stage' \in [phase : Phases, i : Nat \ {0}, call : BOOLEAN] /\ stage'.phase = stage.phase
      BY <1>1, <2>3, <2>4 DEF NextEntry, Calls
    <3> QED BY <1>1, <2>4, <3>1, PlaceMove DEF PlaceOK
  <2>5. ASSUME ~Idle, UNCHANGED <<queue, restored>>, NEW phase \in Phases, Goto(phase),
               phase \in {"link", "feed", "store"} => Publishing.kind = "commit"
        PROVE PlaceOK'
    <3>1. stage' \in [phase : Phases, i : Nat \ {0}, call : BOOLEAN] /\ stage'.phase = phase
      BY <2>5 DEF Goto
    <3>2. phase \in {"link", "feed", "store"} => queue[1].kind = "commit" BY <2>1, <2>5 DEF Idle
    <3> QED BY <1>1, <2>5, <3>1, <3>2, PlaceMove
  <2>6. ASSUME ~Idle, stage.phase \in {"link", "feed", "store"} PROVE Publishing.kind = "commit"
    BY <1>1, <2>1, <2>6 DEF PlaceOK, Idle
  <2>7. CASE EmitWatch BY <2>4, <2>7 DEF EmitWatch
  <2>8. CASE WatchesDone BY <2>5, <2>8 DEF WatchesDone, Phases
  <2>9. CASE EmitLink
    <3>1. /\ ~Idle /\ stage.phase = "link" /\ restored' = restored
          /\ \/ Goto("feed") /\ UNCHANGED queue
             \/ EndPublication
      BY <2>9 DEF EmitLink, CutPublication
    <3> QED BY <1>1, <2>5, <2>6, <3>1, PlaceEnd DEF Phases
  <2>10. CASE EmitFeed
    <3>1. /\ ~Idle /\ stage.phase = "feed" /\ UNCHANGED <<queue, restored>>
          /\ Calls \/ Goto("store")
      BY <2>10 DEF EmitFeed
    <3> QED BY <2>4, <2>5, <2>6, <3>1 DEF Phases
  <2>11. CASE EmitStore
    <3>1. /\ ~Idle /\ UNCHANGED <<queue, restored>>
          /\ Calls \/ Goto("observer")
      BY <2>11 DEF EmitStore
    <3> QED BY <2>4, <2>5, <3>1 DEF Phases
  <2>12. CASE EmitObserver BY <1>1, <2>12, PlaceEnd DEF EmitObserver
  <2>13. CASE ListenerReturns BY <2>2, <2>4, <2>13 DEF ListenerReturns
  <2>14. CASE WatchThrows BY <2>2, <2>4, <2>14 DEF WatchThrows
  <2>15. CASE FeedThrows BY <1>1, <2>2, <2>15, PlaceEnd DEF FeedThrows, CutPublication
  <2> QED BY <1>11, <2>7, <2>8, <2>9, <2>10, <2>11, <2>12, <2>13, <2>14, <2>15 DEF Publish
<1> QED BY <1>2, <1>3, <1>4, <1>6, <1>7, <1>8, <1>9, <1>10, <1>11, StepKinds

-----------------------------------------------------------------------------
(* What listeners are still to be shown.                                   *)

(* Publications queued behind do not take the place of the ones before. *)
LEMMA AwaitsBehind ==
  ASSUME NEW S, NEW q \in Seq(S), NEW e, NEW k, NEW ahead \in BOOLEAN, NEW ahead2 \in BOOLEAN
  PROVE /\ Awaits(q, k, ahead) /\ (ahead => ahead2) => Awaits(Append(q, e), k, ahead2)
        /\ Bears(e, k) /\ (q = <<>> => ahead2) => Awaits(Append(q, e), k, ahead2)
<1> DEFINE z == Append(q, e)
<1>1. /\ Len(q) \in Nat /\ Len(z) = Len(q) + 1 /\ z[Len(q) + 1] = e
      /\ \A m \in 1..Len(q) : z[m] = q[m]
      /\ q = <<>> <=> Len(q) = 0
  OBVIOUS
<1> HIDE DEF z, Bears
<1>2. ASSUME Awaits(q, k, ahead), ahead => ahead2 PROVE Awaits(z, k, ahead2)
  <2>1. PICK m \in 1..Len(q) : Bears(q[m], k) /\ (m = 1 => ahead) BY <1>2 DEF Awaits
  <2>2. m \in 1..Len(z) /\ z[m] = q[m] BY <1>1
  <2>3. Bears(z[m], k) /\ (m = 1 => ahead2) BY <1>2, <2>1, <2>2
  <2> QED BY <2>2, <2>3 DEF Awaits
<1>3. ASSUME Bears(e, k), q = <<>> => ahead2 PROVE Awaits(z, k, ahead2)
  <2> DEFINE m == Len(q) + 1
  <2>1. m \in 1..Len(z) /\ z[m] = e BY <1>1
  <2>2. m = 1 => ahead2 BY <1>1, <1>3
  <2>3. Bears(z[m], k) BY <1>3, <2>1
  <2> HIDE DEF m
  <2> QED BY <2>1, <2>2, <2>3 DEF Awaits
<1> QED BY <1>2, <1>3 DEF z

(* The next publication has been seen by nobody. *)
LEMMA AwaitsNext ==
  ASSUME NEW S, NEW q \in Seq(S), q # <<>>, NEW k, Awaits(q, k, FALSE)
  PROVE Awaits(Tail(q), k, TRUE)
<1> DEFINE z == Tail(q)
<1>1. /\ Len(q) \in Nat /\ Len(z) = Len(q) - 1
      /\ \A m \in 1..Len(z) : z[m] = q[m + 1]
  OBVIOUS
<1> HIDE DEF z, Bears
<1>2. PICK m \in 1..Len(q) : Bears(q[m], k) /\ (m = 1 => FALSE) BY DEF Awaits
<1>3. m - 1 \in 1..Len(z) /\ m - 1 + 1 = m BY <1>1, <1>2
<1>4. z[m - 1] = q[m] BY <1>1, <1>3
<1>5. Bears(z[m - 1], k) BY <1>2, <1>4
<1>6. Awaits(z, k, TRUE) BY <1>3, <1>5 DEF Awaits
<1> QED BY <1>6 DEF z

(* What does not bear on a listener is passed without loss. *)
LEMMA AwaitsPast ==
  ASSUME NEW q, NEW k, NEW ahead \in BOOLEAN, Awaits(q, k, ahead), ~Bears(q[1], k) \/ ~ahead
  PROVE Awaits(q, k, FALSE)
BY Zenon DEF Awaits

LEMMA AwaitsSame ==
  ASSUME NEW q, NEW k, NEW ahead \in BOOLEAN, NEW ahead2 \in BOOLEAN,
         Awaits(q, k, ahead), ahead => ahead2
  PROVE Awaits(q, k, ahead2)
BY Zenon DEF Awaits

(* A restore takes nothing out of the queue. *)
LEMMA AwaitsFrozen ==
  ASSUME PlaceOK, value \in Root, NEW k, NEW ahead, Awaits(queue, k, ahead)
  PROVE Awaits(Freeze, k, ahead)
<1>1. /\ Len(Freeze) = Len(queue)
      /\ \A m \in 1..Len(queue) : Freeze[m].kind = queue[m].kind /\ Freeze[m].commit = queue[m].commit
  BY Frozen
<1>2. PICK m \in 1..Len(queue) : Bears(queue[m], k) /\ (m = 1 => ahead) BY DEF Awaits
<1> DEFINE z == Freeze
<1>3. /\ Len(z) = Len(queue) /\ z[m].kind = queue[m].kind /\ z[m].commit = queue[m].commit BY <1>1
<1> HIDE DEF z
<1>4. Bears(z[m], k) BY <1>2, <1>3 DEF Bears
<1>5. Awaits(z, k, ahead) BY <1>2, <1>3, <1>4 DEF Awaits
<1> QED BY <1>5 DEF z

(* A commit bears on every path it changes. *)
LEMMA CommitBears ==
  ASSUME NEW next, NEW ops, NEW replacesRoot, NEW follows,
         Installs(next, ops, replacesRoot, follows)
  PROVE \E e : /\ queue' = Append(queue, e)
               /\ e.kind = "commit" /\ e.commit.ops = ops /\ e.frozen = None
               /\ \A k \in Key : value'[k] # value[k] => Bears(e, k)
<1> DEFINE e == [kind |-> "commit",
                 commit |-> [prevRev |-> rev, rev |-> rev + 1, ops |-> ops, before |-> value],
                 frozen |-> None, follows |-> follows]
<1>1. queue' = Append(queue, e) /\ value' = next BY DEF Installs, InstallCommit, Enqueue
<1>2. e.kind = "commit" /\ e.commit.ops = ops /\ e.frozen = None OBVIOUS
<1>3. \A k \in Key : Touches(ops, k) = {} => next[k] = value[k] BY DEF Installs, Commits
<1> HIDE DEF e
<1>4. \A k \in Key : value'[k] # value[k] => Bears(e, k) BY <1>1, <1>2, <1>3 DEF Bears
<1> QED BY <1>1, <1>2, <1>4

(* A registration of an identity changes no value. *)
LEMMA IdentityBears ==
  ASSUME NEW k \in Key, EnsureQuid(k)
  PROVE value' = value /\ \E e : queue' = Append(queue, e) /\ e.kind = "identity" /\ e.frozen = None
<1>1. PICK q \in Quid :
        Enqueue("identity", [prevRev |-> rev, rev |-> rev + 1,
                             ops |-> <<[kind |-> "quid", key |-> k, to |-> None, val |-> q]>>], FALSE)
  BY DEF EnsureQuid
<1> DEFINE c == [prevRev |-> rev, rev |-> rev + 1,
                 ops |-> <<[kind |-> "quid", key |-> k, to |-> None, val |-> q]>>]
           e == [kind |-> "identity", commit |-> c, frozen |-> None, follows |-> FALSE]
<1>2. queue' = Append(queue, e) BY <1>1 DEF Enqueue
<1> HIDE DEF c
<1>3. e.kind = "identity" /\ e.frozen = None OBVIOUS
<1> HIDE DEF e
<1> QED BY <1>2, <1>3 DEF EnsureQuid

-----------------------------------------------------------------------------
(* Watches.                                                                *)

(* Nobody has been called yet in a publication that starts. *)
LEMMA NothingPassed ==
  ASSUME stage = NoCall
  PROVE /\ \A i \in 1..Len(Watches) : BeforeWatch(i)
        /\ BeforeLink /\ BeforeFeed /\ BeforeStore
<1>1. Len(Watches) \in Nat BY LiveMapAssumption
<1>2. stage.phase = "watch" /\ stage.i = 1 /\ stage.call = FALSE BY DEF NoCall
<1>3. \A i \in 1..Len(Watches) : 1 < i \/ 1 = i BY <1>1
<1> QED BY <1>2, <1>3 DEF BeforeWatch, BeforeLink, BeforeFeed, BeforeStore

LEMMA NothingPassedNext ==
  ASSUME stage' = NoCall
  PROVE /\ \A i \in 1..Len(Watches) : BeforeWatch(i)'
        /\ BeforeLink' /\ BeforeFeed' /\ BeforeStore'
<1>1. Len(Watches) \in Nat BY LiveMapAssumption
<1>2. stage'.phase = "watch" /\ stage'.i = 1 /\ stage'.call = FALSE BY DEF NoCall
<1>3. \A i \in 1..Len(Watches) : 1 < i \/ 1 = i BY <1>1
<1> QED BY <1>2, <1>3 DEF BeforeWatch, BeforeLink, BeforeFeed, BeforeStore

(* What each watch listener was told last is what its path has, or a          *)
(* publication it has not been shown bears on its path.                       *)
LEMMA WatchesStep ==
  ASSUME CoreInv, [Next]_vars
  PROVE WatchesOK'
<1>1. /\ PlaceOK /\ value \in Root /\ queue \in Seq(Publication)
      /\ previous \in Root /\ told = previous
      /\ stage \in [phase : Phases, i : Nat \ {0}, call : BOOLEAN]
      /\ \A i \in 1..Len(Watches) :
           previous[Watches[i]] = value[Watches[i]] \/ Awaits(queue, Watches[i], BeforeWatch(i))
  BY DEF CoreInv, MapOK, PlaceOK, WatchesOK
<1>2. /\ Len(Watches) \in Nat /\ \A i \in 1..Len(Watches) : Watches[i] \in Key
  BY LiveMapAssumption
<1>0. queue \in Seq(Publication) BY <1>1
<1>3. \A i : BeforeWatch(i) \in BOOLEAN /\ BeforeWatch(i)' \in BOOLEAN BY DEF BeforeWatch
<1>4. ASSUME UNCHANGED <<previous, told>>,
             \A i \in 1..Len(Watches) :
               previous[Watches[i]] = value'[Watches[i]] \/ Awaits(queue', Watches[i], BeforeWatch(i)')
      PROVE WatchesOK'
  BY <1>1, <1>4 DEF WatchesOK
<1>5. ASSUME UNCHANGED stage PROVE \A i : BeforeWatch(i)' = BeforeWatch(i)
  BY <1>5 DEF BeforeWatch
<1>6. queue = <<>> => \A i \in 1..Len(Watches) : BeforeWatch(i)
  BY <1>1, NothingPassed DEF PlaceOK
<1>7. ASSUME NEW next, NEW ops, NEW replacesRoot, NEW follows,
             Installs(next, ops, replacesRoot, follows)
      PROVE WatchesOK'
  <2>1. PICK e : /\ queue' = Append(queue, e)
                 /\ \A k \in Key : value'[k] # value[k] => Bears(e, k)
    BY <1>7, CommitBears
  <2>2. UNCHANGED <<stage, previous, told>> BY <1>7 DEF Installs, listenerVars
  <2>3. ASSUME NEW i \in 1..Len(Watches)
        PROVE previous[Watches[i]] = value'[Watches[i]] \/ Awaits(queue', Watches[i], BeforeWatch(i)')
    <3> DEFINE k == Watches[i]
    <3>1. k \in Key /\ BeforeWatch(i) \in BOOLEAN BY <1>2, <1>3
    <3>2. BeforeWatch(i)' = BeforeWatch(i) /\ (queue = <<>> => BeforeWatch(i)) BY <1>5, <1>6, <2>2
    <3>3. previous[k] = value[k] \/ Awaits(queue, k, BeforeWatch(i)) BY <1>1
    <3> DEFINE b == BeforeWatch(i)
    <3>7. b \in BOOLEAN /\ (queue = <<>> => b) BY <3>1, <3>2
    <3> HIDE DEF k, b
    <3>4. CASE Awaits(queue, k, BeforeWatch(i))
      <4>0. Awaits(queue, k, b) BY <3>4 DEF b
      <4>1. Awaits(Append(queue, e), k, b) BY <1>0, <3>7, <4>0, AwaitsBehind
      <4> QED BY <2>1, <3>2, <4>1 DEF k, b
    <3>5. CASE previous[k] = value[k] /\ value'[k] = value[k] BY <3>5 DEF k
    <3>6. CASE previous[k] = value[k] /\ value'[k] # value[k]
      <4>1. Bears(e, k) BY <2>1, <3>1, <3>6
      <4>2. Awaits(Append(queue, e), k, b) BY <1>0, <3>7, <4>1, AwaitsBehind
      <4> QED BY <2>1, <3>2, <4>2 DEF k, b
    <3> QED BY <3>3, <3>4, <3>5, <3>6
  <2> QED BY <1>4, <2>2, <2>3
<1>8. ASSUME NEW k \in Key, EnsureQuid(k) PROVE WatchesOK'
  <2>1. value' = value /\ \E e : queue' = Append(queue, e) BY <1>8, IdentityBears
  <2>2. PICK e : queue' = Append(queue, e) BY <2>1
  <2>3. UNCHANGED <<stage, previous, told>> BY <1>8 DEF EnsureQuid, listenerVars
  <2>4. ASSUME NEW i \in 1..Len(Watches)
        PROVE previous[Watches[i]] = value'[Watches[i]] \/ Awaits(queue', Watches[i], BeforeWatch(i)')
    <3>1. previous[Watches[i]] = value[Watches[i]] \/ Awaits(queue, Watches[i], BeforeWatch(i)) BY <1>1
    <3>2. BeforeWatch(i)' = BeforeWatch(i) /\ BeforeWatch(i) \in BOOLEAN BY <1>3, <1>5, <2>3
    <3>3. Awaits(queue, Watches[i], BeforeWatch(i)) => Awaits(Append(queue, e), Watches[i], BeforeWatch(i))
      <4> DEFINE b == BeforeWatch(i)
      <4>1. b \in BOOLEAN BY <3>2
      <4> HIDE DEF b
      <4>2. Awaits(queue, Watches[i], b) => Awaits(Append(queue, e), Watches[i], b)
        BY <1>0, <4>1, AwaitsBehind
      <4> QED BY <4>2 DEF b
    <3> QED BY <2>1, <2>2, <3>1, <3>2, <3>3
  <2> QED BY <1>4, <2>3, <2>4
<1>9. ASSUME NEW policy, Restore(policy) PROVE WatchesOK'
  <2> DEFINE e == [kind |-> "snapshot", commit |-> None, frozen |-> None, follows |-> TRUE]
             z == Freeze
  <2>1. queue' = Append(z, e) /\ UNCHANGED <<stage, previous, told>> BY <1>9 DEF Restore, listenerVars
  <2>2. z \in Seq(Publication) /\ Len(z) = Len(queue) BY <1>1, Frozen
  <2>3. \A k : Bears(e, k) BY DEF Bears
  <2> HIDE DEF e, z
  <2>4. ASSUME NEW i \in 1..Len(Watches)
        PROVE Awaits(queue', Watches[i], BeforeWatch(i)')
    <3>1. BeforeWatch(i)' = BeforeWatch(i) /\ BeforeWatch(i) \in BOOLEAN BY <1>3, <1>5, <2>1
    <3>2. z = <<>> => BeforeWatch(i) BY <1>1, <1>6, <2>2
    <3>3. Bears(e, Watches[i]) BY <2>3
    <3>4. Awaits(Append(z, e), Watches[i], BeforeWatch(i)) BY <2>2, <3>1, <3>2, <3>3, AwaitsBehind
    <3> QED BY <2>1, <3>1, <3>4
  <2> QED BY <1>4, <2>1, <2>4
<1>10. ASSUME UNCHANGED <<value, queue, stage, previous, told>> PROVE WatchesOK'
  <2>1. \A i : BeforeWatch(i)' = BeforeWatch(i) BY <1>5, <1>10
  <2>2. \A i \in 1..Len(Watches) :
          previous[Watches[i]] = value'[Watches[i]] \/ Awaits(queue', Watches[i], BeforeWatch(i)')
    BY <1>1, <1>10, <2>1
  <2> QED BY <1>4, <1>10, <2>2
<1>11. CASE UseSchema BY <1>10, <1>11 DEF UseSchema, listenerVars
<1>12. CASE Discard BY <1>10, <1>12 DEF Discard, mapVars, listenerVars
<1>13. ASSUME NEW next, NEW ops, NEW replacesRoot, NEW detached,
             Prepares(next, ops, replacesRoot, detached)
      PROVE WatchesOK'
  BY <1>10, <1>13 DEF Prepares, mapVars, listenerVars
<1>14. ASSUME NEW same, Capture(same) PROVE WatchesOK' BY <1>10, <1>14 DEF Capture, mapVars, listenerVars
<1>15. CASE UNCHANGED vars BY <1>10, <1>15 DEF vars, mapVars, listenerVars
<1>16. ASSUME ~Idle, EndPublication, stage.phase # "watch", UNCHANGED <<value, previous, told>>
       PROVE WatchesOK'
  <2>1. queue' = Tail(queue) /\ queue # <<>> BY <1>16 DEF EndPublication, Idle
  <2>2. \A i \in 1..Len(Watches) : BeforeWatch(i)' BY <1>16, NothingPassedNext DEF EndPublication
  <2>3. ASSUME NEW i \in 1..Len(Watches), Awaits(queue, Watches[i], BeforeWatch(i))
        PROVE Awaits(queue', Watches[i], BeforeWatch(i)')
    <3>1. BeforeWatch(i) = FALSE BY <1>16 DEF BeforeWatch
    <3>2. Awaits(queue, Watches[i], FALSE) BY <2>3, <3>1
    <3>3. Awaits(Tail(queue), Watches[i], TRUE) BY <1>1, <2>1, <3>2, AwaitsNext
    <3>4. BeforeWatch(i)' = TRUE BY <1>3, <2>2
    <3> QED BY <2>1, <3>3, <3>4
  <2>4. \A i \in 1..Len(Watches) :
          previous[Watches[i]] = value'[Watches[i]] \/ Awaits(queue', Watches[i], BeforeWatch(i)')
    BY <1>1, <1>16, <2>3
  <2> QED BY <1>4, <1>16, <2>4
<1>17. ASSUME UNCHANGED <<value, queue, previous, told>>,
              \A i \in 1..Len(Watches) : BeforeWatch(i) => BeforeWatch(i)'
       PROVE WatchesOK'
  <2>1. ASSUME NEW i \in 1..Len(Watches), Awaits(queue, Watches[i], BeforeWatch(i))
        PROVE Awaits(queue', Watches[i], BeforeWatch(i)')
    <3>1. BeforeWatch(i) \in BOOLEAN /\ BeforeWatch(i)' \in BOOLEAN /\ (BeforeWatch(i) => BeforeWatch(i)')
      BY <1>3, <1>17
    <3>2. Awaits(queue, Watches[i], BeforeWatch(i)') BY <2>1, <3>1, AwaitsSame
    <3> QED BY <1>17, <3>2
  <2>2. \A i \in 1..Len(Watches) :
          previous[Watches[i]] = value'[Watches[i]] \/ Awaits(queue', Watches[i], BeforeWatch(i)')
    BY <1>1, <1>17, <2>1
  <2> QED BY <1>4, <1>17, <2>2
<1>18. CASE EmitWatch
  <2> DEFINE k == Watches[stage.i]
  <2>1. /\ ~Idle /\ stage.phase = "watch" /\ ~stage.call /\ stage.i \in 1..Len(Watches)
        /\ UNCHANGED <<value, queue>>
        /\ \/ Relevant(k) /\ previous' = [previous EXCEPT ![k] = value[k]]
              /\ told' = [told EXCEPT ![k] = value[k]] /\ Calls
           \/ ~Relevant(k) /\ UNCHANGED <<previous, told>> /\ NextEntry
    BY <1>1, <1>2, <1>18 DEF EmitWatch, mapVars
  <2>2. k \in Key BY <1>2, <2>1
  <2>3. CASE Relevant(k)
    <3>1. previous' = [previous EXCEPT ![k] = value[k]] /\ told' = [told EXCEPT ![k] = value[k]]
          /\ stage' = [stage EXCEPT !.call = TRUE]
      BY <2>1, <2>3 DEF Calls
    <3>2. previous' \in Root /\ told' = previous' BY <1>1, <2>2, <3>1 DEF Root
    <3>3. ASSUME NEW i \in 1..Len(Watches)
          PROVE previous'[Watches[i]] = value'[Watches[i]] \/ Awaits(queue', Watches[i], BeforeWatch(i)')
      <4>1. CASE Watches[i] = k BY <1>1, <2>1, <2>2, <3>1, <4>1 DEF Root
      <4>2. CASE Watches[i] # k
        <5>1. i # stage.i BY <4>2
        <5>2. BeforeWatch(i) => BeforeWatch(i)' BY <1>1, <3>1, <5>1 DEF BeforeWatch
        <5>3. previous'[Watches[i]] = previous[Watches[i]] BY <1>1, <1>2, <3>1, <4>2 DEF Root
        <5>4. BeforeWatch(i) \in BOOLEAN /\ BeforeWatch(i)' \in BOOLEAN BY <1>3
        <5>5. Awaits(queue, Watches[i], BeforeWatch(i)) => Awaits(queue, Watches[i], BeforeWatch(i)')
          BY <5>2, <5>4, AwaitsSame
        <5>6. previous[Watches[i]] = value[Watches[i]] \/ Awaits(queue, Watches[i], BeforeWatch(i)) BY <1>1
        <5> HIDE DEF k
        <5> QED BY <2>1, <5>3, <5>5, <5>6
      <4> QED BY <4>1, <4>2
    <3> QED BY <3>2, <3>3 DEF WatchesOK
  <2>4. CASE ~Relevant(k)
    <3>1. UNCHANGED <<value, queue, previous, told>> /\ stage' = [stage EXCEPT !.i = @ + 1, !.call = FALSE]
      BY <2>1, <2>4 DEF NextEntry
    <3>2. previous[k] = value[k] \/ ~Bears(queue[1], k)
      <4>1. queue[1] = Publishing BY <1>1, <2>1 DEF Publishing, Idle
      <4>2. /\ queue[1].kind # "snapshot"
            /\ \/ queue[1].kind = "identity"
               \/ Touches(queue[1].commit.ops, k) = {}
               \/ previous[k] = value[k]
        BY <2>4, <4>1 DEF Relevant, Ops
      <4> HIDE DEF k
      <4> QED BY <4>2 DEF Bears
    <3>3. ASSUME NEW i \in 1..Len(Watches)
          PROVE previous[Watches[i]] = value'[Watches[i]] \/ Awaits(queue', Watches[i], BeforeWatch(i)')
      <4>1. previous[Watches[i]] = value[Watches[i]] \/ Awaits(queue, Watches[i], BeforeWatch(i)) BY <1>1
      <4>2. BeforeWatch(i) \in BOOLEAN /\ BeforeWatch(i)' \in BOOLEAN BY <1>3
      <4>3. CASE i # stage.i /\ Awaits(queue, Watches[i], BeforeWatch(i))
        <5>1. BeforeWatch(i) => BeforeWatch(i)' BY <1>1, <3>1, <4>3 DEF BeforeWatch
        <5>2. Awaits(queue, Watches[i], BeforeWatch(i)') BY <4>2, <4>3, <5>1, AwaitsSame
        <5> QED BY <3>1, <5>2
      <4>4. CASE i = stage.i /\ ~Bears(queue[1], Watches[i]) /\ Awaits(queue, Watches[i], BeforeWatch(i))
        <5>1. Awaits(queue, Watches[i], FALSE) BY <4>2, <4>4, AwaitsPast
        <5>2. Awaits(queue, Watches[i], BeforeWatch(i)') BY <4>2, <5>1, AwaitsSame
        <5> QED BY <3>1, <5>2
      <4> QED BY <3>1, <3>2, <4>1, <4>3, <4>4
    <3> QED BY <1>4, <3>1, <3>3
  <2> QED BY <2>3, <2>4
<1>19. CASE WatchesDone
  <2>1. \A i \in 1..Len(Watches) : ~BeforeWatch(i)
    BY <1>1, <1>2, <1>19 DEF WatchesDone, BeforeWatch
  <2> QED BY <1>17, <1>19, <2>1 DEF WatchesDone, mapVars, listenerVars
<1>20. CASE EmitLink
  <2>1. /\ ~Idle /\ stage.phase = "link" /\ UNCHANGED <<value, previous, told>>
        /\ UNCHANGED queue \/ EndPublication
    BY <1>20 DEF EmitLink, CutPublication, mapVars
  <2>2. \A i \in 1..Len(Watches) : ~BeforeWatch(i) BY <2>1 DEF BeforeWatch
  <2> QED BY <1>16, <1>17, <2>1, <2>2
<1>21. CASE EmitFeed \/ EmitStore
  <2>1. /\ stage.phase # "watch" /\ UNCHANGED <<value, queue, previous, told>>
    BY <1>21 DEF EmitFeed, EmitStore, mapVars
  <2>2. \A i \in 1..Len(Watches) : ~BeforeWatch(i) BY <2>1 DEF BeforeWatch
  <2> QED BY <1>17, <2>1, <2>2
<1>22. CASE EmitObserver BY <1>16, <1>22 DEF EmitObserver, mapVars
<1>23. CASE ListenerReturns \/ WatchThrows
  <2>1. /\ stage.call /\ stage' = [stage EXCEPT !.i = @ + 1, !.call = FALSE]
        /\ UNCHANGED <<value, queue, previous, told>>
    BY <1>23 DEF ListenerReturns, WatchThrows, NextEntry, mapVars, listenerVars
  <2>2. ASSUME NEW i \in 1..Len(Watches), BeforeWatch(i) PROVE BeforeWatch(i)'
    <3>1. stage.phase = "watch" /\ stage.i < i BY <2>1, <2>2 DEF BeforeWatch
    <3>2. stage'.phase = "watch" /\ ~stage'.call /\ stage'.i = stage.i + 1 BY <1>1, <2>1, <3>1
    <3>3. stage.i \in Nat BY <1>1
    <3> QED BY <3>1, <3>2, <3>3 DEF BeforeWatch
  <2> QED BY <1>17, <2>1, <2>2
<1>24. CASE FeedThrows
  <2>1. /\ stage.call /\ stage.phase # "watch" /\ EndPublication /\ UNCHANGED <<value, previous, told>>
    BY <1>24 DEF FeedThrows, CutPublication, mapVars
  <2>2. ~Idle BY <1>1, <2>1 DEF PlaceOK, Idle, NoCall
  <2> QED BY <1>16, <2>1, <2>2
<1>25. CASE Publish
  BY <1>18, <1>19, <1>20, <1>21, <1>22, <1>23, <1>24, <1>25 DEF Publish
<1> QED BY <1>7, <1>8, <1>9, <1>11, <1>12, <1>13, <1>14, <1>15, <1>25, StepKinds

-----------------------------------------------------------------------------
(* The link.                                                               *)

(* A non-empty set of indices has a last one. *)
LEMMA LastIndex ==
  ASSUME NEW N \in Nat, NEW T, T \subseteq 1..N, T # {}
  PROVE Latest(T) \in T /\ \A j \in T : j <= Latest(T)
<1> DEFINE S == { N - i : i \in T }
<1>0. \A i \in T : N - i \in Nat OBVIOUS
<1>1. S \subseteq Nat /\ S # {} BY <1>0
<1> HIDE DEF S
<1>2. PICK x \in S : \A y \in S : x <= y BY <1>1, LeastNat
<1> USE DEF S
<1>3. PICK i \in T : x = N - i BY <1>2
<1>4. \A j \in T : N - i <= N - j BY <1>2, <1>3
<1>5. \A j \in T : i \in Nat /\ j \in Nat /\ i <= N /\ j <= N OBVIOUS
<1>6. \A j \in T : j <= i BY <1>4, <1>5
<1> QED BY <1>3, <1>6 DEF Latest

LEMMA LastSetBehind ==
  ASSUME NEW S, NEW q \in Seq(S), NEW e, NEW m \in 1..Len(q), NEW v, NEW v2,
         LastSetHolds(q, m, v), v2 = v \/ Bears(e, LinkKey)
  PROVE LastSetHolds(Append(q, e), m, v2)
<1> DEFINE z == Append(q, e)
<1>1. /\ Len(q) \in Nat /\ Len(z) = Len(q) + 1 /\ z[Len(q) + 1] = e
      /\ \A n \in 1..Len(q) : z[n] = q[n]
  OBVIOUS
<1> HIDE DEF z, Bears
<1>2. z[m] = q[m] BY <1>1
<1>3. ASSUME NEW n \in 1..Len(q), n > m, Bears(q[n], LinkKey)
      PROVE \E x \in 1..Len(z) : x > m /\ Bears(z[x], LinkKey)
  <2>1. n \in 1..Len(z) /\ z[n] = q[n] BY <1>1
  <2> QED BY <1>3, <2>1
<1>4. ASSUME Bears(e, LinkKey) PROVE \E x \in 1..Len(z) : x > m /\ Bears(z[x], LinkKey)
  <2>1. Len(q) + 1 \in 1..Len(z) /\ Len(q) + 1 > m /\ z[Len(q) + 1] = e BY <1>1
  <2> QED BY <1>4, <2>1
<1>5. LastSetHolds(z, m, v2) BY <1>2, <1>3, <1>4 DEF LastSetHolds
<1> QED BY <1>5 DEF z

LEMMA LastSetNext ==
  ASSUME NEW S, NEW q \in Seq(S), q # <<>>, NEW m \in 1..Len(Tail(q)), NEW v, LastSetHolds(q, m + 1, v)
  PROVE LastSetHolds(Tail(q), m, v)
<1> DEFINE z == Tail(q)
<1>1. /\ Len(q) \in Nat /\ Len(z) = Len(q) - 1
      /\ \A n \in 1..Len(z) : z[n] = q[n + 1]
  OBVIOUS
<1>6. m \in 1..Len(z) OBVIOUS
<1> HIDE DEF z, Bears
<1>2. z[m] = q[m + 1] BY <1>1, <1>6
<1>3. ASSUME NEW n \in 1..Len(q), n > m + 1, Bears(q[n], LinkKey)
      PROVE \E x \in 1..Len(z) : x > m /\ Bears(z[x], LinkKey)
  <2>1. n - 1 \in 1..Len(z) /\ n - 1 > m /\ n - 1 + 1 = n BY <1>1, <1>3, <1>6
  <2>2. z[n - 1] = q[n] BY <1>1, <2>1
  <2>3. Bears(z[n - 1], LinkKey) BY <1>3, <2>2
  <2> QED BY <2>1, <2>3
<1>4. LastSetHolds(z, m, v) BY <1>2, <1>3 DEF LastSetHolds
<1> QED BY <1>4 DEF z

(* The linked path holds what its source path has, or a commit that the link *)
(* has not been shown bears on it.                                           *)
LEMMA LinkStep ==
  ASSUME CoreInv, [Next]_vars
  PROVE LinkOK'
<1> DEFINE v == value[LinkKey]
<1>1. /\ PlaceOK /\ value \in Root /\ queue \in Seq(Publication)
      /\ stage \in [phase : Phases, i : Nat \ {0}, call : BOOLEAN]
      /\ restored \in BOOLEAN /\ LinkKey \in Key
  BY LiveMapAssumption DEF CoreInv, MapOK, PlaceOK
<1>0. queue \in Seq(Publication) BY <1>1
<1>2. BeforeLink \in BOOLEAN /\ BeforeLink' \in BOOLEAN BY DEF BeforeLink
<1>3. ~restored' => ~restored
  BY <1>1 DEF Next, Caller, CommitOps, PrepareBatch, PrepareDetached, Apply, EnsureQuid, UseSchema, Accept,
     Discard, Capture, Restore, Publish, EmitWatch, WatchesDone, EmitLink, EmitFeed, EmitStore, EmitObserver,
     ListenerReturns, WatchThrows, FeedThrows, vars
<1>4. ~restored => \A m \in 1..Len(queue) : queue[m].kind # "snapshot" /\ queue[m].frozen = None
  BY <1>1 DEF PlaceOK
<1>5. ~restored /\ "link" \notin cut =>
        /\ linked = v \/ Awaits(queue, LinkKey, BeforeLink)
        /\ \A m \in 1..Len(queue) : queue[m].kind = "commit" => LastSetHolds(queue, m, v)
  BY DEF CoreInv, LinkOK
<1>6. queue = <<>> => BeforeLink BY <1>1, NothingPassed DEF PlaceOK
<1>7. ASSUME NEW next, NEW ops, NEW replacesRoot, NEW follows,
             Installs(next, ops, replacesRoot, follows)
      PROVE LinkOK'
  <2>1. PICK e : /\ queue' = Append(queue, e)
                 /\ e.kind = "commit" /\ e.commit.ops = ops /\ e.frozen = None
                 /\ \A k \in Key : value'[k] # value[k] => Bears(e, k)
    BY <1>7, CommitBears
  <2>2. UNCHANGED <<stage, linked, cut, restored>> BY <1>7 DEF Installs, listenerVars
  <2>3. BeforeLink' = BeforeLink BY <2>2 DEF BeforeLink
  <2>4. value'[LinkKey] = v \/ Bears(e, LinkKey) BY <1>1, <2>1
  <2>5. value' = next /\ Commits(value, quids, next, ops) BY <1>7 DEF Installs, InstallCommit
  <2> SUFFICES ASSUME ~restored, "link" \notin cut
               PROVE /\ linked = value'[LinkKey] \/ Awaits(queue', LinkKey, BeforeLink)
                     /\ \A m \in 1..Len(queue') : queue'[m].kind = "commit" => LastSetHolds(queue', m, value'[LinkKey])
    BY <2>2, <2>3 DEF LinkOK
  <2> DEFINE b == BeforeLink
             v2 == value'[LinkKey]
  <2>6. b \in BOOLEAN /\ (queue = <<>> => b) BY <1>2, <1>6
  <2>7. linked = v \/ Awaits(queue, LinkKey, b) BY <1>5
  <2>8. v2 = v \/ Bears(e, LinkKey) BY <2>4
  <2> HIDE DEF b, v, v2
  <2>9. linked = v2 \/ Awaits(Append(queue, e), LinkKey, b)
    <3>1. CASE Awaits(queue, LinkKey, b) BY <1>0, <2>6, <3>1, AwaitsBehind
    <3>2. CASE Bears(e, LinkKey) BY <1>0, <2>6, <3>2, AwaitsBehind
    <3> QED BY <2>7, <2>8, <3>1, <3>2
  <2>10. ASSUME NEW m \in 1..Len(queue), queue[m].kind = "commit"
         PROVE LastSetHolds(Append(queue, e), m, v2)
    <3>1. LastSetHolds(queue, m, v) BY <1>5, <2>10 DEF v
    <3> QED BY <1>0, <2>8, <3>1, LastSetBehind
  <2> DEFINE z == Append(queue, e)
  <2>11. /\ Len(queue) \in Nat /\ Len(z) = Len(queue) + 1 /\ z[Len(queue) + 1] = e
         /\ \A m \in 1..Len(queue) : z[m] = queue[m]
    BY <1>0
  <2> HIDE DEF z
  <2>12. LastSetHolds(z, Len(queue) + 1, v2)
    <3>1. z[Len(queue) + 1].commit.ops = ops BY <2>1, <2>11
    <3>2. ASSUME NEW i \in Touches(ops, LinkKey), ops[i].kind = "set",
                 \A j \in Touches(ops, LinkKey) : j <= i
          PROVE ops[i].val = v2
      BY <1>1, <2>5, <3>2 DEF Commits, v2
    <3> QED BY <3>1, <3>2 DEF LastSetHolds
  <2>13. \A m \in 1..Len(z) : z[m].kind = "commit" => LastSetHolds(z, m, v2)
    <3> TAKE m \in 1..Len(z)
    <3>1. CASE m = Len(queue) + 1 BY <2>12, <3>1
    <3>2. CASE m # Len(queue) + 1
      <4>1. m \in 1..Len(queue) BY <2>11, <3>2
      <4>2. z[m] = queue[m] BY <2>11, <4>1
      <4> QED BY <2>10, <4>1, <4>2 DEF z
    <3> QED BY <3>1, <3>2
  <2> QED BY <2>1, <2>9, <2>13 DEF z, v2, b
<1>8. ASSUME NEW k \in Key, EnsureQuid(k) PROVE LinkOK'
  <2>1. value' = value /\ \E e : queue' = Append(queue, e) /\ e.kind = "identity" BY <1>8, IdentityBears
  <2>2. PICK e : queue' = Append(queue, e) /\ e.kind = "identity" BY <2>1
  <2>3. UNCHANGED <<stage, linked, cut, restored>> BY <1>8 DEF EnsureQuid, listenerVars
  <2>4. BeforeLink' = BeforeLink BY <2>3 DEF BeforeLink
  <2> SUFFICES ASSUME ~restored, "link" \notin cut
               PROVE /\ linked = v \/ Awaits(queue', LinkKey, BeforeLink)
                     /\ \A m \in 1..Len(queue') : queue'[m].kind = "commit" => LastSetHolds(queue', m, v)
    BY <2>1, <2>3, <2>4 DEF LinkOK
  <2> DEFINE b == BeforeLink
             z == Append(queue, e)
  <2>5. b \in BOOLEAN /\ (linked = v \/ Awaits(queue, LinkKey, b)) BY <1>2, <1>5
  <2>6. \A m \in 1..Len(queue) : queue[m].kind = "commit" => LastSetHolds(queue, m, v) BY <1>5
  <2>7. /\ Len(queue) \in Nat /\ Len(z) = Len(queue) + 1 /\ z[Len(queue) + 1] = e
        /\ \A m \in 1..Len(queue) : z[m] = queue[m]
    BY <1>0
  <2> HIDE DEF b, v
  <2>8. linked = v \/ Awaits(z, LinkKey, b) BY <1>0, <2>5, AwaitsBehind
  <2>9. \A m \in 1..Len(queue) : queue[m].kind = "commit" => LastSetHolds(z, m, v)
    BY <1>0, <2>6, LastSetBehind
  <2> HIDE DEF z
  <2>10. \A m \in 1..Len(z) : z[m].kind = "commit" => LastSetHolds(z, m, v)
    <3> TAKE m \in 1..Len(z)
    <3>1. CASE m = Len(queue) + 1 BY <2>2, <2>7, <3>1
    <3>2. CASE m # Len(queue) + 1
      <4>1. m \in 1..Len(queue) BY <2>7, <3>2
      <4>2. z[m] = queue[m] BY <2>7, <4>1
      <4> QED BY <2>9, <4>1, <4>2
    <3> QED BY <3>1, <3>2
  <2> QED BY <2>2, <2>8, <2>10 DEF z, b
<1>9. ASSUME NEW policy, Restore(policy) PROVE LinkOK'
  BY <1>9 DEF Restore, LinkOK
<1>10. ASSUME UNCHANGED <<value, queue, stage, linked, cut, restored>> PROVE LinkOK'
  <2>1. BeforeLink' = BeforeLink BY <1>10 DEF BeforeLink
  <2> QED BY <1>5, <1>10, <2>1 DEF LinkOK
<1>11. CASE UseSchema BY <1>10, <1>11 DEF UseSchema, listenerVars
<1>12. CASE Discard BY <1>10, <1>12 DEF Discard, mapVars, listenerVars
<1>13. ASSUME NEW next, NEW ops, NEW replacesRoot, NEW detached,
             Prepares(next, ops, replacesRoot, detached)
      PROVE LinkOK'
  BY <1>10, <1>13 DEF Prepares, mapVars, listenerVars
<1>14. ASSUME NEW same, Capture(same) PROVE LinkOK' BY <1>10, <1>14 DEF Capture, mapVars, listenerVars
<1>15. CASE UNCHANGED vars BY <1>10, <1>15 DEF vars, mapVars, listenerVars
<1>16. ASSUME ~Idle, EndPublication, ~BeforeLink \/ ~Bears(queue[1], LinkKey),
              UNCHANGED <<value, linked, restored>>,
              ~restored /\ "link" \notin cut' => "link" \notin cut
       PROVE LinkOK'
  <2>1. queue' = Tail(queue) /\ queue # <<>> BY <1>16 DEF EndPublication, Idle
  <2>2. BeforeLink' = TRUE BY <1>2, <1>16, NothingPassedNext DEF EndPublication
  <2> SUFFICES ASSUME ~restored, "link" \notin cut
               PROVE /\ linked = v \/ Awaits(queue', LinkKey, TRUE)
                     /\ \A m \in 1..Len(queue') : queue'[m].kind = "commit" => LastSetHolds(queue', m, v)
    BY <1>16, <2>2 DEF LinkOK
  <2> DEFINE b == BeforeLink
  <2>3. b \in BOOLEAN /\ (linked = v \/ Awaits(queue, LinkKey, b)) BY <1>2, <1>5
  <2>4. ~b \/ ~Bears(queue[1], LinkKey) BY <1>16
  <2>5. \A m \in 1..Len(queue) : queue[m].kind = "commit" => LastSetHolds(queue, m, v) BY <1>5
  <2> HIDE DEF b, v
  <2>6. linked = v \/ Awaits(queue, LinkKey, FALSE) BY <2>3, <2>4, AwaitsPast
  <2>7. linked = v \/ Awaits(Tail(queue), LinkKey, TRUE) BY <1>0, <2>1, <2>6, AwaitsNext
  <2>8. ASSUME NEW m \in 1..Len(Tail(queue)), Tail(queue)[m].kind = "commit"
        PROVE LastSetHolds(Tail(queue), m, v)
    <3>1. m + 1 \in 1..Len(queue) /\ Tail(queue)[m] = queue[m + 1] BY <1>0, <2>1
    <3>2. LastSetHolds(queue, m + 1, v) BY <2>5, <2>8, <3>1
    <3> QED BY <1>0, <2>1, <3>2, LastSetNext
  <2> QED BY <2>1, <2>7, <2>8
<1>17. ASSUME UNCHANGED <<value, queue, linked, restored>>, BeforeLink => BeforeLink',
              ~restored /\ "link" \notin cut' => "link" \notin cut
       PROVE LinkOK'
  <2> SUFFICES ASSUME ~restored, "link" \notin cut
               PROVE /\ linked = v \/ Awaits(queue, LinkKey, BeforeLink')
                     /\ \A m \in 1..Len(queue) : queue[m].kind = "commit" => LastSetHolds(queue, m, v)
    BY <1>17 DEF LinkOK
  <2>1. linked = v \/ Awaits(queue, LinkKey, BeforeLink) BY <1>5
  <2>2. Awaits(queue, LinkKey, BeforeLink) => Awaits(queue, LinkKey, BeforeLink')
    BY <1>2, <1>17, AwaitsSame
  <2>3. \A m \in 1..Len(queue) : queue[m].kind = "commit" => LastSetHolds(queue, m, v) BY <1>5
  <2> HIDE DEF v
  <2> QED BY <2>1, <2>2, <2>3
<1>18. CASE EmitWatch
  <2>1. /\ stage.phase = "watch" /\ stage'.phase = "watch"
        /\ UNCHANGED <<value, queue, linked, cut, restored>>
    BY <1>1, <1>18 DEF EmitWatch, Calls, NextEntry, mapVars
  <2>2. BeforeLink' BY <2>1 DEF BeforeLink
  <2> QED BY <1>17, <2>1, <2>2
<1>19. CASE WatchesDone
  <2>1. /\ ~Idle /\ UNCHANGED <<value, queue, linked, cut, restored>>
        /\ stage'.phase = IF Publishing.kind = "commit" THEN "link" ELSE "observer"
    BY <1>19 DEF WatchesDone, Goto, mapVars, listenerVars
  <2>2. queue[1] = Publishing /\ 1 \in 1..Len(queue) BY <1>0, <2>1 DEF Publishing, Idle
  <2>3. CASE Publishing.kind = "commit"
    <3>1. BeforeLink' BY <2>1, <2>3 DEF BeforeLink
    <3> QED BY <1>17, <2>1, <3>1
  <2>4. CASE Publishing.kind # "commit"
    <3> SUFFICES ASSUME ~restored, "link" \notin cut
                 PROVE /\ linked = v \/ Awaits(queue, LinkKey, BeforeLink')
                       /\ \A m \in 1..Len(queue) : queue[m].kind = "commit" => LastSetHolds(queue, m, v)
      BY <2>1 DEF LinkOK
    <3>1. ~Bears(queue[1], LinkKey) BY <1>4, <2>2, <2>4 DEF Bears
    <3>2. linked = v \/ Awaits(queue, LinkKey, BeforeLink) BY <1>5
    <3>3. linked = v \/ Awaits(queue, LinkKey, FALSE) BY <1>2, <3>1, <3>2, AwaitsPast
    <3>4. linked = v \/ Awaits(queue, LinkKey, BeforeLink') BY <1>2, <3>3, AwaitsSame
    <3>5. \A m \in 1..Len(queue) : queue[m].kind = "commit" => LastSetHolds(queue, m, v) BY <1>5
    <3> QED BY <3>4, <3>5
  <2> QED BY <2>3, <2>4
<1>20. CASE EmitLink
  <2> DEFINE touched == Touches(Ops, LinkKey)
             effect == LinkEffect(Ops, touched, FeedReads(LinkKey))
  <2>1. /\ ~Idle /\ stage.phase = "link" /\ UNCHANGED <<value, restored>>
        /\ \/ touched = {} /\ Goto("feed") /\ UNCHANGED <<queue, linked, cut>>
           \/ touched # {} /\ linked' = effect.to /\ Goto("feed") /\ UNCHANGED <<queue, cut>>
           \/ EndPublication /\ cut' = cut \cup {stage.phase} /\ UNCHANGED linked
    BY <1>20 DEF EmitLink, CutPublication, mapVars
  <2>2. queue[1] = Publishing /\ 1 \in 1..Len(queue) /\ Publishing.kind = "commit"
    BY <1>1, <2>1 DEF Publishing, Idle, PlaceOK
  <2>3. CASE touched = {} /\ Goto("feed") /\ UNCHANGED <<queue, linked, cut>>
    <3>1. ~Bears(queue[1], LinkKey) BY <2>2, <2>3 DEF Bears, Ops
    <3> SUFFICES ASSUME ~restored, "link" \notin cut
                 PROVE /\ linked = v \/ Awaits(queue, LinkKey, BeforeLink')
                       /\ \A m \in 1..Len(queue) : queue[m].kind = "commit" => LastSetHolds(queue, m, v)
      BY <2>1, <2>3 DEF LinkOK
    <3>2. linked = v \/ Awaits(queue, LinkKey, BeforeLink) BY <1>5
    <3>3. linked = v \/ Awaits(queue, LinkKey, FALSE) BY <1>2, <3>1, <3>2, AwaitsPast
    <3>4. linked = v \/ Awaits(queue, LinkKey, BeforeLink') BY <1>2, <3>3, AwaitsSame
    <3>5. \A m \in 1..Len(queue) : queue[m].kind = "commit" => LastSetHolds(queue, m, v) BY <1>5
    <3> QED BY <3>4, <3>5
  <2>4. CASE touched # {} /\ linked' = effect.to /\ Goto("feed") /\ UNCHANGED <<queue, cut>>
    <3> SUFFICES ASSUME ~restored, "link" \notin cut
                 PROVE /\ linked' = v \/ Awaits(queue, LinkKey, BeforeLink')
                       /\ \A m \in 1..Len(queue) : queue[m].kind = "commit" => LastSetHolds(queue, m, v)
      BY <2>1, <2>4 DEF LinkOK
    <3>1. FeedReads(LinkKey) = v BY <1>4, <2>2 DEF FeedReads
    <3>2. \A m \in 1..Len(queue) : queue[m].kind = "commit" => LastSetHolds(queue, m, v) BY <1>5
    <3>3. CASE v = Absent \/ \E i \in touched : Ops[i].kind # "set"
      <4>1. effect.to = v BY <3>1, <3>3 DEF LinkEffect
      <4> QED BY <2>4, <3>2, <4>1
    <3>4. CASE v # Absent /\ \A i \in touched : Ops[i].kind = "set"
      <4>1. effect.to = Ops[Latest(touched)].val BY <3>1, <3>4 DEF LinkEffect
      <4>2. Ops \in Seq(Operation)
        <5>1. queue[1] \in Publication BY <1>0, <2>2
        <5> QED BY <2>2, <5>1 DEF Publication, Ops
      <4>3. Latest(touched) \in touched /\ \A j \in touched : j <= Latest(touched)
        <5>1. touched \subseteq 1..Len(Ops) /\ Len(Ops) \in Nat BY <4>2 DEF Touches
        <5> HIDE DEF touched
        <5> QED BY <2>4, <5>1, LastIndex
      <4>4. LastSetHolds(queue, 1, v) BY <2>2, <3>2
      <4>5. queue[1].commit.ops = Ops BY <2>2 DEF Ops
      <4>6. Ops[Latest(touched)].kind = "set" BY <3>4, <4>3
      <4>7. Ops[Latest(touched)].val = v \/ \E n \in 1..Len(queue) : n > 1 /\ Bears(queue[n], LinkKey)
        BY <4>3, <4>4, <4>5, <4>6 DEF LastSetHolds
      <4> HIDE DEF touched, v
      <4>8. ASSUME NEW n \in 1..Len(queue), n > 1, Bears(queue[n], LinkKey)
            PROVE Awaits(queue, LinkKey, BeforeLink')
        <5>1. n # 1 BY <4>8
        <5> QED BY <4>8, <5>1 DEF Awaits
      <4> QED BY <2>4, <3>2, <4>1, <4>7, <4>8
    <3> QED BY <3>3, <3>4
  <2>5. CASE EndPublication /\ cut' = cut \cup {stage.phase} /\ UNCHANGED linked
    <3>1. "link" \in cut' BY <2>1, <2>5
    <3> QED BY <3>1 DEF LinkOK
  <2> QED BY <2>1, <2>3, <2>4, <2>5
<1>21. CASE EmitFeed \/ EmitStore
  <2>1. /\ stage.phase \in {"feed", "store"} /\ UNCHANGED <<value, queue, linked, cut, restored>>
    BY <1>21 DEF EmitFeed, EmitStore, mapVars
  <2>2. ~BeforeLink BY <2>1 DEF BeforeLink
  <2> QED BY <1>17, <2>1, <2>2
<1>22. CASE EmitObserver
  <2>1. /\ ~Idle /\ stage.phase = "observer" /\ EndPublication
        /\ UNCHANGED <<value, linked, restored>>
        /\ cut' = IF Publishing.kind = "snapshot" THEN {} ELSE cut
    BY <1>22 DEF EmitObserver, mapVars
  <2>2. ~BeforeLink BY <2>1 DEF BeforeLink
  <2>3. queue[1] = Publishing /\ 1 \in 1..Len(queue) BY <1>0, <2>1 DEF Publishing, Idle
  <2>4. ~restored => cut' = cut BY <1>4, <2>1, <2>3
  <2> QED BY <1>16, <2>1, <2>2, <2>4
<1>23. CASE ListenerReturns \/ WatchThrows
  <2>1. stage'.phase = stage.phase /\ UNCHANGED <<value, queue, linked, cut, restored>>
    BY <1>1, <1>23 DEF ListenerReturns, WatchThrows, NextEntry, mapVars, listenerVars
  <2>2. BeforeLink' = BeforeLink BY <2>1 DEF BeforeLink
  <2> QED BY <1>17, <2>1, <2>2
<1>24. CASE FeedThrows
  <2>1. /\ stage.call /\ stage.phase \in {"feed", "store"} /\ EndPublication
        /\ UNCHANGED <<value, linked, restored>> /\ cut' = cut \cup {stage.phase}
    BY <1>24 DEF FeedThrows, CutPublication, mapVars
  <2>2. ~Idle BY <1>1, <2>1 DEF PlaceOK, Idle, NoCall
  <2>3. ~BeforeLink BY <2>1 DEF BeforeLink
  <2> QED BY <1>16, <2>1, <2>2, <2>3
<1>25. CASE Publish
  BY <1>18, <1>19, <1>20, <1>21, <1>22, <1>23, <1>24, <1>25 DEF Publish
<1> QED BY <1>7, <1>8, <1>9, <1>11, <1>12, <1>13, <1>14, <1>15, <1>25, StepKinds

-----------------------------------------------------------------------------
(* The raw feed and the store subscription.                                *)

(* Both have what their paths have, or a commit they have not been shown     *)
(* bears on them.                                                            *)
LEMMA FeedsStep ==
  ASSUME CoreInv, [Next]_vars
  PROVE FeedsOK'
<1>1. /\ PlaceOK /\ value \in Root /\ queue \in Seq(Publication)
      /\ stage \in [phase : Phases, i : Nat \ {0}, call : BOOLEAN]
      /\ restored \in BOOLEAN /\ FeedKey \in Key /\ SubKey \in Key
  BY LiveMapAssumption DEF CoreInv, MapOK, PlaceOK
<1>0. queue \in Seq(Publication) BY <1>1
<1>2. BeforeFeed \in BOOLEAN /\ BeforeFeed' \in BOOLEAN /\ BeforeStore \in BOOLEAN /\ BeforeStore' \in BOOLEAN
  BY DEF BeforeFeed, BeforeStore
<1>4. ~restored => \A m \in 1..Len(queue) : queue[m].kind # "snapshot" /\ queue[m].frozen = None
  BY <1>1 DEF PlaceOK
<1>5. ~restored /\ cut = {} =>
        /\ heard = value[FeedKey] \/ Awaits(queue, FeedKey, BeforeFeed)
        /\ subPrev = value[SubKey] \/ Awaits(queue, SubKey, BeforeStore)
  BY DEF CoreInv, FeedsOK
<1>6. queue = <<>> => BeforeFeed /\ BeforeStore BY <1>1, NothingPassed DEF PlaceOK
<1>7. ASSUME NEW next, NEW ops, NEW replacesRoot, NEW follows,
             Installs(next, ops, replacesRoot, follows)
      PROVE FeedsOK'
  <2>1. PICK e : /\ queue' = Append(queue, e)
                 /\ \A k \in Key : value'[k] # value[k] => Bears(e, k)
    BY <1>7, CommitBears
  <2>2. UNCHANGED <<stage, heard, subPrev, cut, restored>> BY <1>7 DEF Installs, listenerVars
  <2>3. BeforeFeed' = BeforeFeed /\ BeforeStore' = BeforeStore BY <2>2 DEF BeforeFeed, BeforeStore
  <2>4. ASSUME NEW k \in Key, NEW b \in BOOLEAN, queue = <<>> => b, NEW x,
               x = value[k] \/ Awaits(queue, k, b)
        PROVE x = value'[k] \/ Awaits(Append(queue, e), k, b)
    <3>1. CASE Awaits(queue, k, b) BY <1>0, <3>1, AwaitsBehind
    <3>2. CASE Bears(e, k) BY <1>0, <2>4, <3>2, AwaitsBehind
    <3> QED BY <2>1, <2>4, <3>1, <3>2
  <2> SUFFICES ASSUME ~restored, cut = {}
               PROVE /\ heard = value'[FeedKey] \/ Awaits(queue', FeedKey, BeforeFeed)
                     /\ subPrev = value'[SubKey] \/ Awaits(queue', SubKey, BeforeStore)
    BY <2>2, <2>3 DEF FeedsOK
  <2>5. heard = value'[FeedKey] \/ Awaits(Append(queue, e), FeedKey, BeforeFeed)
    BY <1>1, <1>2, <1>5, <1>6, <2>4
  <2>6. subPrev = value'[SubKey] \/ Awaits(Append(queue, e), SubKey, BeforeStore)
    BY <1>1, <1>2, <1>5, <1>6, <2>4
  <2> QED BY <2>1, <2>5, <2>6
<1>8. ASSUME NEW k \in Key, EnsureQuid(k) PROVE FeedsOK'
  <2>1. value' = value /\ \E e : queue' = Append(queue, e) BY <1>8, IdentityBears
  <2>2. PICK e : queue' = Append(queue, e) BY <2>1
  <2>3. UNCHANGED <<stage, heard, subPrev, cut, restored>> BY <1>8 DEF EnsureQuid, listenerVars
  <2>4. BeforeFeed' = BeforeFeed /\ BeforeStore' = BeforeStore BY <2>3 DEF BeforeFeed, BeforeStore
  <2>5. ASSUME NEW j \in Key, NEW b \in BOOLEAN, Awaits(queue, j, b)
        PROVE Awaits(Append(queue, e), j, b)
    BY <1>0, <2>5, AwaitsBehind
  <2>6. ~restored /\ cut = {} =>
          /\ heard = value[FeedKey] \/ Awaits(Append(queue, e), FeedKey, BeforeFeed)
          /\ subPrev = value[SubKey] \/ Awaits(Append(queue, e), SubKey, BeforeStore)
    BY <1>1, <1>2, <1>5, <2>5
  <2> QED BY <2>1, <2>2, <2>3, <2>4, <2>6 DEF FeedsOK
<1>9. ASSUME NEW policy, Restore(policy) PROVE FeedsOK'
  BY <1>9 DEF Restore, FeedsOK
<1>10. ASSUME UNCHANGED <<value, queue, stage, heard, subPrev, cut, restored>> PROVE FeedsOK'
  <2>1. BeforeFeed' = BeforeFeed /\ BeforeStore' = BeforeStore BY <1>10 DEF BeforeFeed, BeforeStore
  <2> QED BY <1>5, <1>10, <2>1 DEF FeedsOK
<1>11. CASE UseSchema BY <1>10, <1>11 DEF UseSchema, listenerVars
<1>12. CASE Discard BY <1>10, <1>12 DEF Discard, mapVars, listenerVars
<1>13. ASSUME NEW next, NEW ops, NEW replacesRoot, NEW detached,
             Prepares(next, ops, replacesRoot, detached)
      PROVE FeedsOK'
  BY <1>10, <1>13 DEF Prepares, mapVars, listenerVars
<1>14. ASSUME NEW same, Capture(same) PROVE FeedsOK' BY <1>10, <1>14 DEF Capture, mapVars, listenerVars
<1>15. CASE UNCHANGED vars BY <1>10, <1>15 DEF vars, mapVars, listenerVars
<1>16. ASSUME ~Idle, EndPublication, stage.phase = "observer",
              UNCHANGED <<value, heard, subPrev, restored>>, ~restored => cut' = cut
       PROVE FeedsOK'
  <2>1. queue' = Tail(queue) /\ queue # <<>> BY <1>16 DEF EndPublication, Idle
  <2>2. BeforeFeed' = TRUE /\ BeforeStore' = TRUE BY <1>2, <1>16, NothingPassedNext DEF EndPublication
  <2>3. BeforeFeed = FALSE /\ BeforeStore = FALSE BY <1>16 DEF BeforeFeed, BeforeStore
  <2>4. ASSUME NEW k, Awaits(queue, k, FALSE) PROVE Awaits(Tail(queue), k, TRUE)
    BY <1>0, <2>1, <2>4, AwaitsNext
  <2>5. ~restored /\ cut = {} =>
          /\ heard = value[FeedKey] \/ Awaits(Tail(queue), FeedKey, TRUE)
          /\ subPrev = value[SubKey] \/ Awaits(Tail(queue), SubKey, TRUE)
    BY <1>5, <2>3, <2>4
  <2> QED BY <1>16, <2>1, <2>2, <2>5 DEF FeedsOK
<1>17. ASSUME UNCHANGED <<value, queue, cut, restored>>,
              heard' = value[FeedKey] \/ (heard' = heard /\ (BeforeFeed => BeforeFeed' \/ ~Bears(queue[1], FeedKey))),
              subPrev' = value[SubKey] \/ (subPrev' = subPrev /\ (BeforeStore => BeforeStore' \/ ~Bears(queue[1], SubKey)))
       PROVE FeedsOK'
  <2>1. ASSUME NEW k, NEW a \in BOOLEAN, NEW b \in BOOLEAN, a => b \/ ~Bears(queue[1], k), Awaits(queue, k, a)
        PROVE Awaits(queue, k, b)
    <3>1. CASE b \/ ~a
      <4>1. a => b BY <3>1
      <4> QED BY <2>1, <4>1, AwaitsSame
    <3>2. CASE ~Bears(queue[1], k)
      <4>1. Awaits(queue, k, FALSE) BY <2>1, <3>2, AwaitsPast
      <4> QED BY <4>1, AwaitsSame
    <3> QED BY <2>1, <3>1, <3>2
  <2> SUFFICES ASSUME ~restored, cut = {}
               PROVE /\ heard' = value[FeedKey] \/ Awaits(queue, FeedKey, BeforeFeed')
                     /\ subPrev' = value[SubKey] \/ Awaits(queue, SubKey, BeforeStore')
    BY <1>17 DEF FeedsOK
  <2>2. heard' = value[FeedKey] \/ Awaits(queue, FeedKey, BeforeFeed')
    <3>1. CASE heard' = heard /\ (BeforeFeed => BeforeFeed' \/ ~Bears(queue[1], FeedKey))
      BY <1>2, <1>5, <2>1, <3>1
    <3> QED BY <1>17, <3>1
  <2>3. subPrev' = value[SubKey] \/ Awaits(queue, SubKey, BeforeStore')
    <3>1. CASE subPrev' = subPrev /\ (BeforeStore => BeforeStore' \/ ~Bears(queue[1], SubKey))
      BY <1>2, <1>5, <2>1, <3>1
    <3> QED BY <1>17, <3>1
  <2> QED BY <2>2, <2>3
<1>18. CASE EmitWatch
  <2>1. /\ stage'.phase = "watch" /\ UNCHANGED <<value, queue, heard, subPrev, cut, restored>>
    BY <1>1, <1>18 DEF EmitWatch, Calls, NextEntry, mapVars
  <2>2. BeforeFeed' /\ BeforeStore' BY <2>1 DEF BeforeFeed, BeforeStore
  <2> QED BY <1>17, <2>1, <2>2
<1>19. CASE WatchesDone
  <2>1. /\ ~Idle /\ UNCHANGED <<value, queue, heard, subPrev, cut, restored>>
        /\ stage'.phase = IF Publishing.kind = "commit" THEN "link" ELSE "observer"
    BY <1>19 DEF WatchesDone, Goto, mapVars, listenerVars
  <2>2. queue[1] = Publishing /\ 1 \in 1..Len(queue) BY <1>0, <2>1 DEF Publishing, Idle
  <2>3. CASE Publishing.kind = "commit"
    <3>1. BeforeFeed' /\ BeforeStore' BY <2>1, <2>3 DEF BeforeFeed, BeforeStore
    <3> QED BY <1>17, <2>1, <3>1
  <2>4. CASE Publishing.kind # "commit" /\ ~restored
    <3>1. ~Bears(queue[1], FeedKey) /\ ~Bears(queue[1], SubKey) BY <1>4, <2>2, <2>4 DEF Bears
    <3> QED BY <1>17, <2>1, <3>1
  <2>5. CASE restored BY <2>1, <2>5 DEF FeedsOK
  <2> QED BY <2>3, <2>4, <2>5
<1>20. CASE EmitLink
  <2>1. /\ stage.phase = "link" /\ UNCHANGED <<value, heard, subPrev, restored>>
        /\ \/ stage'.phase = "feed" /\ stage'.i = 1 /\ stage'.call = FALSE /\ UNCHANGED <<queue, cut>>
           \/ cut' = cut \cup {stage.phase}
    BY <1>20 DEF EmitLink, CutPublication, Goto, mapVars
  <2>2. CASE stage'.phase = "feed" /\ stage'.i = 1 /\ stage'.call = FALSE /\ UNCHANGED <<queue, cut>>
    <3>1. BeforeFeed' /\ BeforeStore' BY <2>2 DEF BeforeFeed, BeforeStore
    <3> QED BY <1>17, <2>1, <2>2, <3>1
  <2>3. CASE cut' = cut \cup {stage.phase}
    <3>1. cut' # {} BY <2>3
    <3> QED BY <3>1 DEF FeedsOK
  <2> QED BY <2>1, <2>2, <2>3
<1>21. CASE EmitFeed
  <2>1. /\ ~Idle /\ stage.phase = "feed" /\ ~stage.call
        /\ UNCHANGED <<value, queue, subPrev, cut, restored>>
        /\ \/ /\ stage.i = 1 /\ Touches(Ops, FeedKey) # {}
              /\ heard' = FeedReads(FeedKey) /\ stage' = [stage EXCEPT !.call = TRUE]
           \/ /\ ~(stage.i = 1 /\ Touches(Ops, FeedKey) # {})
              /\ heard' = heard /\ stage' = [phase |-> "store", i |-> 1, call |-> FALSE]
    BY <1>21 DEF EmitFeed, Goto, Calls, mapVars
  <2>2. queue[1] = Publishing /\ 1 \in 1..Len(queue) /\ Publishing.kind = "commit"
    BY <1>1, <2>1 DEF Publishing, Idle, PlaceOK
  <2>3. CASE restored BY <2>1, <2>3 DEF FeedsOK
  <2>4. CASE ~restored /\ heard' = FeedReads(FeedKey) /\ stage' = [stage EXCEPT !.call = TRUE]
    <3>1. FeedReads(FeedKey) = value[FeedKey] BY <1>4, <2>2, <2>4 DEF FeedReads
    <3>2. stage'.phase = "feed" BY <1>1, <2>1, <2>4
    <3>3. BeforeStore' BY <3>2 DEF BeforeStore
    <3> QED BY <1>17, <2>1, <2>4, <3>1, <3>3
  <2>5. CASE /\ ~(stage.i = 1 /\ Touches(Ops, FeedKey) # {})
             /\ heard' = heard /\ stage' = [phase |-> "store", i |-> 1, call |-> FALSE]
    <3>1. BeforeFeed => ~Bears(queue[1], FeedKey)
      BY <2>1, <2>2, <2>5 DEF BeforeFeed, Bears, Ops
    <3>2. BeforeStore' BY <2>5 DEF BeforeStore
    <3> QED BY <1>17, <2>1, <2>5, <3>1, <3>2
  <2> QED BY <2>1, <2>3, <2>4, <2>5
<1>22. CASE EmitStore
  <2>1. /\ ~Idle /\ stage.phase = "store" /\ ~stage.call
        /\ UNCHANGED <<value, queue, heard, cut, restored>>
        /\ \/ subPrev' = value[SubKey]
           \/ /\ ~(stage.i = 1 /\ Touches(Ops, SubKey) # {} /\ value[SubKey] # subPrev)
              /\ subPrev' = subPrev
    BY <1>22 DEF EmitStore, mapVars
  <2>2. queue[1] = Publishing /\ 1 \in 1..Len(queue) /\ Publishing.kind = "commit"
    BY <1>1, <2>1 DEF Publishing, Idle, PlaceOK
  <2>3. ~BeforeFeed BY <2>1 DEF BeforeFeed
  <2>4. subPrev' = value[SubKey] \/ (subPrev' = subPrev /\ (BeforeStore => ~Bears(queue[1], SubKey)))
    BY <2>1, <2>2 DEF BeforeStore, Bears, Ops
  <2> QED BY <1>17, <2>1, <2>3, <2>4
<1>23. CASE EmitObserver
  <2>1. /\ ~Idle /\ stage.phase = "observer" /\ EndPublication
        /\ UNCHANGED <<value, heard, subPrev, restored>>
        /\ cut' = IF Publishing.kind = "snapshot" THEN {} ELSE cut
    BY <1>23 DEF EmitObserver, mapVars
  <2>2. queue[1] = Publishing /\ 1 \in 1..Len(queue) BY <1>0, <2>1 DEF Publishing, Idle
  <2>3. ~restored => cut' = cut BY <1>4, <2>1, <2>2
  <2> QED BY <1>16, <2>1, <2>3
<1>24. CASE ListenerReturns \/ WatchThrows
  <2>1. /\ stage.call /\ stage' = [stage EXCEPT !.i = @ + 1, !.call = FALSE]
        /\ UNCHANGED <<value, queue, heard, subPrev, cut, restored>>
    BY <1>24 DEF ListenerReturns, WatchThrows, NextEntry, mapVars, listenerVars
  <2>2. stage'.phase = stage.phase BY <1>1, <2>1
  <2>3. (BeforeFeed => BeforeFeed') /\ (BeforeStore => BeforeStore')
    BY <2>1, <2>2 DEF BeforeFeed, BeforeStore
  <2> QED BY <1>17, <2>1, <2>3
<1>25. CASE FeedThrows
  <2>1. cut' = cut \cup {stage.phase} BY <1>25 DEF FeedThrows, CutPublication
  <2>2. cut' # {} BY <2>1
  <2> QED BY <2>2 DEF FeedsOK
<1>26. CASE Publish
  BY <1>18, <1>19, <1>20, <1>21, <1>22, <1>23, <1>24, <1>25, <1>26 DEF Publish
<1> QED BY <1>7, <1>8, <1>9, <1>11, <1>12, <1>13, <1>14, <1>15, <1>26, StepKinds

-----------------------------------------------------------------------------
(* What a replica makes of the commits it is shown.                        *)

(* The replica after each of the publications. *)
LEMMA CatchesUpSteps ==
  ASSUME NEW r, NEW q, Len(q) \in Nat
  PROVE /\ CatchesUp(r, q)[0] = r
        /\ \A n \in 1..Len(q) :
             CatchesUp(r, q)[n] = Shown(CatchesUp(r, q)[n - 1], q[n])
<1> DEFINE first == r
           Fits(f, m) == f = [n \in 0..m |-> IF n = 0 THEN first ELSE Shown(f[n - 1], q[n])]
           T == { m \in Nat : \E f : Fits(f, m) }
<1> HIDE DEF first
<1>1. 0 \in T
  <2>1. Fits([n \in 0..0 |-> first], 0) OBVIOUS
  <2> QED BY <2>1
<1>2. ASSUME NEW m \in Nat, m \in T PROVE m + 1 \in T
  <2>1. PICK f : Fits(f, m) BY <1>2
  <2> DEFINE g == [n \in 0..(m + 1) |-> IF n = m + 1 THEN Shown(f[m], q[m + 1]) ELSE f[n]]
  <2>2. ASSUME NEW n \in 0..(m + 1)
        PROVE g[n] = IF n = 0 THEN first ELSE Shown(g[n - 1], q[n])
    <3>1. CASE n = m + 1
      <4>1. g[n] = Shown(f[m], q[m + 1]) /\ n # 0 BY <3>1
      <4>2. n - 1 = m /\ g[m] = f[m] BY <3>1
      <4> QED BY <4>1, <4>2, <3>1
    <3>2. CASE n # m + 1
      <4>1. n \in 0..m BY <3>2
      <4>2. g[n] = f[n] BY <3>2
      <4>3. f[n] = IF n = 0 THEN first ELSE Shown(f[n - 1], q[n]) BY <4>1, <2>1
      <4>4. CASE n = 0 BY <4>4, <4>2, <4>3
      <4>5. CASE n # 0
        <5>1. n - 1 \in 0..(m + 1) /\ n - 1 # m + 1 BY <4>1, <4>5
        <5>2. g[n - 1] = f[n - 1] BY <5>1
        <5> QED BY <4>2, <4>3, <4>5, <5>2
      <4> QED BY <4>4, <4>5
    <3> QED BY <3>1, <3>2
  <2> HIDE DEF g
  <2>3. g = [n \in 0..(m + 1) |-> g[n]] BY DEF g
  <2>4. Fits(g, m + 1) BY <2>2, <2>3
  <2> QED BY <2>4
<1>3. Len(q) \in T
  <2> HIDE DEF T
  <2> QED BY <1>1, <1>2, SetInduction
<1>4. Fits(CatchesUp(r, q), Len(q))
  <2>1. PICK f : Fits(f, Len(q)) BY <1>3
  <2> QED BY <2>1 DEF CatchesUp, first
<1> DEFINE after == CatchesUp(r, q)
<1> HIDE DEF after
<1>5. after = [n \in 0..Len(q) |-> IF n = 0 THEN first ELSE Shown(after[n - 1], q[n])]
  BY <1>4 DEF after
<1>6. after[0] = first BY <1>5
<1>7. \A n \in 1..Len(q) : n \in 0..Len(q) /\ n # 0 OBVIOUS
<1>8. \A n \in 1..Len(q) : after[n] = Shown(after[n - 1], q[n]) BY <1>5, <1>7
<1> QED BY <1>6, <1>8 DEF after, first

(* Shown nothing it stays what it is. *)
LEMMA CatchUpEmpty ==
  ASSUME NEW r PROVE CatchUp(r, <<>>) = r
BY CatchesUpSteps DEF CatchUp

(* One publication more is shown to what the others leave. *)
LEMMA CatchUpAppend ==
  ASSUME NEW S, NEW r, NEW q \in Seq(S), NEW e
  PROVE CatchUp(r, Append(q, e)) = Shown(CatchUp(r, q), e)
<1> DEFINE more == Append(q, e)
           T == { n \in 0..Len(q) : CatchesUp(r, more)[n] = CatchesUp(r, q)[n] }
<1>1. /\ Len(q) \in Nat /\ Len(more) = Len(q) + 1
      /\ more[Len(q) + 1] = e
      /\ \A n \in 1..Len(q) : more[n] = q[n]
  OBVIOUS
<1> HIDE DEF more
<1>2. Len(more) \in Nat BY <1>1
<1>3. /\ CatchesUp(r, q)[0] = r
      /\ \A n \in 1..Len(q) : CatchesUp(r, q)[n] = Shown(CatchesUp(r, q)[n - 1], q[n])
  BY <1>1, CatchesUpSteps
<1>4. /\ CatchesUp(r, more)[0] = r
      /\ \A n \in 1..Len(more) : CatchesUp(r, more)[n] = Shown(CatchesUp(r, more)[n - 1], more[n])
  BY <1>2, CatchesUpSteps
<1>5. 0 \in T BY <1>1, <1>3, <1>4
<1>6. ASSUME NEW n \in 1..Len(q), n - 1 \in T PROVE n \in T
  <2>1. n \in 1..Len(more) BY <1>1
  <2> QED BY <1>6, <2>1, <1>1, <1>3, <1>4
<1>7. 0..Len(q) \subseteq T
  <2> HIDE DEF T
  <2> QED BY <1>1, <1>5, <1>6, BoundedInduction
<1>8. CatchesUp(r, more)[Len(q)] = CatchesUp(r, q)[Len(q)] BY <1>1, <1>7
<1>9. Len(more) \in 1..Len(more) /\ Len(more) - 1 = Len(q) BY <1>1
<1>10. CatchesUp(r, more)[Len(more)] = Shown(CatchesUp(r, q)[Len(q)], e)
  BY <1>1, <1>4, <1>8, <1>9
<1> QED BY <1>10 DEF more, CatchUp

(* The first publication can be shown by itself. *)
LEMMA CatchUpTail ==
  ASSUME NEW S, NEW r, NEW q \in Seq(S), q # <<>>
  PROVE CatchUp(r, q) = CatchUp(Shown(r, q[1]), Tail(q))
<1> DEFINE z == Tail(q)
           s == Shown(r, q[1])
           T == { n \in 0..Len(z) : CatchesUp(s, z)[n] = CatchesUp(r, q)[n + 1] }
<1>1. /\ Len(q) \in Nat /\ Len(z) \in Nat /\ Len(q) = Len(z) + 1
      /\ \A n \in 1..Len(z) : z[n] = q[n + 1]
  OBVIOUS
<1> HIDE DEF z, s
<1>2. /\ CatchesUp(r, q)[0] = r
      /\ \A n \in 1..Len(q) : CatchesUp(r, q)[n] = Shown(CatchesUp(r, q)[n - 1], q[n])
  BY <1>1, CatchesUpSteps
<1>3. /\ CatchesUp(s, z)[0] = s
      /\ \A n \in 1..Len(z) : CatchesUp(s, z)[n] = Shown(CatchesUp(s, z)[n - 1], z[n])
  BY <1>1, CatchesUpSteps
<1>4. 0 \in T
  <2>1. 1 \in 1..Len(q) /\ 1 - 1 = 0 /\ 0 + 1 = 1 BY <1>1
  <2>2. CatchesUp(r, q)[1] = Shown(CatchesUp(r, q)[1 - 1], q[1]) BY <1>2, <2>1
  <2>3. CatchesUp(r, q)[1] = s BY <1>2, <2>1, <2>2 DEF s
  <2> QED BY <1>1, <1>3, <2>1, <2>3
<1>5. ASSUME NEW n \in 1..Len(z), n - 1 \in T PROVE n \in T
  <2>1. n + 1 \in 1..Len(q) /\ n + 1 - 1 = n /\ n - 1 + 1 = n BY <1>1
  <2>2. CatchesUp(s, z)[n - 1] = CatchesUp(r, q)[n] BY <1>5, <2>1
  <2>3. CatchesUp(r, q)[n + 1] = Shown(CatchesUp(r, q)[n], q[n + 1]) BY <1>2, <2>1
  <2> QED BY <1>1, <1>3, <2>2, <2>3
<1>6. 0..Len(z) \subseteq T
  <2> HIDE DEF T
  <2> QED BY <1>1, <1>4, <1>5, BoundedInduction
<1>7. CatchesUp(s, z)[Len(z)] = CatchesUp(r, q)[Len(q)] BY <1>1, <1>6
<1> QED BY <1>7 DEF z, s, CatchUp

(* What a replica is shown that is no snapshot does not depend on the map. *)
LEMMA ShownReplayed ==
  ASSUME NEW r, NEW e, NEW now, e.kind # "snapshot"
  PROVE Replayed(r, e, now) = Shown(r, e)
BY DEF Shown, Replayed

(* A commit on another revision is refused. *)
LEMMA ReplayRefused ==
  ASSUME NEW r, NEW e, e.kind # "snapshot", e.commit.prevRev # r.rev
  PROVE Shown(r, e) = r
BY DEF Shown, Replayed

(* A replica that no commit starts from stays what it is. *)
LEMMA CatchUpRefused ==
  ASSUME NEW S, NEW r, NEW q \in Seq(S), QuietFrom(q, 1),
         \A m \in 1..Len(q) : q[m].commit.prevRev # r.rev
  PROVE CatchUp(r, q) = r
<1> DEFINE T == { n \in 0..Len(q) : CatchesUp(r, q)[n] = r }
<1>1. Len(q) \in Nat OBVIOUS
<1>2. /\ CatchesUp(r, q)[0] = r
      /\ \A n \in 1..Len(q) : CatchesUp(r, q)[n] = Shown(CatchesUp(r, q)[n - 1], q[n])
  BY <1>1, CatchesUpSteps
<1>3. 0 \in T BY <1>1, <1>2
<1>4. ASSUME NEW n \in 1..Len(q), n - 1 \in T PROVE n \in T
  <2>1. Shown(r, q[n]) = r BY ReplayRefused DEF QuietFrom
  <2> QED BY <1>2, <1>4, <2>1
<1>5. 0..Len(q) \subseteq T
  <2> HIDE DEF T
  <2> QED BY <1>1, <1>3, <1>4, BoundedInduction
<1> QED BY <1>1, <1>5 DEF CatchUp

(* A commit replayed on the state it was made on is the commit again. *)
LEMMA ReplayOfCommit ==
  ASSUME NEW r, NEW e, NEW next, NEW ops,
         Commits(r.value, r.quids, next, ops),
         e.kind = "commit", e.commit.prevRev = r.rev, e.commit.ops = ops, e.commit.before = r.value
  PROVE LET o == reconcile_overlay(r.quids, ops)
        IN Shown(r, e) = [value |-> next, quids |-> o, rev |-> r.rev + 1,
                          issued |-> IF ReplacesRoot(ops) THEN Active(o) ELSE r.issued]
<1> DEFINE plan == ReplayPlan(r, e.commit)
           o == reconcile_overlay(r.quids, ops)
<1>1. plan = [ok |-> TRUE, value |-> next, ops |-> ops] BY DEF ReplayPlan, Commits
<1>2. plan.ok /\ plan.value = next /\ plan.ops = ops BY <1>1
<1>3. PriorValuesMatch(r, e.commit) BY DEF PriorValuesMatch
<1>4. ops # <<>> BY DEF Commits
<1>5. Shown(r, e) =
        LET nextQuids == reconcile_overlay(r.quids, plan.ops)
        IN IF PriorValuesMatch(r, e.commit) /\ plan.ok /\ plan.ops # <<>>
           THEN [value |-> plan.value, quids |-> nextQuids, rev |-> r.rev + 1,
                 issued |-> IF ReplacesRoot(e.commit.ops) THEN Active(nextQuids) ELSE r.issued]
           ELSE r
  <2> HIDE DEF plan
  <2> QED BY DEF Shown, Replayed, plan
<1> HIDE DEF plan
<1> QED BY <1>2, <1>3, <1>4, <1>5

(* So is a registration of an identity. *)
LEMMA ReplayOfQuid ==
  ASSUME NEW r, NEW e, NEW k, NEW x,
         e.kind = "identity", e.commit.prevRev = r.rev,
         e.commit.ops[1].key = k, e.commit.ops[1].val = x,
         r.value[k] # Absent, r.quids[k] = NoQuid, x \notin Active(r.quids) \cup r.issued
  PROVE Shown(r, e) = [value |-> r.value, quids |-> [r.quids EXCEPT ![k] = x],
                       rev |-> r.rev + 1, issued |-> r.issued \cup {x}]
<1>1. ReplaysQuid(r, e.commit.ops[1]) BY DEF ReplaysQuid
<1> QED BY <1>1 DEF Shown, Replayed

(* A plan holds a root and operations. *)
LEMMA PlanType ==
  ASSUME NEW root \in Root, NEW q, NEW writes \in Seq(Operation)
  PROVE /\ plan_write_ops_with_identity(root, q, writes).value \in Root
        /\ plan_write_ops_with_identity(root, q, writes).ops \in Seq(Operation)
<1> DEFINE p == plan_write_ops(root, writes)
           r == Retirements(root, q, writes)[Len(writes)]
           plan == plan_write_ops_with_identity(root, q, writes)
<1>1. p.value \in Root /\ p.ops \in Seq(Operation) BY PlanLeads DEF Plan
<1>2. r \in Seq(Operation) BY RetirementsRetire
<1>3. plan = p \/ plan = [ok |-> TRUE, value |-> p.value, ops |-> r] BY DEF plan_write_ops_with_identity
<1> HIDE DEF p, r, plan
<1>4. plan.value \in Root /\ plan.ops \in Seq(Operation) BY <1>1, <1>2, <1>3
<1> QED BY <1>4 DEF plan

(* A replica stays one, whatever it is shown. *)
LEMMA ReplayedType ==
  ASSUME NEW r \in Replica, NEW now \in Replica, NEW e \in Publication,
         e.kind = "identity" => Len(e.commit.ops) = 1
  PROVE Replayed(r, e, now) \in Replica
<1>1. r.value \in Root /\ r.quids \in Overlay /\ r.rev \in Nat /\ r.rev + 1 \in Nat /\ r.issued \subseteq Quid
  BY DEF Replica
<1>2. CASE e.kind = "snapshot" BY <1>2 DEF Replayed
<1>3. CASE e.kind # "snapshot" /\ e.commit.prevRev # r.rev
  BY <1>3, ReplayRefused, ShownReplayed
<1>4. CASE e.kind = "identity" /\ e.commit.prevRev = r.rev
  <2> DEFINE Registration == [kind : {"quid"}, key : Key, to : {None}, val : Quid]
             ops == e.commit.ops
             op == ops[1]
  <2>1. ops \in Seq(Registration) /\ Len(ops) = 1 BY <1>4 DEF Publication
  <2> HIDE DEF ops
  <2>2. op \in Registration
    <3> HIDE DEF Registration
    <3> QED BY <2>1
  <2> HIDE DEF op
  <2>3. op.key \in Key /\ op.val \in Quid BY <2>2
  <2> HIDE DEF op
  <2>4. \/ Replayed(r, e, now) = r
        \/ Replayed(r, e, now) =
             [value |-> r.value, quids |-> [r.quids EXCEPT ![op.key] = op.val],
              rev |-> r.rev + 1, issued |-> r.issued \cup {op.val}]
    BY <1>4 DEF Replayed, op, ops
  <2>5. [r.quids EXCEPT ![op.key] = op.val] \in Overlay BY <1>1, <2>3 DEF Overlay
  <2> QED BY <1>1, <2>3, <2>4, <2>5 DEF Replica
<1>5. CASE e.kind = "commit" /\ e.commit.prevRev = r.rev
  <2> DEFINE plan == ReplayPlan(r, e.commit)
             o == reconcile_overlay(r.quids, plan.ops)
             s == IF ReplacesRoot(e.commit.ops) THEN Active(o) ELSE r.issued
  <2>1. e.commit.ops \in Seq(Operation) BY <1>5 DEF Publication
  <2>2. plan.value \in Root /\ plan.ops \in Seq(Operation) BY <1>1, <2>1, PlanType DEF ReplayPlan
  <2>3. \/ Replayed(r, e, now) = r
        \/ Replayed(r, e, now) = [value |-> plan.value, quids |-> o, rev |-> r.rev + 1, issued |-> s]
    <3> HIDE DEF plan
    <3> QED BY <1>5 DEF Replayed, plan
  <2> HIDE DEF plan
  <2>4. o \in Overlay BY <1>1, <2>2, OverlayType
  <2> HIDE DEF o
  <2>5. s \subseteq Quid BY <1>1, <2>4 DEF Active, Overlay
  <2> HIDE DEF s
  <2> QED BY <1>1, <2>2, <2>3, <2>4, <2>5 DEF Replica
<1>6. e.kind \in {"commit", "identity", "snapshot"} BY DEF Publication
<1> QED BY <1>2, <1>3, <1>4, <1>5, <1>6

-----------------------------------------------------------------------------
(* The queue a replica is fed from.                                        *)

(* What is queued at the present revision comes behind what was queued. *)
LEMMA OrderedAppend ==
  ASSUME NEW q \in Seq(Publication), NEW now \in Nat, NEW e, Ordered(q, now), e.commit.prevRev = now
  PROVE Ordered(Append(q, e), now + 1)
<1> DEFINE z == Append(q, e)
<1>1. /\ Len(q) \in Nat /\ Len(z) = Len(q) + 1 /\ z[Len(q) + 1] = e
      /\ \A m \in 1..Len(q) : z[m] = q[m]
  OBVIOUS
<1>2. \A m \in 1..Len(q) : q[m] \in Publication OBVIOUS
<1> HIDE DEF z
<1>3. SUFFICES ASSUME NEW m \in 1..Len(z), QuietFrom(z, m)
               PROVE /\ z[m].commit.prevRev < now + 1
                     /\ \A n \in 1..Len(z) : m < n => z[m].commit.prevRev < z[n].commit.prevRev
  BY DEF Ordered, z
<1>4. CASE m = Len(q) + 1
  <2>1. z[m].commit.prevRev = now BY <1>1, <1>4
  <2>2. \A n \in 1..Len(z) : ~(m < n) BY <1>1, <1>4
  <2> QED BY <2>1, <2>2
<1>5. CASE m \in 1..Len(q)
  <2>1. QuietFrom(q, m) BY <1>1, <1>3, <1>5 DEF QuietFrom
  <2>2. q[m].kind # "snapshot" BY <1>1, <1>5, <2>1 DEF QuietFrom
  <2>3. q[m].commit.prevRev \in Nat BY <1>2, <1>5, <2>2 DEF Publication
  <2>4. /\ q[m].commit.prevRev < now
        /\ \A n \in 1..Len(q) : m < n => q[m].commit.prevRev < q[n].commit.prevRev
    BY <1>5, <2>1 DEF Ordered
  <2>5. z[m] = q[m] BY <1>1, <1>5
  <2>6. z[m].commit.prevRev < now + 1 BY <2>3, <2>4, <2>5
  <2>7. ASSUME NEW n \in 1..Len(z), m < n PROVE z[m].commit.prevRev < z[n].commit.prevRev
    <3>1. CASE n \in 1..Len(q)
      <4>1. z[n] = q[n] BY <1>1, <3>1
      <4> QED BY <2>4, <2>5, <2>7, <3>1, <4>1
    <3>2. CASE n = Len(q) + 1
      <4>1. z[n].commit.prevRev = now BY <1>1, <3>2
      <4> QED BY <2>4, <2>5, <4>1
    <3> QED BY <1>1, <3>1, <3>2
  <2> QED BY <2>6, <2>7
<1> QED BY <1>1, <1>4, <1>5

(* Behind a snapshot there is nothing yet. *)
LEMMA OrderedSnapshot ==
  ASSUME NEW S, NEW q \in Seq(S), NEW e, NEW now, e.kind = "snapshot"
  PROVE Ordered(Append(q, e), now) /\ ~QuietFrom(Append(q, e), 1)
<1> DEFINE z == Append(q, e)
<1>1. Len(q) \in Nat /\ Len(z) = Len(q) + 1 /\ z[Len(z)] = e OBVIOUS
<1> HIDE DEF z
<1>2. ASSUME NEW m \in 1..Len(z) PROVE ~QuietFrom(z, m)
  <2>1. Len(z) \in m..Len(z) BY <1>1
  <2> QED BY <1>1, <2>1 DEF QuietFrom
<1>3. 1 \in 1..Len(z) BY <1>1
<1>4. Ordered(z, now) BY <1>2 DEF Ordered
<1> QED BY <1>2, <1>3, <1>4 DEF z

(* The order holds without the first publication. *)
LEMMA OrderedTail ==
  ASSUME NEW S, NEW q \in Seq(S), q # <<>>, NEW now, Ordered(q, now)
  PROVE Ordered(Tail(q), now)
<1> DEFINE z == Tail(q)
<1>1. /\ Len(q) \in Nat /\ Len(z) = Len(q) - 1
      /\ \A m \in 1..Len(z) : z[m] = q[m + 1]
  OBVIOUS
<1> HIDE DEF z
<1>2. SUFFICES ASSUME NEW m \in 1..Len(z), QuietFrom(z, m)
               PROVE /\ z[m].commit.prevRev < now
                     /\ \A n \in 1..Len(z) : m < n => z[m].commit.prevRev < z[n].commit.prevRev
  BY DEF Ordered, z
<1>3. m + 1 \in 1..Len(q) BY <1>1
<1>4. QuietFrom(q, m + 1)
  <2> SUFFICES ASSUME NEW n \in (m + 1)..Len(q) PROVE q[n].kind # "snapshot" BY DEF QuietFrom
  <2>1. n - 1 \in m..Len(z) /\ n - 1 \in 1..Len(z) /\ n - 1 + 1 = n BY <1>1
  <2> QED BY <1>1, <1>2, <2>1 DEF QuietFrom
<1>5. /\ q[m + 1].commit.prevRev < now
      /\ \A n \in 1..Len(q) : m + 1 < n => q[m + 1].commit.prevRev < q[n].commit.prevRev
  BY <1>3, <1>4 DEF Ordered
<1>6. ASSUME NEW n \in 1..Len(z), m < n PROVE z[m].commit.prevRev < z[n].commit.prevRev
  <2>1. n + 1 \in 1..Len(q) /\ m + 1 < n + 1 BY <1>1, <1>6
  <2> QED BY <1>1, <1>5, <2>1
<1> QED BY <1>1, <1>5, <1>6

(* A quiet queue was quiet before the last came, and is without the first. *)
LEMMA QuietQueues ==
  ASSUME NEW S, NEW q \in Seq(S), NEW e
  PROVE /\ QuietFrom(Append(q, e), 1) => QuietFrom(q, 1) /\ e.kind # "snapshot"
        /\ q # <<>> /\ QuietFrom(Tail(q), 1) /\ q[1].kind # "snapshot" => QuietFrom(q, 1)
<1> DEFINE z == Append(q, e)
           t == Tail(q)
<1>1. /\ Len(q) \in Nat /\ Len(z) = Len(q) + 1 /\ z[Len(z)] = e
      /\ \A m \in 1..Len(q) : z[m] = q[m]
  OBVIOUS
<1>2. q # <<>> => Len(t) = Len(q) - 1 /\ \A m \in 1..Len(t) : t[m] = q[m + 1] OBVIOUS
<1> HIDE DEF z, t
<1>3. ASSUME QuietFrom(z, 1) PROVE QuietFrom(q, 1) /\ e.kind # "snapshot"
  BY <1>1, <1>3 DEF QuietFrom
<1>4. ASSUME q # <<>>, QuietFrom(t, 1), q[1].kind # "snapshot" PROVE QuietFrom(q, 1)
  <2> SUFFICES ASSUME NEW n \in 1..Len(q) PROVE q[n].kind # "snapshot" BY DEF QuietFrom
  <2>1. CASE n = 1 BY <1>4, <2>1
  <2>2. CASE n # 1
    <3>1. n - 1 \in 1..Len(t) /\ n - 1 + 1 = n BY <1>1, <1>2, <1>4, <2>2
    <3> QED BY <1>2, <1>4, <3>1 DEF QuietFrom
  <2> QED BY <2>1, <2>2
<1> QED BY <1>3, <1>4 DEF z, t

(* A replica that is behind stays behind. *)
LEMMA StaysBehind ==
  ASSUME NEW S, NEW q \in Seq(S), NEW r, r.rev \in Nat, NEW now \in Nat, Behind(r, q, now)
  PROVE /\ \A e : e.commit.prevRev = now => Behind(r, Append(q, e), now + 1)
        /\ q # <<>> => Behind(r, Tail(q), now)
<1>1. r.rev < now /\ \A m \in 1..Len(q) : q[m].commit.prevRev # r.rev BY DEF Behind
<1>2. ASSUME NEW e, e.commit.prevRev = now PROVE Behind(r, Append(q, e), now + 1)
  <2> DEFINE z == Append(q, e)
  <2>1. /\ Len(q) \in Nat /\ Len(z) = Len(q) + 1 /\ z[Len(q) + 1] = e
        /\ \A m \in 1..Len(q) : z[m] = q[m]
    OBVIOUS
  <2> HIDE DEF z
  <2>2. ASSUME NEW m \in 1..Len(z) PROVE z[m].commit.prevRev # r.rev
    <3>1. CASE m = Len(q) + 1
      <4>1. z[m].commit.prevRev = now BY <1>2, <2>1, <3>1
      <4> QED BY <1>1, <4>1
    <3>2. CASE m \in 1..Len(q)
      <4>1. z[m] = q[m] BY <2>1, <3>2
      <4> QED BY <1>1, <3>2, <4>1
    <3> QED BY <2>1, <3>1, <3>2
  <2>3. r.rev < now + 1 BY <1>1
  <2>4. Behind(r, z, now + 1) BY <2>2, <2>3 DEF Behind
  <2> QED BY <2>4 DEF z
<1>3. ASSUME q # <<>> PROVE Behind(r, Tail(q), now)
  <2> DEFINE z == Tail(q)
  <2>1. Len(q) \in Nat /\ Len(z) = Len(q) - 1 /\ \A m \in 1..Len(z) : z[m] = q[m + 1] BY <1>3
  <2> HIDE DEF z
  <2>2. ASSUME NEW m \in 1..Len(z) PROVE z[m].commit.prevRev # r.rev
    <3>1. m + 1 \in 1..Len(q) BY <2>1
    <3> QED BY <1>1, <2>1, <3>1
  <2>3. Behind(r, z, now) BY <1>1, <2>2 DEF Behind
  <2> QED BY <2>3 DEF z
<1> QED BY <1>2, <1>3

(* A commit is queued, and a replica that mirrors the map will follow it. *)
LEMMA ReplicaAppends ==
  ASSUME CoreInv, NEW e, queue' = Append(queue, e), e.commit.prevRev = rev, rev' = rev + 1,
         UNCHANGED <<replica, cut>>,
         \A c : RootsShow /\ Mirrors(c, value, quids, rev, issued)
                  => Mirrors(Shown(c, e), value', quids', rev', issued')
  PROVE ReplicaOK'
<1>1. replica \in Replica /\ Ordered(queue, rev) /\ rev \in Nat BY DEF CoreInv, MapOK, ReplicaOK
<1>0. queue \in Seq(Publication) BY DEF CoreInv, PlaceOK
<1>2. Ordered(queue', rev') BY <1>0, <1>1, OrderedAppend
<1>3. ASSUME RootsShow, QuietFrom(queue', 1)
      PROVE \/ Mirrors(CatchUp(replica', queue'), value', quids', rev', issued')
            \/ cut' # {} /\ Behind(replica', queue', rev')
  <2>1. QuietFrom(queue, 1) BY <1>0, <1>3, QuietQueues
  <2>2. CASE Mirrors(CatchUp(replica, queue), value, quids, rev, issued)
    <3> DEFINE c == CatchUp(replica, queue)
    <3>1. CatchUp(replica, Append(queue, e)) = Shown(c, e) BY <1>0, CatchUpAppend
    <3> HIDE DEF c
    <3>2. Mirrors(Shown(c, e), value', quids', rev', issued') BY <1>3, <2>2 DEF c
    <3> QED BY <3>1, <3>2
  <2>3. CASE cut # {} /\ Behind(replica, queue, rev)
    <3>1. replica.rev \in Nat BY <1>1 DEF Replica
    <3>2. Behind(replica, Append(queue, e), rev + 1) BY <1>0, <1>1, <2>3, <3>1, StaysBehind
    <3> QED BY <2>3, <3>2
  <2> QED BY <1>3, <2>1, <2>2, <2>3 DEF CoreInv, ReplicaOK
<1> QED BY <1>1, <1>2, <1>3 DEF ReplicaOK

(* The observer is shown the first publication. *)
LEMMA ReplicaShown ==
  ASSUME CoreInv, EmitObserver
  PROVE ReplicaOK'
<1>1. /\ replica \in Replica /\ Ordered(queue, rev) /\ rev \in Nat
      /\ value \in Root /\ quids \in Overlay /\ issued \subseteq Quid /\ Active(quids) \subseteq issued
  BY DEF CoreInv, MapOK, ReplicaOK
<1>0. queue \in Seq(Publication) BY DEF CoreInv, PlaceOK
<1>2. /\ queue # <<>> /\ queue' = Tail(queue)
      /\ replica' = Replayed(replica, Publishing, Captured)
      /\ cut' = IF Publishing.kind = "snapshot" THEN {} ELSE cut
      /\ UNCHANGED <<value, quids, rev, issued>>
  BY DEF EmitObserver, EndPublication, Idle, mapVars
<1> DEFINE e == queue[1]
<1>3. Publishing = e /\ 1 \in 1..Len(queue) /\ e \in Publication BY <1>0, <1>2 DEF Publishing
<1>4. e.kind = "identity" => Len(e.commit.ops) = 1 BY <1>3 DEF CoreInv, PlaceOK
<1>5. Captured \in Replica BY <1>1 DEF Captured, Replica
<1> HIDE DEF e
<1>6. replica' \in Replica BY <1>1, <1>2, <1>3, <1>4, <1>5, ReplayedType
<1>7. Ordered(Tail(queue), rev) BY <1>0, <1>1, <1>2, OrderedTail
<1> DEFINE z == Tail(queue)
<1>8. z \in Seq(Publication) BY <1>0, <1>2
<1>9. ASSUME RootsShow, QuietFrom(z, 1)
      PROVE \/ Mirrors(CatchUp(replica', z), value, quids, rev, issued)
            \/ cut' # {} /\ Behind(replica', z, rev)
  <2>1. CASE e.kind = "snapshot"
    <3>1. replica' = Captured BY <1>2, <1>3, <2>1 DEF Replayed
    <3>2. Captured.rev = rev BY DEF Captured
    <3>3. ASSUME NEW m \in 1..Len(z) PROVE z[m].commit.prevRev # rev
      <4>1. Ordered(z, rev) BY <1>7
      <4> HIDE DEF z
      <4>2. QuietFrom(z, m) BY <1>9 DEF QuietFrom
      <4>3. z[m].kind # "snapshot" /\ z[m] \in Publication BY <1>8, <1>9 DEF QuietFrom
      <4>4. z[m].commit.prevRev \in Nat BY <4>3 DEF Publication
      <4>5. z[m].commit.prevRev < rev BY <4>1, <4>2 DEF Ordered
      <4> QED BY <1>1, <4>4, <4>5
    <3> HIDE DEF z
    <3>4. CatchUp(Captured, z) = Captured BY <1>8, <1>9, <3>2, <3>3, CatchUpRefused
    <3>5. Mirrors(Captured, value, quids, rev, issued) BY <1>1 DEF Mirrors, Captured
    <3> QED BY <3>1, <3>4, <3>5
  <2>2. CASE e.kind # "snapshot"
    <3>1. replica' = Shown(replica, e) /\ cut' = cut BY <1>2, <1>3, <2>2, ShownReplayed
    <3>2. QuietFrom(queue, 1) BY <1>0, <1>2, <1>9, <2>2, QuietQueues DEF e
    <3>3. CatchUp(replica, queue) = CatchUp(Shown(replica, e), z) BY <1>0, <1>2, CatchUpTail DEF e
    <3>4. CASE Mirrors(CatchUp(replica, queue), value, quids, rev, issued) BY <3>1, <3>3, <3>4
    <3>5. CASE cut # {} /\ Behind(replica, queue, rev)
      <4>1. e.commit.prevRev # replica.rev BY <1>3, <3>5 DEF Behind, e
      <4>2. replica' = replica BY <2>2, <3>1, <4>1, ReplayRefused
      <4>3. replica.rev \in Nat BY <1>1 DEF Replica
      <4>4. Behind(replica, Tail(queue), rev) BY <1>0, <1>1, <1>2, <3>5, <4>3, StaysBehind
      <4> QED BY <3>1, <3>5, <4>2, <4>4
    <3> QED BY <1>9, <3>2, <3>4, <3>5 DEF CoreInv, ReplicaOK
  <2> QED BY <2>1, <2>2
<1> QED BY <1>2, <1>6, <1>7, <1>9 DEF ReplicaOK

(* A commit is cut off before the observer is shown it. *)
LEMMA ReplicaMisses ==
  ASSUME CoreInv, ~Idle, stage.phase \in {"link", "feed", "store"}, CutPublication,
         UNCHANGED <<value, quids, rev, issued, replica>>
  PROVE ReplicaOK'
<1>1. replica \in Replica /\ Ordered(queue, rev) /\ rev \in Nat BY DEF CoreInv, MapOK, ReplicaOK
<1>0. queue \in Seq(Publication) BY DEF CoreInv, PlaceOK
<1>2. queue # <<>> /\ queue' = Tail(queue) /\ cut' # {} BY DEF CutPublication, EndPublication, Idle
<1> DEFINE e == queue[1]
<1>3. e.kind = "commit" /\ 1 \in 1..Len(queue) BY <1>0, <1>2 DEF CoreInv, PlaceOK
<1>4. Ordered(Tail(queue), rev) BY <1>0, <1>1, <1>2, OrderedTail
<1>5. replica.rev \in Nat BY <1>1 DEF Replica
<1>6. ASSUME RootsShow, QuietFrom(Tail(queue), 1)
      PROVE \/ Mirrors(CatchUp(replica, Tail(queue)), value, quids, rev, issued)
            \/ Behind(replica, Tail(queue), rev)
  <2>1. QuietFrom(queue, 1) BY <1>0, <1>2, <1>3, <1>6, QuietQueues
  <2>2. CatchUp(replica, queue) = CatchUp(Shown(replica, e), Tail(queue)) BY <1>0, <1>2, CatchUpTail
  <2>3. CASE Mirrors(CatchUp(replica, queue), value, quids, rev, issued)
    <3>1. CASE e.commit.prevRev # replica.rev
      <4>1. e.kind # "snapshot" BY <1>3
      <4> HIDE DEF e
      <4>2. Shown(replica, e) = replica BY <3>1, <4>1, ReplayRefused
      <4> QED BY <2>2, <2>3, <4>2
    <3>2. CASE e.commit.prevRev = replica.rev
      <4>1. /\ e.commit.prevRev < rev
            /\ \A n \in 1..Len(queue) : 1 < n => e.commit.prevRev < queue[n].commit.prevRev
        BY <1>1, <1>3, <2>1 DEF Ordered
      <4> DEFINE z == Tail(queue)
      <4>2. Len(queue) \in Nat /\ Len(z) = Len(queue) - 1 /\ z \in Seq(Publication)
            /\ \A m \in 1..Len(z) : z[m] = queue[m + 1]
        BY <1>0, <1>2
      <4> HIDE DEF z, e
      <4>3. ASSUME NEW m \in 1..Len(z) PROVE z[m].commit.prevRev # replica.rev
        <5>1. m + 1 \in 1..Len(queue) /\ 1 < m + 1 BY <4>2
        <5>2. e.commit.prevRev < z[m].commit.prevRev BY <4>1, <4>2, <5>1
        <5>3. z[m].kind # "snapshot" /\ z[m] \in Publication BY <1>6, <4>2 DEF QuietFrom, z
        <5>4. z[m].commit.prevRev \in Nat BY <5>3 DEF Publication
        <5> QED BY <1>5, <3>2, <5>2, <5>4
      <4>4. Behind(replica, z, rev) BY <3>2, <4>1, <4>3 DEF Behind
      <4> QED BY <4>4 DEF z
    <3> QED BY <3>1, <3>2
  <2>4. CASE Behind(replica, queue, rev) BY <1>0, <1>1, <1>2, <1>5, <2>4, StaysBehind
  <2> QED BY <1>6, <2>1, <2>3, <2>4 DEF CoreInv, ReplicaOK
<1> QED BY <1>1, <1>2, <1>4, <1>6 DEF ReplicaOK

(* A replica fed by the observer will be the map, or it is behind. *)
LEMMA ReplicaStep ==
  ASSUME CoreInv, [Next]_vars
  PROVE ReplicaOK'
<1>1. /\ value \in Root /\ quids \in Overlay /\ rev \in Nat /\ issued \subseteq Quid
      /\ Active(quids) \subseteq issued /\ replica \in Replica
  BY DEF CoreInv, MapOK, ReplicaOK
<1>0. queue \in Seq(Publication) BY DEF CoreInv, PlaceOK
<1>2. ASSUME NEW next, NEW ops, NEW replacesRoot, NEW follows,
             Installs(next, ops, replacesRoot, follows)
      PROVE ReplicaOK'
  <2> DEFINE c0 == [prevRev |-> rev, rev |-> rev + 1, ops |-> ops, before |-> value]
             e == [kind |-> "commit", commit |-> c0, frozen |-> None, follows |-> follows]
  <2>1. /\ queue' = Append(queue, e) /\ UNCHANGED <<replica, cut>>
        /\ value' = next /\ quids' = reconcile_overlay(quids, ops) /\ rev' = rev + 1
        /\ IF replacesRoot THEN issued' = Active(quids') ELSE issued' = issued \cup Active(quids')
    BY <1>2 DEF Installs, InstallCommit, Enqueue, listenerVars
  <2>2. /\ e.kind = "commit" /\ e.commit.prevRev = rev /\ e.commit.ops = ops /\ e.commit.before = value
    OBVIOUS
  <2> HIDE DEF e
  <2>3. Commits(value, quids, next, ops) /\ (RootsShow /\ replacesRoot => ReplacesRoot(ops))
    BY <1>2 DEF Installs
  <2>4. ASSUME NEW c, RootsShow, Mirrors(c, value, quids, rev, issued)
        PROVE Mirrors(Shown(c, e), value', quids', rev', issued')
    <3> DEFINE o == reconcile_overlay(quids, ops)
               s == IF ReplacesRoot(ops) THEN Active(o) ELSE c.issued
    <3>1. c.value = value /\ c.quids = quids /\ c.rev = rev /\ c.issued \subseteq issued
      BY <2>4 DEF Mirrors
    <3>2. Shown(c, e) = [value |-> next, quids |-> o, rev |-> rev + 1, issued |-> s]
      BY <2>2, <2>3, <3>1, ReplayOfCommit
    <3>3. quids' = o BY <2>1
    <3> HIDE DEF o
    <3>4. s \subseteq issued' BY <2>1, <2>3, <2>4, <3>1, <3>3
    <3> HIDE DEF s
    <3> QED BY <2>1, <3>2, <3>3, <3>4 DEF Mirrors
  <2> QED BY <2>1, <2>2, <2>4, ReplicaAppends
<1>3. ASSUME NEW k \in Key, EnsureQuid(k) PROVE ReplicaOK'
  <2>1. PICK x \in Quid \ (issued \cup Active(quids)) :
          /\ quids' = [quids EXCEPT ![k] = x]
          /\ issued' = issued \cup {x}
          /\ Enqueue("identity", [prevRev |-> rev, rev |-> rev + 1,
                                  ops |-> <<[kind |-> "quid", key |-> k, to |-> None, val |-> x]>>], FALSE)
    BY <1>3 DEF EnsureQuid
  <2> DEFINE c0 == [prevRev |-> rev, rev |-> rev + 1,
                    ops |-> <<[kind |-> "quid", key |-> k, to |-> None, val |-> x]>>]
             e == [kind |-> "identity", commit |-> c0, frozen |-> None, follows |-> FALSE]
  <2>2. queue' = Append(queue, e) BY <2>1 DEF Enqueue
  <2>3. /\ e.kind = "identity" /\ e.commit.prevRev = rev
        /\ e.commit.ops[1].key = k /\ e.commit.ops[1].val = x
    OBVIOUS
  <2> HIDE DEF e
  <2>4. /\ value[k] # Absent /\ quids[k] = NoQuid /\ value' = value /\ rev' = rev + 1
        /\ UNCHANGED <<replica, cut>>
    BY <1>3 DEF EnsureQuid, listenerVars
  <2>5. ASSUME NEW c, Mirrors(c, value, quids, rev, issued)
        PROVE Mirrors(Shown(c, e), value', quids', rev', issued')
    <3>1. c.value = value /\ c.quids = quids /\ c.rev = rev /\ c.issued \subseteq issued
      BY <2>5 DEF Mirrors
    <3>2. x \notin Active(c.quids) \cup c.issued BY <3>1
    <3>3. Shown(c, e) = [value |-> c.value, quids |-> [c.quids EXCEPT ![k] = x],
                         rev |-> c.rev + 1, issued |-> c.issued \cup {x}]
      BY <2>3, <2>4, <3>1, <3>2, ReplayOfQuid
    <3> QED BY <2>1, <2>4, <3>1, <3>3 DEF Mirrors
  <2> QED BY <2>2, <2>3, <2>4, <2>5, ReplicaAppends
<1>4. ASSUME NEW policy, Restore(policy) PROVE ReplicaOK'
  <2> DEFINE e == [kind |-> "snapshot", commit |-> None, frozen |-> None, follows |-> TRUE]
  <2>1. queue' = Append(Freeze, e) /\ UNCHANGED <<replica, cut>> BY <1>4 DEF Restore, listenerVars
  <2>2. Freeze \in Seq(Publication) BY <1>1, Frozen DEF CoreInv
  <2>3. e.kind = "snapshot" OBVIOUS
  <2> HIDE DEF e
  <2>4. Ordered(queue', rev') /\ ~QuietFrom(queue', 1) BY <2>1, <2>2, <2>3, OrderedSnapshot
  <2> QED BY <1>1, <2>1, <2>4 DEF ReplicaOK
<1>5. ASSUME UNCHANGED <<value, quids, rev, issued, queue, replica, cut>> PROVE ReplicaOK'
  BY <1>5 DEF CoreInv, ReplicaOK
<1>6. CASE UseSchema BY <1>5, <1>6 DEF UseSchema, listenerVars
<1>7. CASE Discard BY <1>5, <1>7 DEF Discard, mapVars, listenerVars
<1>8. ASSUME NEW next, NEW ops, NEW replacesRoot, NEW detached,
             Prepares(next, ops, replacesRoot, detached)
      PROVE ReplicaOK'
  BY <1>5, <1>8 DEF Prepares, mapVars, listenerVars
<1>9. ASSUME NEW same, Capture(same) PROVE ReplicaOK' BY <1>5, <1>9 DEF Capture, mapVars, listenerVars
<1>10. CASE UNCHANGED vars BY <1>5, <1>10 DEF vars, mapVars, listenerVars
<1>11. CASE EmitLink
  <2>1. \/ UNCHANGED <<value, quids, rev, issued, queue, replica, cut>>
        \/ CutPublication /\ UNCHANGED <<value, quids, rev, issued, replica>>
    BY <1>11 DEF EmitLink, mapVars
  <2>2. ~Idle /\ stage.phase = "link" BY <1>11 DEF EmitLink
  <2> QED BY <1>5, <2>1, <2>2, ReplicaMisses
<1>12. CASE FeedThrows
  <2>1. stage.call /\ stage.phase \in {"feed", "store"} /\ CutPublication
        /\ UNCHANGED <<value, quids, rev, issued, replica>>
    BY <1>12 DEF FeedThrows, mapVars
  <2>2. ~Idle BY <2>1 DEF CoreInv, PlaceOK, Idle, NoCall
  <2> QED BY <2>1, <2>2, ReplicaMisses
<1>13. CASE EmitObserver BY <1>13, ReplicaShown
<1>14. CASE EmitWatch BY <1>5, <1>14 DEF EmitWatch, mapVars
<1>15. CASE WatchesDone BY <1>5, <1>15 DEF WatchesDone, mapVars, listenerVars
<1>16. CASE EmitFeed BY <1>5, <1>16 DEF EmitFeed, mapVars
<1>17. CASE EmitStore BY <1>5, <1>17 DEF EmitStore, mapVars
<1>18. CASE ListenerReturns BY <1>5, <1>18 DEF ListenerReturns, mapVars, listenerVars
<1>19. CASE WatchThrows BY <1>5, <1>19 DEF WatchThrows, mapVars, listenerVars
<1>20. CASE Publish
  BY <1>11, <1>12, <1>13, <1>14, <1>15, <1>16, <1>17, <1>18, <1>19, <1>20 DEF Publish
<1> QED BY <1>2, <1>3, <1>4, <1>6, <1>7, <1>8, <1>9, <1>10, <1>20, StepKinds

-----------------------------------------------------------------------------
(* The invariant.                                                          *)

LEMMA CoreInit ==
  ASSUME Init PROVE CoreInv
<1>1. /\ value \in Root /\ quids \in Overlay /\ Coherent(value, quids)
      /\ rev = 0 /\ issued = Active(quids) /\ epoch = 0 /\ schema = FALSE /\ calls = 0
      /\ staged = None /\ saved = None /\ queue = <<>> /\ stage = NoCall
      /\ previous = value /\ told = value
      /\ linked = value[LinkKey] /\ heard = value[FeedKey] /\ subPrev = value[SubKey]
      /\ restored = FALSE
      /\ replica = [value |-> value, quids |-> quids, rev |-> rev, issued |-> issued]
  <2>1. value \in Root BY LiveMapAssumption DEF Init
  <2>2. quids \in Overlay /\ Coherent(value, quids)
    <3>1. \A k \in Key : quids[k] # NoQuid => value[k] # Absent /\ \A j \in Key \ {k} : quids[j] # quids[k]
      BY DEF Init
    <3>2. Coherent(value, quids) BY <3>1 DEF Coherent
    <3> QED BY <3>2 DEF Init
  <2> QED BY <2>1, <2>2 DEF Init
<1>2. issued \subseteq Quid BY <1>1 DEF Active, Overlay
<1>3. MapOK
  <2>1. calls \in 0..MaxCalls /\ rev \in 0..calls /\ epoch \in 0..calls BY <1>1, LiveMapAssumption
  <2>2. schema \in BOOLEAN /\ ~schema /\ Active(quids) \subseteq issued BY <1>1
  <2> QED BY <1>1, <1>2, <2>1, <2>2 DEF MapOK
<1>4. PlaceOK
  <2>1. queue \in Seq(Publication) /\ \A m \in 1..Len(queue) : FALSE BY <1>1
  <2>2. stage.phase = "watch" BY <1>1, NoCallPlace
  <2>3. restored \in BOOLEAN BY <1>1
  <2> QED BY <1>1, <2>1, <2>2, <2>3, NoCallPlace DEF PlaceOK
<1>5. StagedOK /\ SavedOK BY <1>1 DEF StagedOK, SavedOK
<1>6. WatchesOK /\ FeedsOK BY <1>1 DEF WatchesOK, FeedsOK
<1>7. LinkOK BY <1>1 DEF LinkOK
<1>8. ReplicaOK
  <2>1. replica \in Replica BY <1>1, <1>2 DEF Replica
  <2>2. Ordered(queue, rev) BY <1>1 DEF Ordered
  <2>3. CatchUp(replica, queue) = replica BY <1>1, CatchUpEmpty
  <2>4. Mirrors(replica, value, quids, rev, issued) BY <1>1 DEF Mirrors
  <2> QED BY <2>1, <2>2, <2>3, <2>4 DEF ReplicaOK
<1> QED BY <1>3, <1>4, <1>5, <1>6, <1>7, <1>8 DEF CoreInv

(* Every reachable state satisfies it. *)
LEMMA CoreInvariant == Spec => []CoreInv
<1>1. Init => CoreInv BY CoreInit
<1>2. CoreInv /\ [Next]_vars => CoreInv'
  <2> SUFFICES ASSUME CoreInv, [Next]_vars PROVE CoreInv' OBVIOUS
  <2> QED BY MapStep, PlaceStep, StagedStep, SavedStep, WatchesStep, LinkStep, FeedsStep, ReplicaStep DEF CoreInv
<1> QED BY <1>1, <1>2, PTL DEF Spec

-----------------------------------------------------------------------------
(* The theorems.                                                           *)

(* Identities lie on what exists, each on one place and on the ledger of its *)
(* epoch, and the schema holds, whatever renames, replaces, stages, accepts  *)
(* or restores (reconcile_livemap_projected_identity_overlay, accept, restore). *)
THEOREM MapStaysCoherent == Spec => []MapCoherent
<1>1. CoreInv => MapCoherent
  <2> SUFFICES ASSUME CoreInv PROVE MapCoherent OBVIOUS
  <2>1. MapOK /\ PlaceOK /\ replica \in Replica BY DEF CoreInv, ReplicaOK
  <2>2. rev \in 0..MaxCalls /\ epoch \in 0..MaxCalls BY <2>1, LiveMapAssumption DEF MapOK
  <2>3. stage.phase \in {"watch", "link", "feed", "store", "observer"} BY <2>1 DEF PlaceOK, Phases
  <2>4. MTypeOK BY <2>1, <2>2, <2>3 DEF MTypeOK, MapOK, PlaceOK, Idle, Replica
  <2>5. IdentityCoherent /\ SchemaHolds BY <2>1 DEF MapOK, Coherent, IdentityCoherent, SchemaHolds
  <2> QED BY <2>4, <2>5 DEF MapCoherent
<1> QED BY <1>1, CoreInvariant, PTL

(* Whatever the listeners write, stage, restore or throw while they are told, *)
(* the watches, the link, the feed and the store subscription end with what   *)
(* the map holds once everything is published.                                *)
THEOREM SubscribersEndUpToDate == Spec => []SubscribersConverge
<1>1. CoreInv => SubscribersConverge
  <2> SUFFICES ASSUME CoreInv PROVE SubscribersConverge OBVIOUS
  <2>1. ASSUME Idle, NEW k, NEW ahead PROVE ~Awaits(queue, k, ahead)
    <3>1. Len(queue) = 0 BY <2>1 DEF Idle
    <3> HIDE DEF Bears
    <3> QED BY <3>1 DEF Awaits
  <2>2. WatchConverges BY <2>1 DEF CoreInv, WatchesOK, WatchConverges
  <2>3. LinkConverges BY <2>1 DEF CoreInv, LinkOK, LinkConverges
  <2>4. FeedsConverge BY <2>1 DEF CoreInv, FeedsOK, FeedsConverge
  <2> QED BY <2>2, <2>3, <2>4 DEF SubscribersConverge
<1> QED BY <1>1, CoreInvariant, PTL

(* A staged transition is accepted only over the state it was prepared on     *)
(* (accept's checks of revision, generation and base), apply() replaces only  *)
(* what its caller read unless a restore reused the revision, and no write    *)
(* brings back an identity that its epoch has retired.                        *)
THEOREM StagingStaysSafe == Spec => StagingIsSafe
<1>1. CoreInv /\ [Next]_vars => [Accept => value = staged.base /\ quids = staged.baseQuids]_vars
  <2> SUFFICES ASSUME CoreInv, Accept PROVE value = staged.base /\ quids = staged.baseQuids OBVIOUS
  <2>1. staged # None /\ staged.fresh BY DEF Accept, StillCurrent
  <2> QED BY <2>1 DEF CoreInv, StagedOK
<1>2. CoreInv /\ [Next]_vars
        => [(\E next \in Roots : Apply(next)) /\ ~restored => value = saved.value]_vars
  <2> SUFFICES ASSUME CoreInv, NEW next \in Roots, Apply(next), ~restored PROVE value = saved.value OBVIOUS
  <2>1. saved # None /\ saved.rev = rev BY DEF Apply
  <2> QED BY <2>1 DEF CoreInv, SavedOK
<1>3. CoreInv /\ [Next]_vars
        => [epoch' = epoch /\ ~(\E policy \in {"same-epoch"} : Restore(policy))
              => Active(quids') \cap (issued \ Active(quids)) = {}]_vars
  <2> SUFFICES ASSUME CoreInv, [Next]_vars, epoch' = epoch, ~Restore("same-epoch")
               PROVE Active(quids') \cap (issued \ Active(quids)) = {}
    OBVIOUS
  <2>1. quids \in Overlay /\ epoch \in Nat BY DEF CoreInv, MapOK
  <2>2. ASSUME NEW next, NEW ops, NEW replacesRoot, NEW follows,
               Installs(next, ops, replacesRoot, follows)
        PROVE Active(quids') \subseteq Active(quids)
    <3>1. ops \in Seq(Operation) /\ quids' = reconcile_overlay(quids, ops)
      BY <2>2 DEF Installs, Commits, InstallCommit
    <3> QED BY <2>1, <3>1, OverlayType
  <2>3. ASSUME NEW k \in Key, EnsureQuid(k)
        PROVE Active(quids') \cap (issued \ Active(quids)) = {}
    <3>1. PICK q \in Quid \ (issued \cup Active(quids)) : quids' = [quids EXCEPT ![k] = q]
      BY <2>3 DEF EnsureQuid
    <3>2. Active(quids') \subseteq Active(quids) \cup {q} BY <2>1, <3>1 DEF Active, Overlay
    <3> QED BY <3>1, <3>2
  <2>4. ASSUME NEW policy \in {"same-epoch", "preserve-metadata", "strip"}, Restore(policy) PROVE FALSE
    <3>1. policy # "same-epoch" BY <2>4
    <3>2. epoch' = epoch + 1 BY <2>4, <3>1 DEF Restore
    <3> QED BY <2>1, <3>2
  <2>5. ASSUME UNCHANGED quids PROVE Active(quids') \cap (issued \ Active(quids)) = {}
    BY <2>5 DEF Active
  <2>6. CASE UseSchema \/ Discard BY <2>5, <2>6 DEF UseSchema, Discard, mapVars
  <2>7. ASSUME NEW same, Capture(same) PROVE UNCHANGED quids BY <2>7 DEF Capture, mapVars
  <2>8. ASSUME NEW next, NEW ops, NEW replacesRoot, NEW detached,
               Prepares(next, ops, replacesRoot, detached)
        PROVE UNCHANGED quids
    BY <2>8 DEF Prepares, mapVars
  <2>9. CASE Publish
    BY <2>5, <2>9 DEF Publish, EmitWatch, WatchesDone, EmitLink, EmitFeed, EmitStore, EmitObserver,
                      ListenerReturns, WatchThrows, FeedThrows, mapVars
  <2>10. CASE UNCHANGED vars BY <2>5, <2>10 DEF vars, mapVars
  <2> QED BY <2>2, <2>3, <2>4, <2>5, <2>6, <2>7, <2>8, <2>9, <2>10, StepKinds
<1>4. Spec => StagedOnItsBase BY <1>1, CoreInvariant, PTL DEF Spec, StagedOnItsBase
<1>5. Spec => ApplyLosesNothing BY <1>2, CoreInvariant, PTL DEF Spec, ApplyLosesNothing
<1>6. Spec => RetiredStaysRetired BY <1>3, CoreInvariant, PTL DEF Spec, RetiredStaysRetired
<1> QED BY <1>4, <1>5, <1>6 DEF StagingIsSafe

(* A replica that replays what its observer is shown is the map once all is  *)
(* published, values, identities and revision, unless a commit was withheld   *)
(* from the observers since the last snapshot; and a replica that missed one  *)
(* refuses what follows instead of arriving at the revision of the map with   *)
(* another state (core.replay, replay_write_ops).                             *)
THEOREM ReplicaEndsAsTheMap ==
  ASSUME RootsShow
  PROVE Spec => []ReplicaConverges
<1>1. CoreInv => ReplicaConverges
  <2> SUFFICES ASSUME CoreInv, Idle PROVE ReplicaConverges
    BY DEF ReplicaConverges, ReplicaFollows, SameRevisionSameState
  <2>1. queue = <<>> /\ Len(queue) = 0 BY DEF Idle
  <2>2. QuietFrom(queue, 1) BY <2>1 DEF QuietFrom
  <2>3. CatchUp(replica, queue) = replica BY <2>1, CatchUpEmpty
  <2>4. replica.rev \in Nat /\ rev \in Nat BY DEF CoreInv, MapOK, ReplicaOK, Replica
  <2>5. \/ Mirrors(replica, value, quids, rev, issued)
        \/ cut # {} /\ Behind(replica, queue, rev)
    BY <2>2, <2>3 DEF CoreInv, ReplicaOK
  <2>6. CASE Mirrors(replica, value, quids, rev, issued)
    BY <2>6 DEF Mirrors, ReplicaConverges, ReplicaFollows, SameRevisionSameState
  <2>7. CASE cut # {} /\ Behind(replica, queue, rev)
    <3>1. cut # {} /\ replica.rev # rev BY <2>4, <2>7 DEF Behind
    <3> QED BY <3>1 DEF ReplicaConverges, ReplicaFollows, SameRevisionSameState
  <2> QED BY <2>5, <2>6, <2>7
<1> QED BY <1>1, CoreInvariant, PTL

-----------------------------------------------------------------------------
(* The stylesheet of a LiveTree runtime. *)

StyleFields == {"quidRules", "rules", "rendered", "byName", "namesByOwner", "ownerByName", "pending",
                "listening", "changed", "frame", "docs", "sheet", "disposed", "live"}

\* What a style state is made of.
StyleType(s) ==
  /\ DOMAIN s = StyleFields /\ s.docs \subseteq Documents
  /\ s.sheet = [d \in Documents |-> s.sheet[d]]
  /\ s.quidRules = [q \in DOMAIN s.quidRules |-> s.quidRules[q]]

\* The stores of keyframes agree on who owns a name, and with the definitions.
LinksAgree(s) ==
  /\ \A n \in DOMAIN s.ownerByName :
       s.ownerByName[n] \in DOMAIN s.namesByOwner /\ n \in s.namesByOwner[s.ownerByName[n]]
  /\ \A q \in DOMAIN s.namesByOwner : \A n \in s.namesByOwner[q] :
       n \in DOMAIN s.ownerByName /\ s.ownerByName[n] = q
SourcesAgree(s) ==
  /\ \A n \in DOMAIN s.ownerByName : n \in DOMAIN s.byName /\ s.byName[n].source = s.ownerByName[n]
  /\ \A n \in DOMAIN s.byName : s.byName[n].source # NoOwner =>
       n \in DOMAIN s.ownerByName /\ s.ownerByName[n] = s.byName[n].source
OwnersAgree(s) == LinksAgree(s) /\ SourcesAgree(s)

\* What get() answers is what is rendered.
RulesAgree(s) ==
  /\ DOMAIN s.rules = DOMAIN s.rendered
  /\ \A k \in DOMAIN s.rules : s.rendered[k] = s.rules[k].decls

\* A disposed runtime has no document and no style element.
DisposedIsGone(s) == s.disposed => s.docs = {} /\ \A d \in Documents : s.sheet[d] = Gone

StoresOK(s) == StyleType(s) /\ OwnersAgree(s) /\ RulesAgree(s) /\ DisposedIsGone(s)

\* Declarations and keyframes, and global rules, are in the documents.
ShowsOwn(s) == \A d \in s.docs :
  s.sheet[d] = Removed \/ ( /\ s.sheet[d] # Gone
                            /\ s.sheet[d].text.quids = s.quidRules /\ s.sheet[d].text.keyframes = s.byName )
ShowsGlobals(s) == \A d \in s.docs :
  s.sheet[d] = Removed \/ s.sheet[d].text.globals = buildCombinedCss(s).globals

\* What is behind is marked: a frame is requested for what changed, and the
\* microtask is queued for global rules that have not been announced.
BehindIsMarked(s) ==
  /\ s.changed => s.frame
  /\ s.changed \/ ShowsOwn(s)
  /\ s.changed \/ s.pending \/ ~s.listening \/ ShowsGlobals(s)

StyleOK(s) == StoresOK(s) /\ BehindIsMarked(s)

\* Everything but the sheets and what is said of them.
SameStores(s, t) ==
  /\ t.quidRules = s.quidRules /\ t.rules = s.rules /\ t.rendered = s.rendered /\ t.byName = s.byName
  /\ t.namesByOwner = s.namesByOwner /\ t.ownerByName = s.ownerByName /\ t.docs = s.docs
  /\ t.disposed = s.disposed /\ t.live = s.live

LEMMA SyncKeeps ==
  ASSUME NEW s, StoresOK(s)
  PROVE /\ StyleOK(syncToDom(s)) /\ SameStores(s, syncToDom(s))
<1> DEFINE t == syncToDom(s)
<1>1. DOMAIN s = StyleFields
  BY DEF StoresOK, StyleType
<1>2. /\ t.quidRules = s.quidRules /\ t.rules = s.rules /\ t.rendered = s.rendered /\ t.byName = s.byName
      /\ t.namesByOwner = s.namesByOwner /\ t.ownerByName = s.ownerByName /\ t.docs = s.docs
      /\ t.disposed = s.disposed /\ t.live = s.live
      /\ t.sheet = [d \in Documents |-> IF d \in s.docs THEN Sheet(buildCombinedCss(s)) ELSE s.sheet[d]]
      /\ t.changed = FALSE /\ DOMAIN t = StyleFields
  BY <1>1 DEF syncToDom, StyleFields
<1> HIDE DEF t
<1>3. SameStores(s, t)
  BY <1>2 DEF SameStores
<1>4. StyleType(t)
  BY <1>2 DEF StyleType, StoresOK
<1>5. OwnersAgree(t) /\ RulesAgree(t)
  BY <1>2 DEF OwnersAgree, LinksAgree, SourcesAgree, RulesAgree, StoresOK
<1>6. DisposedIsGone(t)
  BY <1>2 DEF DisposedIsGone, StoresOK
<1>7. BehindIsMarked(t)
  <2>1. ASSUME NEW d \in t.docs
        PROVE /\ t.sheet[d].text = buildCombinedCss(s) /\ t.sheet[d] # Gone
    <3>1. d \in Documents /\ d \in s.docs
      BY <1>2 DEF StoresOK, StyleType
    <3>2. t.sheet[d] = Sheet(buildCombinedCss(s))
      BY <3>1, <1>2
    <3> QED
      BY <3>2 DEF Sheet, Gone
  <2>2. buildCombinedCss(t) = buildCombinedCss(s)
    BY <1>2 DEF buildCombinedCss
  <2>3. buildCombinedCss(s).quids = t.quidRules /\ buildCombinedCss(s).keyframes = t.byName
    BY <1>2 DEF buildCombinedCss
  <2>4. ShowsOwn(t)
    BY <2>1, <2>3 DEF ShowsOwn
  <2>5. ShowsGlobals(t)
    BY <2>1, <2>2 DEF ShowsGlobals
  <2> QED
    BY <2>4, <2>5, <1>2 DEF BehindIsMarked
<1> QED
  BY <1>3, <1>4, <1>5, <1>6, <1>7 DEF t, StyleOK, StoresOK

\* What is marked as changed is written, at once or in the frame requested.
LEMMA MarkKeeps ==
  ASSUME NEW s, StoresOK(s)
  PROVE StyleOK(markChanged(s)) /\ SameStores(s, markChanged(s))
<1> DEFINE u == [s EXCEPT !.changed = TRUE]
           f == [u EXCEPT !.frame = TRUE]
           c == [u EXCEPT !.frame = FALSE]
<1>1. DOMAIN s = StyleFields
  BY DEF StoresOK, StyleType
<1>2. ASSUME NEW t, DOMAIN t = StyleFields, t.sheet = s.sheet, SameStores(s, t)
      PROVE StoresOK(t)
  BY <1>2 DEF StoresOK, StyleType, OwnersAgree, LinksAgree, SourcesAgree, RulesAgree, DisposedIsGone, SameStores
<1>3. DOMAIN u = StyleFields /\ u.sheet = s.sheet /\ u.changed /\ SameStores(s, u) /\ u.frame = s.frame
  BY <1>1 DEF StyleFields, SameStores
<1>4. DOMAIN f = StyleFields /\ f.sheet = s.sheet /\ f.changed /\ f.frame /\ SameStores(s, f)
  BY <1>1 DEF StyleFields, SameStores
<1>5. DOMAIN c = StyleFields /\ c.sheet = s.sheet /\ c.changed /\ SameStores(s, c)
  BY <1>1 DEF StyleFields, SameStores
<1>6. StoresOK(u) /\ StoresOK(f) /\ StoresOK(c)
  BY <1>2, <1>3, <1>4, <1>5
<1>7. markChanged(s) = IF u.frame THEN u ELSE IF hasFrames THEN f ELSE syncNow(u)
  BY DEF markChanged, scheduleSync
<1>8. syncNow(u) = syncToDom(c)
  BY <1>3 DEF syncNow
<1> HIDE DEF u, f, c
<1>9. CASE u.frame
  BY <1>9, <1>3, <1>6, <1>7 DEF StyleOK, BehindIsMarked
<1>10. CASE ~u.frame /\ hasFrames
  BY <1>10, <1>4, <1>6, <1>7 DEF StyleOK, BehindIsMarked
<1>11. CASE ~u.frame /\ ~hasFrames
  <2>1. markChanged(s) = syncToDom(c)
    BY <1>7, <1>8, <1>11
  <2>2. StyleOK(syncToDom(c)) /\ SameStores(c, syncToDom(c))
    BY <1>6, SyncKeeps
  <2> QED
    BY <2>1, <2>2, <1>5 DEF SameStores
<1> QED
  BY <1>9, <1>10, <1>11

\* Global rules that go are announced by the microtask.
LEMMA DroppedKeeps ==
  ASSUME NEW s, StyleOK(s), NEW keys
  PROVE LET t == Dropped(s, keys)
        IN /\ StyleOK(t)
           /\ DOMAIN t.rules = DOMAIN s.rules \ keys
           /\ t.quidRules = s.quidRules /\ t.byName = s.byName /\ t.namesByOwner = s.namesByOwner
           /\ t.docs = s.docs /\ t.disposed = s.disposed /\ t.live = s.live
<1> DEFINE t == Dropped(s, keys)
           u == [[s EXCEPT !.rules = Less(@, keys), !.rendered = Less(@, keys)] EXCEPT !.pending = TRUE]
<1>1. CASE keys \cap (DOMAIN s.rules \cup DOMAIN s.rendered) = {}
  <2>1. t = s
    BY <1>1 DEF Dropped
  <2> QED
    BY <2>1, <1>1
<1>2. CASE keys \cap (DOMAIN s.rules \cup DOMAIN s.rendered) # {}
  <2>1. t = u
    BY <1>2 DEF Dropped, notifyChanged
  <2>2. /\ DOMAIN u = StyleFields /\ u.rules = Less(s.rules, keys) /\ u.rendered = Less(s.rendered, keys)
        /\ u.pending /\ u.changed = s.changed /\ u.frame = s.frame /\ u.sheet = s.sheet
        /\ u.quidRules = s.quidRules /\ u.byName = s.byName /\ u.namesByOwner = s.namesByOwner
        /\ u.ownerByName = s.ownerByName
        /\ u.docs = s.docs /\ u.disposed = s.disposed /\ u.live = s.live
    BY DEF StyleFields, StyleOK, StoresOK, StyleType
  <2> HIDE DEF u
  <2>3. StyleType(u) /\ OwnersAgree(u) /\ DisposedIsGone(u)
    BY <2>2 DEF StyleOK, StoresOK, StyleType, OwnersAgree, LinksAgree, SourcesAgree, DisposedIsGone
  <2>4. RulesAgree(u)
    BY <2>2 DEF StyleOK, StoresOK, RulesAgree, Less, Restrict
  <2>5. BehindIsMarked(u)
    BY <2>2 DEF StyleOK, BehindIsMarked, ShowsOwn
  <2>6. DOMAIN u.rules = DOMAIN s.rules \ keys
    BY <2>2 DEF Less, Restrict
  <2> QED
    BY <2>1, <2>2, <2>3, <2>4, <2>5, <2>6 DEF StyleOK, StoresOK
<1> QED
  BY <1>1, <1>2

\* The same while the sheets are behind.
LEMMA DroppedStores ==
  ASSUME NEW s, StoresOK(s), NEW keys
  PROVE LET t == Dropped(s, keys)
        IN /\ StoresOK(t) /\ t.changed = s.changed
           /\ DOMAIN t.rules = DOMAIN s.rules \ keys
           /\ t.quidRules = s.quidRules /\ t.byName = s.byName /\ t.namesByOwner = s.namesByOwner
           /\ t.live = s.live
<1> DEFINE t == Dropped(s, keys)
           u == [[s EXCEPT !.rules = Less(@, keys), !.rendered = Less(@, keys)] EXCEPT !.pending = TRUE]
<1>1. CASE keys \cap (DOMAIN s.rules \cup DOMAIN s.rendered) = {}
  <2>1. t = s
    BY <1>1 DEF Dropped
  <2> QED
    BY <2>1, <1>1
<1>2. CASE keys \cap (DOMAIN s.rules \cup DOMAIN s.rendered) # {}
  <2>1. t = u
    BY <1>2 DEF Dropped, notifyChanged
  <2>2. /\ DOMAIN u = StyleFields /\ u.rules = Less(s.rules, keys) /\ u.rendered = Less(s.rendered, keys)
        /\ u.changed = s.changed /\ u.sheet = s.sheet
        /\ u.quidRules = s.quidRules /\ u.byName = s.byName /\ u.namesByOwner = s.namesByOwner
        /\ u.ownerByName = s.ownerByName
        /\ u.docs = s.docs /\ u.disposed = s.disposed /\ u.live = s.live
    BY DEF StyleFields, StoresOK, StyleType
  <2> HIDE DEF u
  <2>3. StyleType(u) /\ OwnersAgree(u) /\ DisposedIsGone(u)
    BY <2>2 DEF StoresOK, StyleType, OwnersAgree, LinksAgree, SourcesAgree, DisposedIsGone
  <2>4. RulesAgree(u)
    BY <2>2 DEF StoresOK, RulesAgree, Less, Restrict
  <2>5. DOMAIN u.rules = DOMAIN s.rules \ keys
    BY <2>2 DEF Less, Restrict
  <2> QED
    BY <2>1, <2>2, <2>3, <2>4, <2>5 DEF StoresOK
<1> QED
  BY <1>1, <1>2

\* A rule that is written is announced too, unless it is the one rendered.
LEMMA ApplyKeeps ==
  ASSUME NEW s, StyleOK(s), NEW h
  PROVE LET t == applyNow(s, h)
        IN /\ StyleOK(t)
           /\ DOMAIN t.rules \subseteq DOMAIN s.rules \cup {h.key}
           /\ t.quidRules = s.quidRules /\ t.byName = s.byName /\ t.namesByOwner = s.namesByOwner
           /\ t.docs = s.docs /\ t.disposed = s.disposed /\ t.live = s.live
<1> DEFINE t == applyNow(s, h)
           rule == [decls |-> h.decls, scope |-> h.scope]
           u == [[s EXCEPT !.rules = Assoc(@, h.key, rule), !.rendered = Assoc(@, h.key, h.decls)]
                   EXCEPT !.pending = TRUE]
<1>1. CASE h.decls = NoDecls
  <2>1. t = Dropped(s, {h.key})
    BY <1>1 DEF applyNow
  <2> HIDE DEF t
  <2> QED
    BY <2>1, DroppedKeeps DEF t
<1>2. CASE h.decls # NoDecls /\ h.key \in DOMAIN s.rendered /\ s.rendered[h.key] = h.decls
  <2>1. t = s
    BY <1>2 DEF applyNow
  <2> QED
    BY <2>1
<1>3. CASE h.decls # NoDecls /\ ~(h.key \in DOMAIN s.rendered /\ s.rendered[h.key] = h.decls)
  <2>1. t = u
    BY <1>3 DEF applyNow, notifyChanged
  <2>2. /\ DOMAIN u = StyleFields
        /\ u.rules = Assoc(s.rules, h.key, rule) /\ u.rendered = Assoc(s.rendered, h.key, h.decls)
        /\ u.pending /\ u.changed = s.changed /\ u.frame = s.frame /\ u.sheet = s.sheet
        /\ u.quidRules = s.quidRules /\ u.byName = s.byName /\ u.namesByOwner = s.namesByOwner
        /\ u.ownerByName = s.ownerByName
        /\ u.docs = s.docs /\ u.disposed = s.disposed /\ u.live = s.live
    BY DEF StyleFields, StyleOK, StoresOK, StyleType
  <2> HIDE DEF u
  <2>3. StyleType(u) /\ OwnersAgree(u) /\ DisposedIsGone(u)
    BY <2>2 DEF StyleOK, StoresOK, StyleType, OwnersAgree, LinksAgree, SourcesAgree, DisposedIsGone
  <2>4. RulesAgree(u)
    BY <2>2 DEF StyleOK, StoresOK, RulesAgree, Assoc
  <2>5. BehindIsMarked(u)
    BY <2>2 DEF StyleOK, BehindIsMarked, ShowsOwn
  <2>6. DOMAIN u.rules = DOMAIN s.rules \cup {h.key}
    BY <2>2 DEF Assoc
  <2> QED
    BY <2>1, <2>2, <2>3, <2>4, <2>5, <2>6 DEF StyleOK, StoresOK
<1> QED
  BY <1>1, <1>2, <1>3

\* Declarations of a QUID that are replaced are written to every document.
LEMMA DeclarationsKeep ==
  ASSUME NEW s, StyleOK(s), NEW map, map = [q \in DOMAIN map |-> map[q]]
  PROVE LET t == markChanged([s EXCEPT !.quidRules = map])
        IN /\ StyleOK(t) /\ t.quidRules = map
           /\ t.rules = s.rules /\ t.byName = s.byName /\ t.namesByOwner = s.namesByOwner
           /\ t.docs = s.docs /\ t.disposed = s.disposed /\ t.live = s.live
<1> DEFINE u == [s EXCEPT !.quidRules = map]
<1>1. /\ DOMAIN u = StyleFields /\ u.quidRules = map
      /\ u.rules = s.rules /\ u.rendered = s.rendered /\ u.byName = s.byName /\ u.sheet = s.sheet
      /\ u.namesByOwner = s.namesByOwner /\ u.ownerByName = s.ownerByName
      /\ u.docs = s.docs /\ u.disposed = s.disposed /\ u.live = s.live
  BY DEF StyleFields, StyleOK, StoresOK, StyleType
<1> HIDE DEF u
<1>2. StoresOK(u)
  BY <1>1 DEF StyleOK, StoresOK, StyleType, OwnersAgree, LinksAgree, SourcesAgree, RulesAgree, DisposedIsGone
<1>3. StyleOK(markChanged(u)) /\ SameStores(u, markChanged(u))
  BY <1>2, MarkKeeps
<1> QED
  BY <1>1, <1>3 DEF SameStores, u

LEMMA UnsetKeeps ==
  ASSUME NEW s, StyleOK(s), NEW q, NEW p
  PROVE LET t == unsetForQuid(s, q, p)
        IN /\ StyleOK(t) /\ DOMAIN t.quidRules \subseteq DOMAIN s.quidRules
           /\ t.rules = s.rules /\ t.byName = s.byName /\ t.namesByOwner = s.namesByOwner
           /\ t.docs = s.docs /\ t.disposed = s.disposed /\ t.live = s.live
<1> DEFINE t == unsetForQuid(s, q, p)
           rest == Less(s.quidRules[q], {p})
           map == IF rest = NoDecls THEN Less(s.quidRules, {q}) ELSE [s.quidRules EXCEPT ![q] = rest]
<1>1. CASE q \notin DOMAIN s.quidRules
  BY <1>1 DEF unsetForQuid
<1>2. CASE q \in DOMAIN s.quidRules
  <2>1. t = markChanged([s EXCEPT !.quidRules = map])
    BY <1>2 DEF unsetForQuid, StyleOK, StoresOK, StyleType, StyleFields
  <2>2. map = [x \in DOMAIN map |-> map[x]] /\ DOMAIN map \subseteq DOMAIN s.quidRules
    BY DEF Less, Restrict
  <2> HIDE DEF t, map
  <2>3. /\ StyleOK(t) /\ t.quidRules = map
        /\ t.rules = s.rules /\ t.byName = s.byName /\ t.namesByOwner = s.namesByOwner
        /\ t.docs = s.docs /\ t.disposed = s.disposed /\ t.live = s.live
    BY <2>1, <2>2, DeclarationsKeep
  <2> QED
    BY <2>2, <2>3 DEF t
<1> QED
  BY <1>1, <1>2

LEMMA SetKeeps ==
  ASSUME NEW s, StyleOK(s), NEW q, NEW p, NEW v
  PROVE LET t == setForQuid(s, q, p, v)
        IN /\ StyleOK(t) /\ DOMAIN t.quidRules \subseteq DOMAIN s.quidRules \cup {q}
           /\ t.rules = s.rules /\ t.byName = s.byName /\ t.namesByOwner = s.namesByOwner
           /\ t.docs = s.docs /\ t.disposed = s.disposed /\ t.live = s.live
<1> DEFINE t == setForQuid(s, q, p, v)
           map == Put(s.quidRules, q, p, v)
<1>1. CASE v = ""
  <2>1. t = unsetForQuid(s, q, p)
    BY <1>1 DEF setForQuid
  <2> HIDE DEF t
  <2> QED
    BY <2>1, UnsetKeeps DEF t
<1>2. CASE v # ""
  <2>1. t = markChanged([s EXCEPT !.quidRules = map])
    BY <1>2 DEF setForQuid, StyleOK, StoresOK, StyleType, StyleFields
  <2>2. map = [x \in DOMAIN map |-> map[x]] /\ DOMAIN map = DOMAIN s.quidRules \cup {q}
    BY DEF Put, Assoc
  <2> HIDE DEF t, map
  <2>3. /\ StyleOK(t) /\ t.quidRules = map
        /\ t.rules = s.rules /\ t.byName = s.byName /\ t.namesByOwner = s.namesByOwner
        /\ t.docs = s.docs /\ t.disposed = s.disposed /\ t.live = s.live
    BY <2>1, <2>2, DeclarationsKeep
  <2> QED
    BY <2>2, <2>3 DEF t
<1> QED
  BY <1>1, <1>2

LEMMA ClearKeeps ==
  ASSUME NEW s, StyleOK(s), NEW q
  PROVE LET t == clearQuid(s, q)
        IN /\ StyleOK(t) /\ t.quidRules = Less(s.quidRules, {q})
           /\ t.rules = s.rules /\ t.byName = s.byName /\ t.namesByOwner = s.namesByOwner
           /\ t.docs = s.docs /\ t.disposed = s.disposed /\ t.live = s.live
<1> DEFINE t == clearQuid(s, q)
           map == Less(s.quidRules, {q})
<1>1. CASE q \notin DOMAIN s.quidRules
  <2>1. DOMAIN s.quidRules \ {q} = DOMAIN s.quidRules
    BY <1>1
  <2>2. map = s.quidRules
    BY <2>1 DEF Less, Restrict, StyleOK, StoresOK, StyleType
  <2>3. t = s
    BY <1>1 DEF clearQuid
  <2> QED
    BY <2>2, <2>3
<1>2. CASE q \in DOMAIN s.quidRules
  <2>1. t = markChanged([s EXCEPT !.quidRules = map])
    BY <1>2 DEF clearQuid, StyleOK, StoresOK, StyleType, StyleFields
  <2>2. map = [x \in DOMAIN map |-> map[x]]
    BY DEF Less, Restrict
  <2> HIDE DEF t, map
  <2>3. /\ StyleOK(t) /\ t.quidRules = map
        /\ t.rules = s.rules /\ t.byName = s.byName /\ t.namesByOwner = s.namesByOwner
        /\ t.docs = s.docs /\ t.disposed = s.disposed /\ t.live = s.live
    BY <2>1, <2>2, DeclarationsKeep
  <2> QED
    BY <2>2, <2>3 DEF t, map
<1> QED
  BY <1>1, <1>2

-----------------------------------------------------------------------------
\* Keyframes: what the three stores say of a name that is taken away.
LEMMA ReleaseName ==
  ASSUME NEW s, DOMAIN s = StyleFields, LinksAgree(s), NEW name
  PROVE LET t == releaseNameOwnership(s, name)
        IN /\ DOMAIN t = StyleFields /\ t.sheet = s.sheet /\ t.docs = s.docs /\ t.byName = s.byName
           /\ t.quidRules = s.quidRules /\ t.rules = s.rules /\ t.rendered = s.rendered
           /\ t.disposed = s.disposed /\ t.live = s.live
           /\ DOMAIN t.ownerByName = DOMAIN s.ownerByName \ {name}
           /\ \A n \in DOMAIN t.ownerByName : t.ownerByName[n] = s.ownerByName[n]
           /\ DOMAIN t.namesByOwner \subseteq DOMAIN s.namesByOwner
           /\ \A q \in DOMAIN t.namesByOwner : t.namesByOwner[q] = s.namesByOwner[q] \ {name}
           /\ \A q \in DOMAIN s.namesByOwner : \A n \in s.namesByOwner[q] :
                n # name => q \in DOMAIN t.namesByOwner
<1> DEFINE t == releaseNameOwnership(s, name)
           prior == s.ownerByName[name]
           left == s.namesByOwner[prior] \ {name}
           names == IF left = {} THEN Less(s.namesByOwner, {prior}) ELSE [s.namesByOwner EXCEPT ![prior] = left]
<1>1. CASE name \notin DOMAIN s.ownerByName
  <2>1. t = s
    BY <1>1 DEF releaseNameOwnership
  <2>2. \A q \in DOMAIN s.namesByOwner : name \notin s.namesByOwner[q]
    BY <1>1 DEF LinksAgree
  <2> QED
    BY <2>1, <2>2, <1>1
<1>2. CASE name \in DOMAIN s.ownerByName
  <2>1. /\ DOMAIN t = StyleFields /\ t.sheet = s.sheet /\ t.docs = s.docs /\ t.byName = s.byName
        /\ t.quidRules = s.quidRules /\ t.rules = s.rules /\ t.rendered = s.rendered
        /\ t.disposed = s.disposed /\ t.live = s.live
        /\ t.ownerByName = Less(s.ownerByName, {name}) /\ t.namesByOwner = names
    BY <1>2 DEF releaseNameOwnership, StyleFields
  <2> HIDE DEF t
  <2>2. \A q \in DOMAIN s.namesByOwner : name \in s.namesByOwner[q] => q = prior
    BY DEF LinksAgree
  <2>3. /\ DOMAIN names \subseteq DOMAIN s.namesByOwner
        /\ \A q \in DOMAIN names : names[q] = s.namesByOwner[q] \ {name}
    <3>1. CASE left = {}
      BY <3>1, <2>2 DEF Less, Restrict
    <3>2. CASE left # {}
      BY <3>2, <2>2
    <3> QED
      BY <3>1, <3>2
  <2>4. ASSUME NEW q \in DOMAIN s.namesByOwner, NEW n \in s.namesByOwner[q], n # name
        PROVE q \in DOMAIN names
    <3>1. CASE left = {}
      BY <3>1, <2>4 DEF Less, Restrict
    <3>2. CASE left # {}
      BY <3>2
    <3> QED
      BY <3>1, <3>2
  <2> HIDE DEF names
  <2> QED
    BY <2>1, <2>3, <2>4 DEF t, Less, Restrict
<1> QED
  BY <1>1, <1>2

LEMMA FramesKeep ==
  ASSUME NEW s, StyleOK(s), NEW u, DOMAIN u = StyleFields, u.sheet = s.sheet, u.docs = s.docs,
         u.quidRules = s.quidRules, u.rules = s.rules, u.rendered = s.rendered,
         u.disposed = s.disposed, u.live = s.live, OwnersAgree(u)
  PROVE LET t == markChanged(u)
        IN /\ StyleOK(t) /\ t.byName = u.byName /\ t.namesByOwner = u.namesByOwner
           /\ t.quidRules = s.quidRules /\ t.rules = s.rules
           /\ t.docs = s.docs /\ t.disposed = s.disposed /\ t.live = s.live
<1>1. StoresOK(u)
  BY DEF StyleOK, StoresOK, StyleType, RulesAgree, DisposedIsGone
<1>2. StyleOK(markChanged(u)) /\ SameStores(u, markChanged(u))
  BY <1>1, MarkKeeps
<1> QED
  BY <1>2 DEF SameStores

\* Keyframes defined for good belong to nobody from then on.
LEMMA SetFramesKeeps ==
  ASSUME NEW s, StyleOK(s), NEW name, NEW v
  PROVE LET t == setFrames(s, name, v)
        IN /\ StyleOK(t) /\ DOMAIN t.namesByOwner \subseteq DOMAIN s.namesByOwner
           /\ \A n \in DOMAIN t.byName : t.byName[n].source # NoOwner =>
                n \in DOMAIN s.byName /\ s.byName[n].source = t.byName[n].source
           /\ t.quidRules = s.quidRules /\ t.rules = s.rules
           /\ t.docs = s.docs /\ t.disposed = s.disposed /\ t.live = s.live
<1> DEFINE t == setFrames(s, name, v)
           r == releaseNameOwnership(s, name)
           def == Def(v, NoOwner)
           u == [r EXCEPT !.byName = Assoc(@, name, def)]
<1>1. CASE Defines(s, name, def)
  BY <1>1 DEF setFrames
<1>2. CASE ~Defines(s, name, def)
  <2>1. t = markChanged(u)
    BY <1>2 DEF setFrames
  <2>2. DOMAIN s = StyleFields /\ LinksAgree(s) /\ SourcesAgree(s)
    BY DEF StyleOK, StoresOK, StyleType, OwnersAgree
  <2>3. /\ DOMAIN r = StyleFields /\ r.sheet = s.sheet /\ r.docs = s.docs /\ r.byName = s.byName
        /\ r.quidRules = s.quidRules /\ r.rules = s.rules /\ r.rendered = s.rendered
        /\ r.disposed = s.disposed /\ r.live = s.live
        /\ DOMAIN r.ownerByName = DOMAIN s.ownerByName \ {name}
        /\ \A n \in DOMAIN r.ownerByName : r.ownerByName[n] = s.ownerByName[n]
        /\ DOMAIN r.namesByOwner \subseteq DOMAIN s.namesByOwner
        /\ \A q \in DOMAIN r.namesByOwner : r.namesByOwner[q] = s.namesByOwner[q] \ {name}
        /\ \A q \in DOMAIN s.namesByOwner : \A n \in s.namesByOwner[q] :
             n # name => q \in DOMAIN r.namesByOwner
    BY <2>2, ReleaseName
  <2> HIDE DEF r, t
  <2>4. /\ DOMAIN u = StyleFields /\ u.sheet = r.sheet /\ u.docs = r.docs
        /\ u.quidRules = r.quidRules /\ u.rules = r.rules /\ u.rendered = r.rendered
        /\ u.disposed = r.disposed /\ u.live = r.live
        /\ u.ownerByName = r.ownerByName /\ u.namesByOwner = r.namesByOwner
        /\ u.byName = Assoc(s.byName, name, def)
    BY <2>3 DEF StyleFields
  <2>5. def.source = NoOwner
    BY DEF Def
  <2> HIDE DEF u, def
  <2>6. /\ DOMAIN u.byName = DOMAIN s.byName \cup {name} /\ u.byName[name] = def
        /\ \A n \in DOMAIN s.byName : n # name => u.byName[n] = s.byName[n]
    BY <2>4 DEF Assoc
  <2>7. LinksAgree(u)
    BY <2>2, <2>3, <2>4 DEF LinksAgree
  <2>8. SourcesAgree(u)
    BY <2>2, <2>3, <2>4, <2>5, <2>6 DEF SourcesAgree
  <2>9. /\ StyleOK(t) /\ t.byName = u.byName /\ t.namesByOwner = u.namesByOwner
        /\ t.quidRules = s.quidRules /\ t.rules = s.rules
        /\ t.docs = s.docs /\ t.disposed = s.disposed /\ t.live = s.live
    BY <2>1, <2>3, <2>4, <2>7, <2>8, FramesKeep DEF OwnersAgree
  <2> QED
    BY <2>3, <2>4, <2>5, <2>6, <2>9 DEF t
<1> QED
  BY <1>1, <1>2

\* Keyframes defined for a QUID are its own, and nobody else's.
OwnerGains(s, t, owner) ==
  /\ DOMAIN t.namesByOwner \subseteq DOMAIN s.namesByOwner \cup {owner}
  /\ \A n \in DOMAIN t.byName : t.byName[n].source # owner =>
       n \in DOMAIN s.byName /\ s.byName[n].source = t.byName[n].source
  /\ t.quidRules = s.quidRules /\ t.rules = s.rules
  /\ t.docs = s.docs /\ t.disposed = s.disposed /\ t.live = s.live

LEMMA SetOwnedKeeps ==
  ASSUME NEW s, StyleOK(s), NEW owner, owner # NoOwner, NEW name, NEW v
  PROVE StyleOK(setOwned(s, owner, name, v)) /\ OwnerGains(s, setOwned(s, owner, name, v), owner)
<1> DEFINE t == setOwned(s, owner, name, v)
           def == Def(v, owner)
           b == [s EXCEPT !.byName = Assoc(@, name, def)]
           r == releaseNameOwnership(b, name)
           had == IF owner \in DOMAIN r.namesByOwner THEN r.namesByOwner[owner] ELSE {}
           u == [r EXCEPT !.namesByOwner = Assoc(@, owner, had \cup {name}),
                          !.ownerByName = Assoc(@, name, owner)]
<1>1. CASE Defines(s, name, def) /\ name \in DOMAIN s.ownerByName /\ s.ownerByName[name] = owner
  BY <1>1 DEF setOwned, OwnerGains
<1>2. CASE ~(Defines(s, name, def) /\ name \in DOMAIN s.ownerByName /\ s.ownerByName[name] = owner)
  <2>1. t = markChanged(u)
    BY <1>2 DEF setOwned, claimNameForOwner
  <2>2. DOMAIN s = StyleFields /\ LinksAgree(s) /\ SourcesAgree(s)
    BY DEF StyleOK, StoresOK, StyleType, OwnersAgree
  <2>3. /\ DOMAIN b = StyleFields /\ b.sheet = s.sheet /\ b.docs = s.docs
        /\ b.quidRules = s.quidRules /\ b.rules = s.rules /\ b.rendered = s.rendered
        /\ b.disposed = s.disposed /\ b.live = s.live
        /\ b.ownerByName = s.ownerByName /\ b.namesByOwner = s.namesByOwner
        /\ b.byName = Assoc(s.byName, name, def)
    BY <2>2 DEF StyleFields
  <2> HIDE DEF t, b
  <2>4. LinksAgree(b)
    BY <2>2, <2>3 DEF LinksAgree
  <2>5. /\ DOMAIN r = StyleFields /\ r.sheet = b.sheet /\ r.docs = b.docs /\ r.byName = b.byName
        /\ r.quidRules = b.quidRules /\ r.rules = b.rules /\ r.rendered = b.rendered
        /\ r.disposed = b.disposed /\ r.live = b.live
        /\ DOMAIN r.ownerByName = DOMAIN b.ownerByName \ {name}
        /\ \A n \in DOMAIN r.ownerByName : r.ownerByName[n] = b.ownerByName[n]
        /\ DOMAIN r.namesByOwner \subseteq DOMAIN b.namesByOwner
        /\ \A q \in DOMAIN r.namesByOwner : r.namesByOwner[q] = b.namesByOwner[q] \ {name}
        /\ \A q \in DOMAIN b.namesByOwner : \A n \in b.namesByOwner[q] :
             n # name => q \in DOMAIN r.namesByOwner
    BY <2>3, <2>4, ReleaseName
  <2> HIDE DEF r
  <2>6. /\ DOMAIN u = StyleFields /\ u.sheet = r.sheet /\ u.docs = r.docs /\ u.byName = r.byName
        /\ u.quidRules = r.quidRules /\ u.rules = r.rules /\ u.rendered = r.rendered
        /\ u.disposed = r.disposed /\ u.live = r.live
        /\ u.namesByOwner = Assoc(r.namesByOwner, owner, had \cup {name})
        /\ u.ownerByName = Assoc(r.ownerByName, name, owner)
    BY <2>5 DEF StyleFields
  <2>7. def.source = owner
    BY DEF Def
  <2> HIDE DEF u, def
  <2>8. /\ DOMAIN u.byName = DOMAIN s.byName \cup {name} /\ u.byName[name] = def
        /\ \A n \in DOMAIN s.byName : n # name => u.byName[n] = s.byName[n]
    BY <2>3, <2>5, <2>6 DEF Assoc
  <2>9. /\ DOMAIN u.ownerByName = DOMAIN s.ownerByName \cup {name} /\ u.ownerByName[name] = owner
        /\ \A n \in DOMAIN s.ownerByName : n # name => u.ownerByName[n] = s.ownerByName[n]
    BY <2>3, <2>5, <2>6 DEF Assoc
  <2>10. /\ DOMAIN u.namesByOwner = DOMAIN r.namesByOwner \cup {owner}
         /\ name \in u.namesByOwner[owner]
         /\ \A q \in DOMAIN u.namesByOwner : \A n \in u.namesByOwner[q] :
              \/ q = owner /\ n = name
              \/ q \in DOMAIN s.namesByOwner /\ n \in s.namesByOwner[q] /\ n # name
         /\ \A q \in DOMAIN s.namesByOwner : \A n \in s.namesByOwner[q] :
              n # name => q \in DOMAIN u.namesByOwner /\ n \in u.namesByOwner[q]
    BY <2>3, <2>5, <2>6 DEF Assoc
  <2>11. LinksAgree(u)
    BY <2>2, <2>9, <2>10 DEF LinksAgree
  <2>12. SourcesAgree(u)
    BY <2>2, <2>7, <2>8, <2>9 DEF SourcesAgree
  <2>13. /\ StyleOK(t) /\ t.byName = u.byName /\ t.namesByOwner = u.namesByOwner
         /\ t.quidRules = s.quidRules /\ t.rules = s.rules
         /\ t.docs = s.docs /\ t.disposed = s.disposed /\ t.live = s.live
    BY <2>1, <2>3, <2>5, <2>6, <2>11, <2>12, FramesKeep DEF OwnersAgree
  <2> QED
    BY <2>3, <2>5, <2>7, <2>8, <2>10, <2>13 DEF t, OwnerGains
<1> QED
  BY <1>1, <1>2

LEMMA DeleteFramesKeeps ==
  ASSUME NEW s, StyleOK(s), NEW name
  PROVE LET t == deleteFrames(s, name)
        IN /\ StyleOK(t) /\ DOMAIN t.namesByOwner \subseteq DOMAIN s.namesByOwner
           /\ \A n \in DOMAIN t.byName : n \in DOMAIN s.byName /\ t.byName[n] = s.byName[n]
           /\ t.quidRules = s.quidRules /\ t.rules = s.rules
           /\ t.docs = s.docs /\ t.disposed = s.disposed /\ t.live = s.live
<1> DEFINE t == deleteFrames(s, name)
           b == [s EXCEPT !.byName = Less(@, {name})]
           r == releaseNameOwnership(b, name)
<1>1. CASE name \notin DOMAIN s.byName
  BY <1>1 DEF deleteFrames
<1>2. CASE name \in DOMAIN s.byName
  <2>1. t = markChanged(r)
    BY <1>2 DEF deleteFrames
  <2>2. DOMAIN s = StyleFields /\ LinksAgree(s) /\ SourcesAgree(s)
    BY DEF StyleOK, StoresOK, StyleType, OwnersAgree
  <2>3. /\ DOMAIN b = StyleFields /\ b.sheet = s.sheet /\ b.docs = s.docs
        /\ b.quidRules = s.quidRules /\ b.rules = s.rules /\ b.rendered = s.rendered
        /\ b.disposed = s.disposed /\ b.live = s.live
        /\ b.ownerByName = s.ownerByName /\ b.namesByOwner = s.namesByOwner
        /\ b.byName = Less(s.byName, {name})
    BY <2>2 DEF StyleFields
  <2> HIDE DEF t, b
  <2>4. LinksAgree(b)
    BY <2>2, <2>3 DEF LinksAgree
  <2>5. /\ DOMAIN r = StyleFields /\ r.sheet = b.sheet /\ r.docs = b.docs /\ r.byName = b.byName
        /\ r.quidRules = b.quidRules /\ r.rules = b.rules /\ r.rendered = b.rendered
        /\ r.disposed = b.disposed /\ r.live = b.live
        /\ DOMAIN r.ownerByName = DOMAIN b.ownerByName \ {name}
        /\ \A n \in DOMAIN r.ownerByName : r.ownerByName[n] = b.ownerByName[n]
        /\ DOMAIN r.namesByOwner \subseteq DOMAIN b.namesByOwner
        /\ \A q \in DOMAIN r.namesByOwner : r.namesByOwner[q] = b.namesByOwner[q] \ {name}
        /\ \A q \in DOMAIN b.namesByOwner : \A n \in b.namesByOwner[q] :
             n # name => q \in DOMAIN r.namesByOwner
    BY <2>3, <2>4, ReleaseName
  <2> HIDE DEF r
  <2>6. DOMAIN r.byName = DOMAIN s.byName \ {name} /\ \A n \in DOMAIN r.byName : r.byName[n] = s.byName[n]
    BY <2>3, <2>5 DEF Less, Restrict
  <2>7. LinksAgree(r)
    BY <2>2, <2>3, <2>5 DEF LinksAgree
  <2>8. SourcesAgree(r)
    <3>1. /\ DOMAIN r.ownerByName = DOMAIN s.ownerByName \ {name}
          /\ \A n \in DOMAIN r.ownerByName : r.ownerByName[n] = s.ownerByName[n]
      BY <2>3, <2>5
    <3> QED
      BY <3>1, <2>2, <2>6 DEF SourcesAgree
  <2>9. /\ StyleOK(t) /\ t.byName = r.byName /\ t.namesByOwner = r.namesByOwner
        /\ t.quidRules = s.quidRules /\ t.rules = s.rules
        /\ t.docs = s.docs /\ t.disposed = s.disposed /\ t.live = s.live
    BY <2>1, <2>3, <2>5, <2>7, <2>8, FramesKeep DEF OwnersAgree
  <2> QED
    BY <2>3, <2>5, <2>6, <2>9 DEF t
<1> QED
  BY <1>1, <1>2

\* The keyframes of a QUID go with it, and no others.
LEMMA ReleaseOwnerKeeps ==
  ASSUME NEW s, StyleOK(s), NEW owner, owner # NoOwner
  PROVE LET t == releaseOwner(s, owner)
        IN /\ StyleOK(t) /\ DOMAIN t.namesByOwner \subseteq DOMAIN s.namesByOwner
           /\ owner \notin DOMAIN t.namesByOwner
           /\ \A n \in DOMAIN t.byName :
                n \in DOMAIN s.byName /\ t.byName[n] = s.byName[n] /\ t.byName[n].source # owner
           /\ \A n \in DOMAIN s.byName : s.byName[n].source # owner => n \in DOMAIN t.byName
           /\ t.quidRules = s.quidRules /\ t.rules = s.rules
           /\ t.docs = s.docs /\ t.disposed = s.disposed /\ t.live = s.live
<1> DEFINE t == releaseOwner(s, owner)
           names == s.namesByOwner[owner]
           u == [s EXCEPT !.byName = Less(@, names), !.ownerByName = Less(@, names),
                          !.namesByOwner = Less(@, {owner})]
<1>1. DOMAIN s = StyleFields /\ LinksAgree(s) /\ SourcesAgree(s)
  BY DEF StyleOK, StoresOK, StyleType, OwnersAgree
<1>2. CASE owner \notin DOMAIN s.namesByOwner
  <2>1. t = s
    BY <1>2 DEF releaseOwner
  <2>2. \A n \in DOMAIN s.byName : s.byName[n].source # owner
    BY <1>1, <1>2 DEF LinksAgree, SourcesAgree
  <2> QED
    BY <2>1, <2>2, <1>2
<1>3. CASE owner \in DOMAIN s.namesByOwner
  <2>1. t = markChanged(u)
    BY <1>3 DEF releaseOwner
  <2>2. /\ DOMAIN u = StyleFields /\ u.sheet = s.sheet /\ u.docs = s.docs
        /\ u.quidRules = s.quidRules /\ u.rules = s.rules /\ u.rendered = s.rendered
        /\ u.disposed = s.disposed /\ u.live = s.live
        /\ u.byName = Less(s.byName, names) /\ u.ownerByName = Less(s.ownerByName, names)
        /\ u.namesByOwner = Less(s.namesByOwner, {owner})
    BY <1>1 DEF StyleFields
  <2> HIDE DEF t, u
  <2>3. /\ DOMAIN u.byName = DOMAIN s.byName \ names
        /\ \A n \in DOMAIN u.byName : u.byName[n] = s.byName[n]
        /\ DOMAIN u.ownerByName = DOMAIN s.ownerByName \ names
        /\ \A n \in DOMAIN u.ownerByName : u.ownerByName[n] = s.ownerByName[n]
        /\ DOMAIN u.namesByOwner = DOMAIN s.namesByOwner \ {owner}
        /\ \A q \in DOMAIN u.namesByOwner : u.namesByOwner[q] = s.namesByOwner[q]
    BY <2>2 DEF Less, Restrict
  <2>4. \A n \in DOMAIN s.byName : n \in names <=> s.byName[n].source = owner
    BY <1>1, <1>3 DEF LinksAgree, SourcesAgree
  <2>5. \A n \in DOMAIN s.ownerByName : n \in names <=> s.ownerByName[n] = owner
    BY <1>1, <1>3 DEF LinksAgree
  <2>6. LinksAgree(u)
    BY <1>1, <2>3, <2>5 DEF LinksAgree
  <2>7. SourcesAgree(u)
    BY <1>1, <2>3, <2>4, <2>5 DEF SourcesAgree
  <2>8. /\ StyleOK(t) /\ t.byName = u.byName /\ t.namesByOwner = u.namesByOwner
        /\ t.quidRules = s.quidRules /\ t.rules = s.rules
        /\ t.docs = s.docs /\ t.disposed = s.disposed /\ t.live = s.live
    BY <2>1, <2>2, <2>6, <2>7, FramesKeep DEF OwnersAgree
  <2> QED
    BY <2>3, <2>4, <2>8 DEF t
<1> QED
  BY <1>2, <1>3

\* Nothing of a QUID is left in the stores, and nothing of another is gone.
QuidReleased(s, t, q) ==
  /\ t.quidRules = Less(s.quidRules, {q})
  /\ DOMAIN t.rules = { k \in DOMAIN s.rules : Mentions(k) # q }
  /\ DOMAIN t.namesByOwner \subseteq DOMAIN s.namesByOwner /\ q \notin DOMAIN t.namesByOwner
  /\ \A n \in DOMAIN t.byName :
       n \in DOMAIN s.byName /\ t.byName[n] = s.byName[n] /\ t.byName[n].source # q
  /\ \A n \in DOMAIN s.byName : s.byName[n].source # q => n \in DOMAIN t.byName
  /\ t.docs = s.docs /\ t.disposed = s.disposed /\ t.live = s.live

LEMMA ReleaseQuidKeeps ==
  ASSUME NEW s, StyleOK(s), NEW q \in CssQuids
  PROVE StyleOK(releaseOwnedCssForQuid(s, q)) /\ QuidReleased(s, releaseOwnedCssForQuid(s, q), q)
<1> DEFINE c == clearQuid(s, q)
           r == releaseOwner(c, q)
           keys == { k \in DOMAIN r.rules : Mentions(k) = q }
           t == Dropped(r, keys)
<1>1. releaseOwnedCssForQuid(s, q) = t
  BY DEF releaseOwnedCssForQuid, dropBySelectorFragment
<1>2. q # NoOwner
  BY StyleAssumption
<1>3. /\ StyleOK(c) /\ c.quidRules = Less(s.quidRules, {q})
      /\ c.rules = s.rules /\ c.byName = s.byName /\ c.namesByOwner = s.namesByOwner
      /\ c.docs = s.docs /\ c.disposed = s.disposed /\ c.live = s.live
  BY ClearKeeps
<1> HIDE DEF c
<1>4. /\ StyleOK(r) /\ DOMAIN r.namesByOwner \subseteq DOMAIN c.namesByOwner
      /\ q \notin DOMAIN r.namesByOwner
      /\ \A n \in DOMAIN r.byName :
           n \in DOMAIN c.byName /\ r.byName[n] = c.byName[n] /\ r.byName[n].source # q
      /\ \A n \in DOMAIN c.byName : c.byName[n].source # q => n \in DOMAIN r.byName
      /\ r.quidRules = c.quidRules /\ r.rules = c.rules
      /\ r.docs = c.docs /\ r.disposed = c.disposed /\ r.live = c.live
  BY <1>2, <1>3, ReleaseOwnerKeeps
<1> HIDE DEF r
<1>5. /\ StyleOK(t) /\ DOMAIN t.rules = DOMAIN r.rules \ keys
      /\ t.quidRules = r.quidRules /\ t.byName = r.byName /\ t.namesByOwner = r.namesByOwner
      /\ t.docs = r.docs /\ t.disposed = r.disposed /\ t.live = r.live
  BY <1>4, DroppedKeeps
<1> HIDE DEF t
<1>6. StyleOK(t) /\ QuidReleased(s, t, q)
  BY <1>3, <1>4, <1>5 DEF QuidReleased
<1> QED
  BY <1>1, <1>6

\* A document that is registered gets the stylesheet.
LEMMA RegisterKeeps ==
  ASSUME NEW s, StyleOK(s), ~s.disposed, NEW d \in Documents
  PROVE LET t == register_runtime_document(s, d)
        IN /\ StyleOK(t) /\ ~t.disposed /\ t.quidRules = s.quidRules /\ t.rules = s.rules
           /\ t.byName = s.byName /\ t.namesByOwner = s.namesByOwner /\ t.live = s.live
<1> DEFINE t == register_runtime_document(s, d)
           u == [s EXCEPT !.docs = @ \cup {d}]
<1>1. CASE d \in s.docs
  BY <1>1 DEF register_runtime_document
<1>2. CASE d \notin s.docs
  <2>1. t = markChanged(u)
    BY <1>2 DEF register_runtime_document
  <2>2. /\ DOMAIN u = StyleFields /\ u.docs = s.docs \cup {d} /\ u.sheet = s.sheet
        /\ u.quidRules = s.quidRules /\ u.rules = s.rules /\ u.rendered = s.rendered
        /\ u.byName = s.byName /\ u.namesByOwner = s.namesByOwner /\ u.ownerByName = s.ownerByName
        /\ u.disposed = s.disposed /\ u.live = s.live
    BY DEF StyleFields, StyleOK, StoresOK, StyleType
  <2> HIDE DEF t, u
  <2>3. StoresOK(u)
    BY <2>2 DEF StyleOK, StoresOK, StyleType, OwnersAgree, LinksAgree, SourcesAgree, RulesAgree, DisposedIsGone
  <2>4. StyleOK(t) /\ SameStores(u, t)
    BY <2>1, <2>3, MarkKeeps
  <2> QED
    BY <2>2, <2>4 DEF SameStores, t
<1> QED
  BY <1>1, <1>2

LEMMA WithDocumentKeeps ==
  ASSUME NEW s, StyleOK(s), ~s.disposed
  PROVE LET t == WithDocument(s)
        IN /\ StyleOK(t) /\ ~t.disposed /\ t.quidRules = s.quidRules /\ t.rules = s.rules
           /\ t.byName = s.byName /\ t.namesByOwner = s.namesByOwner /\ t.live = s.live
<1>1. Ambient \in Documents
  BY StyleAssumption
<1>2. CASE s.docs = {}
  <2>1. WithDocument(s) = register_runtime_document(s, Ambient)
    BY <1>2 DEF WithDocument
  <2> QED
    BY <2>1, <1>1, RegisterKeeps
<1>3. CASE s.docs # {}
  BY <1>3 DEF WithDocument
<1> QED
  BY <1>2, <1>3

-----------------------------------------------------------------------------
\* The steps.

\* What the stores do not have of a QUID that was released.
Frees(s, q) ==
  /\ q \notin DOMAIN s.quidRules
  /\ \A k \in DOMAIN s.rules : Mentions(k) # q
  /\ \A n \in DOMAIN s.byName : s.byName[n].source # q
  /\ q \notin DOMAIN s.namesByOwner

StyleInv == StyleOK(css) /\ clean \subseteq CssQuids /\ \A q \in clean : Frees(css, q)

\* A step that ends no QUID.
SafeStep == StyleInv' /\ css'.live = css.live

\* A call that writes for the QUIDs given only.
LEMMA CallStep ==
  ASSUME StyleInv, NEW t, NEW written, CssCall(t, written), StyleOK(t), t.live = css.live,
         \A q \in clean \ written : Frees(t, q)
  PROVE SafeStep
BY DEF StyleInv, CssCall, SafeStep

LEMMA DeclarationSteps ==
  ASSUME StyleInv, NEW q \in CssQuids
  PROVE /\ \A p, v : SetProp(q, p, v) => SafeStep
        /\ ClearCss(q) => SafeStep
<1>1. StyleOK(css) /\ clean \subseteq CssQuids /\ \A x \in clean : Frees(css, x)
  BY DEF StyleInv
<1>2. ASSUME NEW p, NEW v, SetProp(q, p, v) PROVE SafeStep
  <2> DEFINE t == setForQuid(css, q, p, v)
  <2>1. CssCall(t, {q})
    BY <1>2 DEF SetProp, Silent
  <2>2. /\ StyleOK(t) /\ DOMAIN t.quidRules \subseteq DOMAIN css.quidRules \cup {q}
        /\ t.rules = css.rules /\ t.byName = css.byName /\ t.namesByOwner = css.namesByOwner /\ t.live = css.live
    BY <1>1, SetKeeps
  <2> HIDE DEF t
  <2>3. \A x \in clean \ {q} : Frees(t, x)
    BY <1>1, <2>2 DEF Frees
  <2> QED
    BY <2>1, <2>2, <2>3, CallStep
<1>3. ASSUME ClearCss(q) PROVE SafeStep
  <2> DEFINE c == clearQuid(css, q)
             w == WithDocument(c)
             keys == { k \in OwnKeys : Mentions(k) = q }
             t == Dropped(w, keys)
  <2>1. CssCall(t, {}) /\ ~css.disposed
    BY <1>3 DEF ClearCss, Silent, dropByPrefix
  <2>2. /\ StyleOK(c) /\ c.quidRules = Less(css.quidRules, {q})
        /\ c.rules = css.rules /\ c.byName = css.byName /\ c.namesByOwner = css.namesByOwner
        /\ c.disposed = css.disposed /\ c.live = css.live
    BY <1>1, ClearKeeps
  <2> HIDE DEF c
  <2>3. /\ StyleOK(w) /\ w.quidRules = c.quidRules /\ w.rules = c.rules
        /\ w.byName = c.byName /\ w.namesByOwner = c.namesByOwner /\ w.live = c.live
    BY <2>1, <2>2, WithDocumentKeeps
  <2> HIDE DEF w
  <2>4. /\ StyleOK(t) /\ DOMAIN t.rules = DOMAIN w.rules \ keys
        /\ t.quidRules = w.quidRules /\ t.byName = w.byName /\ t.namesByOwner = w.namesByOwner /\ t.live = w.live
    BY <2>3, DroppedKeeps
  <2> HIDE DEF t
  <2>5. DOMAIN c.quidRules \subseteq DOMAIN css.quidRules
    BY <2>2 DEF Less, Restrict
  <2>6. \A x \in clean \ {} : Frees(t, x)
    BY <1>1, <2>2, <2>3, <2>4, <2>5 DEF Frees
  <2> QED
    BY <2>1, <2>2, <2>3, <2>4, <2>6, CallStep
<1> QED
  BY <1>2, <1>3

LEMMA ClearingSteps ==
  ASSUME StyleInv
  PROVE /\ ClearAllQuids => SafeStep
        /\ ClearAllRules => SafeStep
        /\ \A key : DropRule(key) => SafeStep
<1>1. StyleOK(css) /\ clean \subseteq CssQuids /\ \A x \in clean : Frees(css, x)
  BY DEF StyleInv
<1>2. ASSUME ClearAllQuids PROVE SafeStep
  <2> DEFINE t == markChanged([css EXCEPT !.quidRules = NoDecls])
  <2>1. CssCall(t, {})
    BY <1>2 DEF ClearAllQuids, Silent
  <2>2. NoDecls = [q \in DOMAIN NoDecls |-> NoDecls[q]] /\ DOMAIN NoDecls = {}
    BY DEF NoDecls
  <2>3. \A map : map = [q \in DOMAIN map |-> map[q]] =>
          LET u == markChanged([css EXCEPT !.quidRules = map])
          IN /\ StyleOK(u) /\ u.quidRules = map
             /\ u.rules = css.rules /\ u.byName = css.byName /\ u.namesByOwner = css.namesByOwner /\ u.live = css.live
    BY <1>1, DeclarationsKeep
  <2>5. /\ StyleOK(t) /\ t.quidRules = NoDecls
        /\ t.rules = css.rules /\ t.byName = css.byName /\ t.namesByOwner = css.namesByOwner /\ t.live = css.live
    BY <2>2, <2>3
  <2> HIDE DEF t
  <2>4. \A x \in clean \ {} : Frees(t, x)
    BY <1>1, <2>2, <2>5 DEF Frees
  <2> QED
    BY <2>1, <2>4, <2>5, CallStep
<1>3. ASSUME NEW keys, CssCall(Dropped(css, keys), {}) PROVE SafeStep
  <2> DEFINE t == Dropped(css, keys)
  <2>1. /\ StyleOK(t) /\ DOMAIN t.rules = DOMAIN css.rules \ keys
        /\ t.quidRules = css.quidRules /\ t.byName = css.byName /\ t.namesByOwner = css.namesByOwner /\ t.live = css.live
    BY <1>1, DroppedKeeps
  <2>2. CssCall(t, {})
    BY <1>3
  <2> HIDE DEF t
  <2>3. \A x \in clean \ {} : Frees(t, x)
    BY <1>1, <2>1 DEF Frees
  <2> QED
    BY <2>1, <2>2, <2>3, CallStep
<1>4. ClearAllRules => SafeStep
  BY <1>3 DEF ClearAllRules, Silent
<1>5. \A key : DropRule(key) => SafeStep
  BY <1>3 DEF DropRule, Silent
<1> QED
  BY <1>2, <1>4, <1>5

LEMMA HandleSteps ==
  ASSUME StyleInv
  PROVE /\ \A key, scope : OpenRule(key, scope) => SafeStep
        /\ \A i, decls, also : HandleWrites(i, decls, also) => SafeStep
<1>1. StyleOK(css) /\ clean \subseteq CssQuids /\ \A x \in clean : Frees(css, x)
  BY DEF StyleInv
<1>2. ASSUME NEW key, NEW scope, OpenRule(key, scope) PROVE SafeStep
  <2> DEFINE t == WithDocument(css)
  <2>1. CssCall(t, {}) /\ ~css.disposed
    BY <1>2 DEF OpenRule
  <2>2. /\ StyleOK(t) /\ t.quidRules = css.quidRules /\ t.rules = css.rules
        /\ t.byName = css.byName /\ t.namesByOwner = css.namesByOwner /\ t.live = css.live
    BY <1>1, <2>1, WithDocumentKeeps
  <2> HIDE DEF t
  <2>3. \A x \in clean \ {} : Frees(t, x)
    BY <1>1, <2>2 DEF Frees
  <2> QED
    BY <2>1, <2>2, <2>3, CallStep
<1>3. ASSUME NEW i, NEW decls, NEW also, HandleWrites(i, decls, also) PROVE SafeStep
  <2> DEFINE h == [ruleHandles[i] EXCEPT !.decls = decls]
             a == applyNow(css, h)
             t == Dropped(a, also)
  <2>1. CssCall(t, {Mentions(h.key)})
    BY <1>3 DEF HandleWrites
  <2> HIDE DEF h
  <2>2. /\ StyleOK(a) /\ DOMAIN a.rules \subseteq DOMAIN css.rules \cup {h.key}
        /\ a.quidRules = css.quidRules /\ a.byName = css.byName /\ a.namesByOwner = css.namesByOwner /\ a.live = css.live
    BY <1>1, ApplyKeeps
  <2> HIDE DEF a
  <2>3. /\ StyleOK(t) /\ DOMAIN t.rules = DOMAIN a.rules \ also
        /\ t.quidRules = a.quidRules /\ t.byName = a.byName /\ t.namesByOwner = a.namesByOwner /\ t.live = a.live
    BY <2>2, DroppedKeeps
  <2> HIDE DEF t
  <2>4. \A x \in clean \ {Mentions(h.key)} : Frees(t, x)
    BY <1>1, <2>2, <2>3 DEF Frees
  <2> QED
    BY <2>1, <2>2, <2>3, <2>4, CallStep
<1> QED
  BY <1>2, <1>3

LEMMA FrameSteps ==
  ASSUME StyleInv, NEW name
  PROVE /\ \A v : SetFrames(name, v) => SafeStep
        /\ DeleteFrames(name) => SafeStep
        /\ \A q \in CssQuids : \A v : SetOwnedFrames(q, name, v) => SafeStep
<1>1. StyleOK(css) /\ clean \subseteq CssQuids /\ \A x \in clean : Frees(css, x)
  BY DEF StyleInv
<1>2. \A x \in CssQuids : x # NoOwner
  BY StyleAssumption
<1>3. ASSUME NEW v, SetFrames(name, v) PROVE SafeStep
  <2> DEFINE t == setFrames(css, name, v)
  <2>1. CssCall(t, {})
    BY <1>3 DEF SetFrames, Silent
  <2>2. /\ StyleOK(t) /\ DOMAIN t.namesByOwner \subseteq DOMAIN css.namesByOwner
        /\ \A n \in DOMAIN t.byName : t.byName[n].source # NoOwner =>
             n \in DOMAIN css.byName /\ css.byName[n].source = t.byName[n].source
        /\ t.quidRules = css.quidRules /\ t.rules = css.rules /\ t.live = css.live
    BY <1>1, SetFramesKeeps
  <2> HIDE DEF t
  <2>3. \A x \in clean \ {} : Frees(t, x)
    BY <1>1, <1>2, <2>2 DEF Frees
  <2> QED
    BY <2>1, <2>2, <2>3, CallStep
<1>4. ASSUME DeleteFrames(name) PROVE SafeStep
  <2> DEFINE t == deleteFrames(css, name)
  <2>1. CssCall(t, {})
    BY <1>4 DEF DeleteFrames, Silent
  <2>2. /\ StyleOK(t) /\ DOMAIN t.namesByOwner \subseteq DOMAIN css.namesByOwner
        /\ \A n \in DOMAIN t.byName : n \in DOMAIN css.byName /\ t.byName[n] = css.byName[n]
        /\ t.quidRules = css.quidRules /\ t.rules = css.rules /\ t.live = css.live
    BY <1>1, DeleteFramesKeeps
  <2> HIDE DEF t
  <2>3. \A x \in clean \ {} : Frees(t, x)
    BY <1>1, <2>2 DEF Frees
  <2> QED
    BY <2>1, <2>2, <2>3, CallStep
<1>5. ASSUME NEW q \in CssQuids, NEW v, SetOwnedFrames(q, name, v) PROVE SafeStep
  <2> DEFINE t == setOwned(css, q, name, v)
  <2>1. CssCall(t, {q})
    BY <1>5 DEF SetOwnedFrames, Silent
  <2>2. StyleOK(t) /\ OwnerGains(css, t, q)
    BY <1>1, <1>2, SetOwnedKeeps
  <2> HIDE DEF t
  <2>3. \A x \in clean \ {q} : Frees(t, x)
    BY <1>1, <2>2 DEF Frees, OwnerGains
  <2> QED
    BY <2>1, <2>2, <2>3, CallStep DEF OwnerGains
<1> QED
  BY <1>3, <1>4, <1>5

\* The node of a QUID goes.
LEMMA DisposeStep ==
  ASSUME StyleInv, NEW q \in CssQuids, DisposeStyled(q)
  PROVE /\ StyleInv' /\ css.live \ css'.live \subseteq {q}
        /\ css'.quidRules = Less(css.quidRules, {q})
        /\ \A k \in DOMAIN css.rules : Mentions(k) # q => k \in DOMAIN css'.rules
        /\ \A n \in DOMAIN css.byName : css.byName[n].source # q => n \in DOMAIN css'.byName
<1> DEFINE r == releaseOwnedCssForQuid(css, q)
<1>1. StyleOK(css) /\ clean \subseteq CssQuids /\ \A x \in clean : Frees(css, x)
  BY DEF StyleInv
<1>2. css' = [r EXCEPT !.live = @ \ {q}] /\ clean' = clean \cup {q}
  BY DEF DisposeStyled
<1>3. StyleOK(r) /\ QuidReleased(css, r, q)
  BY <1>1, ReleaseQuidKeeps
<1> HIDE DEF r
<1>4. DOMAIN r = StyleFields
  BY <1>3 DEF StyleOK, StoresOK, StyleType
<1>5. /\ DOMAIN css' = StyleFields /\ css'.live = css.live \ {q}
      /\ css'.quidRules = r.quidRules /\ css'.rules = r.rules /\ css'.rendered = r.rendered
      /\ css'.byName = r.byName /\ css'.namesByOwner = r.namesByOwner
      /\ css'.ownerByName = r.ownerByName /\ css'.pending = r.pending /\ css'.listening = r.listening
      /\ css'.changed = r.changed /\ css'.frame = r.frame /\ css'.docs = r.docs
      /\ css'.sheet = r.sheet /\ css'.disposed = r.disposed
  BY <1>2, <1>3, <1>4 DEF StyleFields, QuidReleased
<1>6. StoresOK(css')
  <2>1. StyleType(css') /\ DisposedIsGone(css') /\ RulesAgree(css')
    BY <1>3, <1>5 DEF StyleOK, StoresOK, StyleType, RulesAgree, DisposedIsGone
  <2>2. OwnersAgree(css')
    BY <1>3, <1>5 DEF StyleOK, StoresOK, OwnersAgree, LinksAgree, SourcesAgree
  <2> QED
    BY <2>1, <2>2 DEF StoresOK
<1>7. BehindIsMarked(css')
  <2>1. ShowsOwn(css') <=> ShowsOwn(r)
    BY <1>5 DEF ShowsOwn
  <2>2. buildCombinedCss(css') = buildCombinedCss(r)
    BY <1>5 DEF buildCombinedCss
  <2>3. ShowsGlobals(css') <=> ShowsGlobals(r)
    BY <1>5, <2>2 DEF ShowsGlobals
  <2> QED
    BY <1>3, <1>5, <2>1, <2>3 DEF StyleOK, BehindIsMarked
<1>8. DOMAIN css'.quidRules = DOMAIN css.quidRules \ {q}
  BY <1>3, <1>5 DEF Less, Restrict, QuidReleased
<1>9. \A x \in clean' : Frees(css', x)
  BY <1>1, <1>2, <1>3, <1>5, <1>8 DEF Frees, QuidReleased
<1>10. StyleInv'
  BY <1>1, <1>2, <1>6, <1>7, <1>9 DEF StyleInv, StyleOK
<1> QED
  BY <1>3, <1>5, <1>10 DEF QuidReleased

\* The api goes, a document comes, the page takes an element away.
LEMMA HostSteps ==
  ASSUME StyleInv
  PROVE /\ DisposeApi => SafeStep
        /\ \A d \in Documents : RegisterDocument(d) \/ PageRemoves(d) => SafeStep
<1>1. StyleOK(css) /\ clean \subseteq CssQuids /\ \A x \in clean : Frees(css, x)
  BY DEF StyleInv
<1>2. DOMAIN css = StyleFields
  BY <1>1 DEF StyleOK, StoresOK, StyleType
<1>3. ASSUME DisposeApi PROVE SafeStep
  <2> DEFINE t == [css EXCEPT !.listening = FALSE]
  <2>1. CssCall(t, {})
    BY <1>3 DEF DisposeApi, Silent
  <2>2. /\ DOMAIN t = StyleFields /\ t.live = css.live /\ ~t.listening
        /\ t.quidRules = css.quidRules /\ t.rules = css.rules /\ t.rendered = css.rendered
        /\ t.byName = css.byName /\ t.namesByOwner = css.namesByOwner
        /\ t.ownerByName = css.ownerByName /\ t.pending = css.pending
        /\ t.changed = css.changed /\ t.frame = css.frame /\ t.docs = css.docs
        /\ t.sheet = css.sheet /\ t.disposed = css.disposed
    BY <1>2 DEF StyleFields
  <2> HIDE DEF t
  <2>3. StoresOK(t)
    BY <1>1, <2>2 DEF StyleOK, StoresOK, StyleType, OwnersAgree, LinksAgree, SourcesAgree, RulesAgree,
      DisposedIsGone
  <2>4. BehindIsMarked(t)
    BY <1>1, <2>2 DEF StyleOK, BehindIsMarked, ShowsOwn
  <2>5. \A x \in clean \ {} : Frees(t, x)
    BY <1>1, <2>2 DEF Frees
  <2> QED
    BY <2>1, <2>2, <2>3, <2>4, <2>5, CallStep DEF StyleOK
<1>4. ASSUME NEW d \in Documents, RegisterDocument(d) PROVE SafeStep
  <2> DEFINE t == register_runtime_document(css, d)
  <2>1. CssCall(t, {}) /\ ~css.disposed
    BY <1>4 DEF RegisterDocument, Silent
  <2>2. /\ StyleOK(t) /\ t.quidRules = css.quidRules /\ t.rules = css.rules
        /\ t.byName = css.byName /\ t.namesByOwner = css.namesByOwner /\ t.live = css.live
    BY <1>1, <2>1, RegisterKeeps
  <2> HIDE DEF t
  <2>3. \A x \in clean \ {} : Frees(t, x)
    BY <1>1, <2>2 DEF Frees
  <2> QED
    BY <2>1, <2>2, <2>3, CallStep
<1>5. ASSUME NEW d \in Documents, PageRemoves(d) PROVE SafeStep
  <2> DEFINE t == [css EXCEPT !.sheet[d] = Removed]
  <2>1. CssCall(t, {}) /\ css.sheet[d].element = "there"
    BY <1>5 DEF PageRemoves, Silent
  <2>2. /\ DOMAIN t = StyleFields /\ t.live = css.live /\ t.listening = css.listening
        /\ t.quidRules = css.quidRules /\ t.rules = css.rules /\ t.rendered = css.rendered
        /\ t.byName = css.byName /\ t.namesByOwner = css.namesByOwner
        /\ t.ownerByName = css.ownerByName /\ t.pending = css.pending
        /\ t.changed = css.changed /\ t.frame = css.frame /\ t.docs = css.docs
        /\ t.sheet = [css.sheet EXCEPT ![d] = Removed] /\ t.disposed = css.disposed
    BY <1>2 DEF StyleFields
  <2> HIDE DEF t
  <2>3. ~css.disposed
    BY <1>1, <2>1 DEF StyleOK, StoresOK, DisposedIsGone, Gone
  <2>4. css.sheet = [x \in Documents |-> css.sheet[x]]
    BY <1>1 DEF StyleOK, StoresOK, StyleType
  <2>5. /\ t.sheet = [x \in Documents |-> t.sheet[x]]
        /\ \A x \in Documents : t.sheet[x] = IF x = d THEN Removed ELSE css.sheet[x]
    BY <2>2, <2>4
  <2>6. StoresOK(t)
    BY <1>1, <2>2, <2>3, <2>5 DEF StyleOK, StoresOK, StyleType, OwnersAgree, LinksAgree, SourcesAgree,
      RulesAgree, DisposedIsGone
  <2>7. css.docs \subseteq Documents
    BY <1>1 DEF StyleOK, StoresOK, StyleType
  <2>8. ShowsOwn(css) => ShowsOwn(t)
    BY <2>2, <2>5, <2>7 DEF ShowsOwn
  <2>9. buildCombinedCss(t) = buildCombinedCss(css)
    BY <2>2 DEF buildCombinedCss
  <2>10. ShowsGlobals(css) => ShowsGlobals(t)
    BY <2>2, <2>5, <2>7, <2>9 DEF ShowsGlobals
  <2>11. BehindIsMarked(t)
    BY <1>1, <2>2, <2>8, <2>10 DEF StyleOK, BehindIsMarked
  <2>12. \A x \in clean \ {} : Frees(t, x)
    BY <1>1, <2>2 DEF Frees
  <2> QED
    BY <2>1, <2>2, <2>6, <2>11, <2>12, CallStep DEF StyleOK
<1> QED
  BY <1>3, <1>4, <1>5

\* The runtime goes, with its documents.
LEMMA RuntimeStep ==
  ASSUME StyleInv, DisposeRuntime
  PROVE SafeStep
<1> DEFINE u == [css EXCEPT !.frame = FALSE, !.changed = FALSE, !.quidRules = NoDecls]
           c == Dropped(u, RuleKeys)
           t == [c EXCEPT !.sheet = [d \in Documents |-> Gone], !.docs = {}, !.disposed = TRUE]
<1>1. StyleOK(css) /\ clean \subseteq CssQuids /\ \A x \in clean : Frees(css, x)
  BY DEF StyleInv
<1>2. DOMAIN css = StyleFields
  BY <1>1 DEF StyleOK, StoresOK, StyleType
<1>3. CssCall(t, {}) /\ ~css.disposed
  BY DEF DisposeRuntime, Silent
<1>4. NoDecls = [q \in DOMAIN NoDecls |-> NoDecls[q]] /\ DOMAIN NoDecls = {}
  BY DEF NoDecls
<1>5. /\ DOMAIN u = StyleFields /\ u.live = css.live /\ ~u.changed
      /\ u.quidRules = NoDecls /\ u.rules = css.rules /\ u.rendered = css.rendered
      /\ u.byName = css.byName /\ u.namesByOwner = css.namesByOwner
      /\ u.ownerByName = css.ownerByName /\ u.docs = css.docs
      /\ u.sheet = css.sheet /\ u.disposed = css.disposed
  BY <1>2 DEF StyleFields
<1> HIDE DEF u
<1>6. StoresOK(u)
  <2>1. StyleType(u)
    <3>1. css.docs \subseteq Documents /\ css.sheet = [d \in Documents |-> css.sheet[d]]
      BY <1>1 DEF StyleOK, StoresOK, StyleType
    <3> HIDE DEF NoDecls
    <3> QED
      BY <1>4, <1>5, <3>1 DEF StyleType
  <2> QED
    BY <1>1, <1>5, <2>1 DEF StyleOK, StoresOK, OwnersAgree, LinksAgree, SourcesAgree, RulesAgree,
      DisposedIsGone
<1>7. /\ StoresOK(c) /\ c.changed = u.changed
      /\ DOMAIN c.rules = DOMAIN u.rules \ RuleKeys
      /\ c.quidRules = u.quidRules /\ c.byName = u.byName /\ c.namesByOwner = u.namesByOwner /\ c.live = u.live
  BY <1>6, DroppedStores
<1> HIDE DEF c
<1>8. DOMAIN c = StyleFields
  BY <1>7 DEF StoresOK, StyleType
<1>9. /\ DOMAIN t = StyleFields /\ t.disposed /\ t.docs = {} /\ t.sheet = [d \in Documents |-> Gone]
      /\ t.quidRules = c.quidRules /\ t.rules = c.rules /\ t.rendered = c.rendered
      /\ t.byName = c.byName /\ t.namesByOwner = c.namesByOwner
      /\ t.ownerByName = c.ownerByName /\ t.changed = c.changed /\ t.live = c.live
  BY <1>8 DEF StyleFields
<1> HIDE DEF t
<1>10. StoresOK(t)
  <2>1. StyleType(t) /\ DisposedIsGone(t)
    BY <1>7, <1>9 DEF StoresOK, StyleType, DisposedIsGone
  <2> QED
    <3>1. OwnersAgree(t)
      BY <1>7, <1>9 DEF StoresOK, OwnersAgree, LinksAgree, SourcesAgree
    <3>2. RulesAgree(t)
      BY <1>7, <1>9 DEF StoresOK, RulesAgree
    <3> QED
      BY <2>1, <3>1, <3>2 DEF StoresOK
<1>11. BehindIsMarked(t)
  BY <1>5, <1>7, <1>9 DEF BehindIsMarked, ShowsOwn, ShowsGlobals
<1>12. \A x \in clean \ {} : Frees(t, x)
  BY <1>1, <1>4, <1>5, <1>7, <1>9 DEF Frees
<1> QED
  BY <1>3, <1>5, <1>7, <1>9, <1>10, <1>11, <1>12, CallStep DEF StyleOK

\* The two callbacks.
LEMMA CallbackSteps ==
  ASSUME StyleInv
  PROVE Microtask \/ AnimationFrame => SafeStep
<1>1. StyleOK(css) /\ clean \subseteq CssQuids /\ \A x \in clean : Frees(css, x)
  BY DEF StyleInv
<1>2. DOMAIN css = StyleFields
  BY <1>1 DEF StyleOK, StoresOK, StyleType
<1>3. ASSUME Microtask PROVE SafeStep
  <2> DEFINE u == [css EXCEPT !.pending = FALSE]
             t == IF css.listening THEN markChanged(u) ELSE u
  <2>1. css' = t /\ clean' = clean
    BY <1>3 DEF Microtask
  <2>2. /\ DOMAIN u = StyleFields /\ u.listening = css.listening
        /\ SameStores(css, u) /\ u.changed = css.changed /\ u.frame = css.frame /\ u.sheet = css.sheet
    BY <1>2 DEF StyleFields, SameStores
  <2> HIDE DEF u
  <2>3. StoresOK(u)
    BY <1>1, <2>2 DEF StyleOK, StoresOK, StyleType, OwnersAgree, LinksAgree, SourcesAgree, RulesAgree,
      DisposedIsGone, SameStores
  <2>4. StyleOK(t) /\ SameStores(css, t)
    <3>1. CASE css.listening
      <4>1. StyleOK(markChanged(u)) /\ SameStores(u, markChanged(u))
        BY <2>3, MarkKeeps
      <4> QED
        BY <3>1, <4>1, <2>2 DEF SameStores
    <3>2. CASE ~css.listening
      <4>1. BehindIsMarked(u)
        BY <1>1, <2>2, <3>2 DEF StyleOK, BehindIsMarked, ShowsOwn, SameStores
      <4> QED
        BY <2>2, <2>3, <3>2, <4>1 DEF StyleOK
    <3> QED
      BY <3>1, <3>2
  <2> HIDE DEF t
  <2> QED
    BY <1>1, <2>1, <2>4 DEF StyleInv, Frees, SameStores, SafeStep
<1>4. ASSUME AnimationFrame PROVE SafeStep
  <2> DEFINE u == [css EXCEPT !.frame = FALSE]
             t == IF css.changed THEN syncToDom(u) ELSE u
  <2>1. css' = t /\ clean' = clean
    BY <1>4 DEF AnimationFrame, syncNow
  <2>2. /\ DOMAIN u = StyleFields /\ u.listening = css.listening /\ u.pending = css.pending
        /\ SameStores(css, u) /\ u.changed = css.changed /\ u.sheet = css.sheet
    BY <1>2 DEF StyleFields, SameStores
  <2> HIDE DEF u
  <2>3. StoresOK(u)
    BY <1>1, <2>2 DEF StyleOK, StoresOK, StyleType, OwnersAgree, LinksAgree, SourcesAgree, RulesAgree,
      DisposedIsGone, SameStores
  <2>4. StyleOK(t) /\ SameStores(css, t)
    <3>1. CASE css.changed
      <4>1. StyleOK(syncToDom(u)) /\ SameStores(u, syncToDom(u))
        BY <2>3, SyncKeeps
      <4> QED
        BY <3>1, <4>1, <2>2 DEF SameStores
    <3>2. CASE ~css.changed
      <4>1. ShowsOwn(css) /\ (css.pending \/ ~css.listening \/ ShowsGlobals(css))
        BY <1>1, <3>2 DEF StyleOK, BehindIsMarked
      <4>2. ShowsOwn(u)
        BY <2>2, <4>1 DEF ShowsOwn, SameStores
      <4>3. buildCombinedCss(u) = buildCombinedCss(css)
        BY <2>2 DEF buildCombinedCss, SameStores
      <4>4. ShowsGlobals(css) => ShowsGlobals(u)
        BY <2>2, <4>3 DEF ShowsGlobals, SameStores
      <4>5. BehindIsMarked(u)
        BY <2>2, <3>2, <4>1, <4>2, <4>4 DEF BehindIsMarked
      <4> QED
        BY <2>2, <2>3, <3>2, <4>5 DEF StyleOK
    <3> QED
      BY <3>1, <3>2
  <2> HIDE DEF t
  <2> QED
    BY <1>1, <2>1, <2>4 DEF StyleInv, Frees, SameStores, SafeStep
<1> QED
  BY <1>3, <1>4

LEMMA StyleStep ==
  ASSUME StyleInv, [CssNext]_cssVars
  PROVE SafeStep \/ \E q \in CssQuids : DisposeStyled(q)
<1>1. ASSUME UNCHANGED cssVars PROVE SafeStep
  BY <1>1 DEF cssVars, SafeStep, StyleInv
<1>2. ASSUME NEW q \in CssQuids, NEW p \in CssProps, NEW v \in CssVals \cup {""}, SetProp(q, p, v)
      PROVE SafeStep
  BY <1>2, DeclarationSteps
<1>3. ASSUME NEW q \in CssQuids, ClearCss(q) PROVE SafeStep
  BY <1>3, DeclarationSteps
<1>4. ASSUME NEW q \in CssQuids, NEW name \in FrameNames, NEW v \in CssVals, SetOwnedFrames(q, name, v)
      PROVE SafeStep
  BY <1>4, FrameSteps
<1>5. ASSUME ClearAllQuids \/ ClearAllRules PROVE SafeStep
  BY <1>5, ClearingSteps
<1>6. ASSUME NEW key \in RuleKeys, NEW scope \in {"", "media"}, OpenRule(key, scope) PROVE SafeStep
  BY <1>6, HandleSteps
<1>7. ASSUME NEW i \in DOMAIN ruleHandles,
             \/ \E p \in CssProps, v \in CssVals : HandleSet(i, p, v)
             \/ \E p \in CssProps : HandleRemove(i, p)
             \/ HandleClear(i)
      PROVE SafeStep
  <2>1. \E decls, also : HandleWrites(i, decls, also)
    BY <1>7 DEF HandleSet, HandleRemove, HandleClear
  <2> QED
    BY <2>1, HandleSteps
<1>8. ASSUME NEW key \in RuleKeys, DropRule(key) PROVE SafeStep
  BY <1>8, ClearingSteps
<1>9. ASSUME NEW name \in FrameNames, (\E v \in CssVals : SetFrames(name, v)) \/ DeleteFrames(name)
      PROVE SafeStep
  BY <1>9, FrameSteps
<1>10. ASSUME NEW d \in Documents, RegisterDocument(d) \/ PageRemoves(d) PROVE SafeStep
  BY <1>10, HostSteps
<1>11. ASSUME DisposeApi PROVE SafeStep
  BY <1>11, HostSteps
<1>12. ASSUME DisposeRuntime PROVE SafeStep
  BY <1>12, RuntimeStep
<1>13. ASSUME Microtask \/ AnimationFrame PROVE SafeStep
  BY <1>13, CallbackSteps
<1> QED
  BY <1>1, <1>2, <1>3, <1>4, <1>5, <1>6, <1>7, <1>8, <1>9, <1>10, <1>11, <1>12, <1>13 DEF CssNext

LEMMA StyleStarts ==
  ASSUME CssInit
  PROVE StyleInv
<1>1. PICK live \in SUBSET CssQuids : css = EmptyCss(live)
  BY DEF CssInit
<1>2. NoDecls = [q \in DOMAIN NoDecls |-> NoDecls[q]] /\ DOMAIN NoDecls = {}
  BY DEF NoDecls
<1>3. /\ DOMAIN css = StyleFields /\ css.docs = {} /\ css.sheet = [d \in Documents |-> Gone]
      /\ css.quidRules = NoDecls /\ css.rules = NoDecls /\ css.rendered = NoDecls
      /\ css.byName = NoDecls /\ css.namesByOwner = NoDecls /\ css.ownerByName = NoDecls
      /\ ~css.changed /\ ~css.disposed
  BY <1>1 DEF EmptyCss, StyleFields
<1> HIDE DEF NoDecls
<1>4. StyleType(css)
  BY <1>2, <1>3 DEF StyleType
<1>5. OwnersAgree(css) /\ RulesAgree(css) /\ DisposedIsGone(css)
  BY <1>2, <1>3 DEF OwnersAgree, LinksAgree, SourcesAgree, RulesAgree, DisposedIsGone
<1>6. BehindIsMarked(css)
  BY <1>3 DEF BehindIsMarked, ShowsOwn, ShowsGlobals
<1> QED
  BY <1>4, <1>5, <1>6 DEF StyleInv, StyleOK, StoresOK, CssInit

LEMMA StyleShows ==
  ASSUME StyleInv
  PROVE SheetExact
<1>1. StoresOK(css) /\ BehindIsMarked(css)
  BY DEF StyleInv, StyleOK
<1>2. SheetCatchesUp
  BY <1>1 DEF BehindIsMarked, ShowsOwn, ShowsGlobals, SheetCatchesUp
<1>3. ReleasedStaysClean
  BY DEF StyleInv, Frees, ReleasedStaysClean
<1>4. GetShowsWhatRenders
  BY <1>1 DEF StoresOK, RulesAgree, GetShowsWhatRenders
<1>5. DisposedLeavesNoSheet
  BY <1>1 DEF StoresOK, DisposedIsGone, DisposedLeavesNoSheet, Gone
<1> QED
  BY <1>2, <1>3, <1>4, <1>5 DEF SheetExact

\* Whatever calls, disposals, microtasks and frames come in whatever order,
\* what a document renders is what the rules, the declarations and the
\* keyframes say, or a callback is under way that will write it; a disposed
\* QUID leaves nothing, and a disposed runtime no style element.
THEOREM SheetStaysExact == CssInit /\ [][CssNext]_cssVars => []SheetExact
<1>1. CssInit => StyleInv
  BY StyleStarts
<1>2. StyleInv /\ [CssNext]_cssVars => StyleInv'
  BY StyleStep, DisposeStep DEF SafeStep
<1>3. StyleInv => SheetExact
  BY StyleShows
<1> QED
  BY <1>1, <1>2, <1>3, PTL

\* The disposal of a node takes its own declarations, rules and keyframes and
\* nothing that another node or nobody owns.
THEOREM ReleaseSparesTheOthers == CssInit /\ [][CssNext]_cssVars => ReleaseSparesOthers
<1>1. CssInit => StyleInv
  BY StyleStarts
<1>2. StyleInv /\ [CssNext]_cssVars => StyleInv'
  BY StyleStep, DisposeStep DEF SafeStep
<1>3. ASSUME StyleInv, [CssNext]_cssVars
      PROVE [\A q \in css.live \ css'.live :
               /\ css'.quidRules = Less(css.quidRules, {q})
               /\ \A k \in DOMAIN css.rules : Mentions(k) # q => k \in DOMAIN css'.rules
               /\ \A n \in DOMAIN css.byName :
                    css.byName[n].source # q => n \in DOMAIN css'.byName]_cssVars
  <2>1. CASE SafeStep
    BY <2>1 DEF SafeStep
  <2>2. CASE \E q \in CssQuids : DisposeStyled(q)
    <3>1. PICK q \in CssQuids : DisposeStyled(q)
      BY <2>2
    <3> QED
      BY <1>3, <3>1, DisposeStep
  <2> QED
    BY <1>3, <2>1, <2>2, StyleStep
<1> QED
  BY <1>1, <1>2, <1>3, PTL DEF ReleaseSparesOthers

-----------------------------------------------------------------------------
(* Reflect collections.  The steps of an update change records and host long
   before the collection shows its source again, so the invariant says of each
   position that it shows the source, or is about to be changed by the commit
   under way, or by one whose publication is still ahead. *)

Item == [key : ItemKeys, val : ItemVals]
Position == Nat \ {0}
EditType == [kind : {"splice", "nested", "set"}, at : Position, removed : Nat, inserted : Seq(Item)]
PubType == [ops : Seq(EditType), rev : Nat, src : 1..2]
CollStatus == {"initializing", "ready", "updating", "failed", "disposed"}
FrameType ==
  [kind : {"initial", "synchronize", "replace", "commit"}, src : 1..2, ops : Seq(EditType), rev : Nat,
   within : BOOLEAN, desired : Seq(Item), ids : Seq(Nat), staged : SUBSET Nat,
   phase : {"create", "update", "nested"}, i : Position, old : Seq(Nat),
   list : Seq(Nat \X Nat), prior : CollStatus]
Reasons == Lasting \cup {"hook threw", "duplicate key", "dead branch", "mismatch", "re-entrant"}
CollType ==
  [status : CollStatus, src : 1..2, subscribed : BOOLEAN, records : Seq(Nat), last : Nat, why : SUBSET Reasons]
RecordType == [key : ItemKeys, shown : ItemVals \cup {""}, alive : BOOLEAN]

CollTypes ==
  /\ arrays \in [1..2 -> Seq(Item)] /\ crev \in [1..2 -> Nat]
  /\ cpubs \in Seq(PubType) /\ cat \in {"early", "late"}
  /\ coll \in CollType /\ recs \in Seq(RecordType) /\ host \in Seq(Nat)
  /\ frames \in Seq(FrameType)

\* What a commit says it changes, and what the publications still ahead say.
OpTouches(op, j) ==
  CASE op.kind = "splice" -> j >= op.at /\ (j < op.at + Len(op.inserted) \/ Len(op.inserted) # op.removed)
    [] op.kind = "nested" -> j = op.at
    [] OTHER -> TRUE
OpsTouch(ops, j) == \E k \in DOMAIN ops : OpTouches(ops[k], j)
OpsShape(ops) == ops # <<>> /\ (Len(ops) = 1 \/ \A k \in DOMAIN ops : ops[k].kind = "nested")
Ahead == { k \in DOMAIN cpubs : cat = "early" \/ k > 1 }
Dirty(s, j) == \E k \in Ahead : cpubs[k].src = s /\ OpsTouch(cpubs[k].ops, j)

Agree(a, b, j) == (j \in DOMAIN a <=> j \in DOMAIN b) /\ (j \in DOMAIN a => a[j] = b[j])
Shows(r, item) == r.key = item.key /\ r.shown = item.val
Mirrored(j) ==
  LET array == arrays[coll.src]
  IN (j \in DOMAIN coll.records <=> j \in DOMAIN array)
     /\ (j \in DOMAIN coll.records => Shows(recs[coll.records[j]], array[j]))

Committing == frames # <<>> /\ frames[1].kind = "commit"
Staged == IF frames = <<>> THEN {} ELSE frames[1].staged

PriorOf(kind) ==
  CASE kind = "initial" -> {"initializing"} [] kind = "commit" -> {"ready"} [] OTHER -> {"ready", "failed"}
ControlOf(f) ==
  /\ f.within = (cpubs # <<>>)
  /\ f.phase # "create" => coll.status = "updating"
  /\ f.phase = "create" => coll.status = f.prior
  /\ f.prior \in PriorOf(f.kind)
  /\ f.kind = "initial" =>
       cpubs = <<>> /\ coll.records = <<>> /\ f.src = coll.src /\ ~coll.subscribed /\ coll.last = crev[coll.src]
  /\ f.kind # "initial" => coll.subscribed
  /\ f.kind = "commit" => cpubs # <<>> /\ cat = "late" /\ f.src = coll.src /\ f.rev = cpubs[1].rev /\ f.ops = cpubs[1].ops
  /\ f.kind = "replace" => f.src # coll.src
  /\ f.kind = "synchronize" => f.src = coll.src
  /\ f.phase = "nested" => f.kind = "commit"
ControlInv ==
  /\ Len(frames) <= 1
  /\ frames = <<>> => coll.status \in {"ready", "failed", "disposed"}
  /\ frames = <<>> /\ coll.status # "disposed" => coll.subscribed
  /\ coll.status = "disposed" => frames = <<>> /\ ~coll.subscribed /\ coll.records = <<>>
  /\ frames # <<>> => ControlOf(frames[1])
  /\ \A k \in DOMAIN cpubs : OpsShape(cpubs[k].ops)

HostInv ==
  /\ host = coll.records /\ IsInjective(coll.records)
  /\ Range(coll.records) \subseteq DOMAIN recs
  /\ \A a, b \in Range(coll.records) : recs[a].key = recs[b].key => a = b
  /\ Staged \subseteq DOMAIN recs
  /\ \A s \in Staged, r \in Range(coll.records) : recs[s].key # recs[r].key
  /\ { i \in DOMAIN recs : recs[i].alive } = Range(coll.records) \cup Staged

Fresh(f, j) ==
  f.ids[j] \in f.staged
    \/ (f.phase = "update" /\ j < f.i /\ (f.kind = "commit" => shouldUpdateSurvivor(f.ops, j)))
BranchesOf(f) ==
  /\ IsInjective(KeysOf(f.desired))
  /\ f.i <= Len(f.desired) + 1
  /\ Len(f.ids) = IF f.phase = "create" THEN f.i - 1 ELSE Len(f.desired)
  /\ \A j \in DOMAIN f.ids :
       f.ids[j] \in Range(coll.records) \cup f.staged /\ recs[f.ids[j]].key = f.desired[j].key
  /\ f.staged \subseteq Range(f.ids)
  /\ \A j \in Position : Dirty(f.src, j) \/ Agree(f.desired, arrays[f.src], j)
  /\ \A j \in DOMAIN f.ids : Fresh(f, j) => Dirty(f.src, j) \/ recs[f.ids[j]].shown = arrays[f.src][j].val
NestedOf(f) ==
  /\ f.staged = {} /\ f.i <= Len(f.ops) + 1
  /\ \A k \in DOMAIN f.ops : f.ops[k].kind = "nested"
  /\ f.list = [k \in DOMAIN f.ops |-> <<f.ops[k].at, coll.records[f.ops[k].at]>>]
  /\ \A k \in DOMAIN f.ops :
       LET at == f.ops[k].at
       IN /\ at \in DOMAIN coll.records
          /\ Dirty(f.src, at)
               \/ /\ at \in DOMAIN arrays[f.src]
                  /\ recs[coll.records[at]].key = arrays[f.src][at].key
                  /\ k < f.i => recs[coll.records[at]].shown = arrays[f.src][at].val
FrameInv ==
  frames # <<>> =>
    /\ frames[1].old = coll.records
    /\ IF frames[1].phase = "nested" THEN NestedOf(frames[1]) ELSE BranchesOf(frames[1])

MirrorInv ==
  coll.status = "ready" \/ Committing =>
    \A j \in Position :
      Dirty(coll.src, j) \/ (Committing /\ OpsTouch(frames[1].ops, j)) \/ Mirrored(j)

RevisionInv ==
  "foreign" \notin coll.why =>
    /\ \A k \in DOMAIN cpubs : cpubs[k].src = coll.src
    /\ coll.subscribed /\ cpubs # <<>> => cpubs[Len(cpubs)].rev = crev[coll.src]
    /\ coll.status = "ready" /\ ~Committing /\ Ahead = {} => coll.last = crev[coll.src]

CauseInv ==
  /\ coll.status = "failed" => coll.why \cap {"hook threw", "duplicate key", "re-entrant", "foreign"} # {}
  /\ "re-entrant" \notin coll.why =>
       /\ Len(cpubs) <= 1
       /\ "foreign" \notin coll.why /\ coll.subscribed /\ cpubs # <<>> /\ cat = "early" =>
            \A k \in DOMAIN cpubs[1].ops :
              cpubs[1].ops[k].kind = "nested" => cpubs[1].ops[k].at \in DOMAIN arrays[coll.src]

CollGood ==
  CollTypes /\ ControlInv /\ HostInv /\ FrameInv /\ MirrorInv /\ RevisionInv /\ CauseInv
CollInv == "why" \in DOMAIN coll /\ (Undisturbed => CollGood)
-----------------------------------------------------------------------------
(* The members of a sequence that are in a set. *)
LEMMA KeptSteps ==
  ASSUME NEW seq, NEW set, Len(seq) \in Nat
  PROVE /\ RetainedParts(seq, set)[0] = <<>>
        /\ \A n \in 1..Len(seq) :
             RetainedParts(seq, set)[n] =
               IF seq[n] \in set THEN Append(RetainedParts(seq, set)[n - 1], seq[n]) ELSE RetainedParts(seq, set)[n - 1]
<1> DEFINE Step(s, n) == IF seq[n] \in set THEN Append(s, seq[n]) ELSE s
           Fits(f, m) == f = [n \in 0..m |-> IF n = 0 THEN <<>> ELSE Step(f[n - 1], n)]
           T == { m \in Nat : \E f : Fits(f, m) }
<1> HIDE DEF Step
<1>1. 0 \in T
  <2>1. Fits([n \in 0..0 |-> <<>>], 0) OBVIOUS
  <2> QED BY <2>1
<1>2. ASSUME NEW m \in Nat, m \in T PROVE m + 1 \in T
  <2>1. PICK f : Fits(f, m) BY <1>2
  <2> DEFINE g == [n \in 0..(m + 1) |-> IF n = m + 1 THEN Step(f[m], m + 1) ELSE f[n]]
  <2>2. ASSUME NEW n \in 0..(m + 1)
        PROVE g[n] = IF n = 0 THEN <<>> ELSE Step(g[n - 1], n)
    <3>1. CASE n = m + 1
      <4>1. g[n] = Step(f[m], m + 1) /\ n # 0 BY <3>1
      <4>2. n - 1 = m /\ g[m] = f[m] BY <3>1
      <4> QED BY <4>1, <4>2, <3>1
    <3>2. CASE n # m + 1
      <4>1. n \in 0..m BY <3>2
      <4>2. g[n] = f[n] BY <3>2
      <4>3. f[n] = IF n = 0 THEN <<>> ELSE Step(f[n - 1], n) BY <4>1, <2>1
      <4>4. CASE n = 0 BY <4>4, <4>2, <4>3
      <4>5. CASE n # 0
        <5>1. n - 1 \in 0..(m + 1) /\ n - 1 # m + 1 BY <4>1, <4>5
        <5>2. g[n - 1] = f[n - 1] BY <5>1
        <5> QED BY <4>2, <4>3, <4>5, <5>2
      <4> QED BY <4>4, <4>5
    <3> QED BY <3>1, <3>2
  <2> HIDE DEF g
  <2>3. g = [n \in 0..(m + 1) |-> g[n]] BY DEF g
  <2>4. Fits(g, m + 1) BY <2>2, <2>3
  <2> QED BY <2>4
<1>3. Len(seq) \in T
  <2> HIDE DEF T
  <2> QED BY <1>1, <1>2, SetInduction
<1>4. Fits(RetainedParts(seq, set), Len(seq))
  <2>1. PICK f : Fits(f, Len(seq)) BY <1>3
  <2> QED BY <2>1 DEF RetainedParts, Step
<1> DEFINE kept == RetainedParts(seq, set)
<1> HIDE DEF kept
<1>5. kept = [n \in 0..Len(seq) |-> IF n = 0 THEN <<>> ELSE Step(kept[n - 1], n)]
  BY <1>4 DEF kept
<1>6. kept[0] = <<>> BY <1>5
<1>7. \A n \in 1..Len(seq) : n \in 0..Len(seq) /\ n # 0 OBVIOUS
<1>8. \A n \in 1..Len(seq) : kept[n] = Step(kept[n - 1], n) BY <1>5, <1>7
<1> QED BY <1>6, <1>8 DEF kept, Step

(* What is kept of the first n members: those in the set, once if they were   *)
(* there once, and all of the first m when the set has them.                  *)
KeptWell(D, seq, set, m, k, n) ==
  /\ k \in Seq(D) /\ Len(k) <= n
  /\ \A x : x \in Range(k) <=> \E i \in 1..n : seq[i] = x /\ x \in set
  /\ IsInjective(seq) => IsInjective(k)
  /\ n >= m => Len(k) >= m
  /\ n < m => Len(k) = n
  /\ \A i \in 1..m : i <= n => k[i] = seq[i]
LEMMA KeptUpTo ==
  ASSUME NEW D, NEW seq \in Seq(D), NEW set, NEW m \in 0..Len(seq), \A i \in 1..m : seq[i] \in set
  PROVE \A n \in 0..Len(seq) : KeptWell(D, seq, set, m, RetainedParts(seq, set)[n], n)
<1> DEFINE K == RetainedParts(seq, set)
           Good(k, j) == KeptWell(D, seq, set, m, k, j)
           T == { j \in 0..Len(seq) : Good(K[j], j) }
<1> USE DEF KeptWell
<1>1. K[0] = <<>> /\ \A j \in 1..Len(seq) : K[j] = IF seq[j] \in set THEN Append(K[j - 1], seq[j]) ELSE K[j - 1]
  BY KeptSteps
<1> HIDE DEF K
<1>2. 0 \in T
  <2>1. <<>> \in Seq(D) /\ Len(<<>>) = 0 /\ Range(<<>>) = {} /\ IsInjective(<<>>)
    BY DEF Range, IsInjective
  <2>2. \A x : ~(\E i \in 1..0 : seq[i] = x /\ x \in set) OBVIOUS
  <2>3. 0 \in 0..Len(seq) /\ (0 >= m => m = 0) /\ ~(\E i \in 1..m : i <= 0) OBVIOUS
  <2>4. Good(<<>>, 0) BY <2>1, <2>2, <2>3
  <2> HIDE DEF Good
  <2> QED BY <1>1, <2>3, <2>4
<1>3. ASSUME NEW j \in 1..Len(seq), j - 1 \in T PROVE j \in T
  <2> DEFINE k == K[j - 1]
  <2>1. Good(k, j - 1) /\ j - 1 \in 0..Len(seq) BY <1>3
  <2>2. seq[j] \in D OBVIOUS
  <2> HIDE DEF k
  <2>3. CASE seq[j] \notin set
    <3>1. K[j] = k BY <1>1, <2>3 DEF k
    <3>2. j > m BY <2>3
    <3>3. \A x : x \in Range(k) <=> \E i \in 1..j : seq[i] = x /\ x \in set BY <2>1, <2>3
    <3>4. Good(k, j) BY <2>1, <3>2, <3>3
    <3> HIDE DEF Good
    <3> QED BY <3>1, <3>4
  <2>4. CASE seq[j] \in set
    <3> DEFINE a == Append(k, seq[j])
    <3>1. K[j] = a BY <1>1, <2>4 DEF k
    <3>2. a \in Seq(D) /\ Len(a) = Len(k) + 1 /\ a[Len(k) + 1] = seq[j] /\ \A i \in 1..Len(k) : a[i] = k[i]
      BY <2>1, <2>2
    <3> HIDE DEF a
    <3>3. Range(a) = Range(k) \cup {seq[j]}
      <4>1. DOMAIN a = 1..(Len(k) + 1) /\ DOMAIN k = 1..Len(k) BY <3>2, <2>1
      <4>2. PICK n \in Nat : n = Len(k) BY <2>1
      <4>3. /\ Range(a) = {a[i] : i \in 1..(n + 1)} /\ Range(k) = {k[i] : i \in 1..n}
            /\ a[n + 1] = seq[j] /\ \A i \in 1..n : a[i] = k[i]
        BY <3>2, <4>1, <4>2 DEF Range
      <4>4. \A i \in 1..(n + 1) : i \in 1..n \/ i = n + 1 BY <4>2
      <4>5. n + 1 \in 1..(n + 1) /\ \A i \in 1..n : i \in 1..(n + 1) BY <4>2
      <4>6. ASSUME NEW x \in Range(a) PROVE x \in Range(k) \cup {seq[j]} BY <4>3, <4>4, <4>6
      <4>7. ASSUME NEW x \in Range(k) \cup {seq[j]} PROVE x \in Range(a)
        <5>1. CASE x \in Range(k)
          <6>1. PICK i \in 1..n : x = k[i] BY <4>3, <5>1
          <6> QED BY <6>1, <4>3, <4>5
        <5>2. CASE x = seq[j] BY <5>2, <4>3, <4>5
        <5> QED BY <4>7, <5>1, <5>2
      <4> QED BY <4>6, <4>7
    <3>4. \A x : x \in Range(a) <=> \E i \in 1..j : seq[i] = x /\ x \in set
      <4>1. \A i \in 1..j : i \in 1..(j - 1) \/ i = j OBVIOUS
      <4>2. \A i \in 1..(j - 1) : i \in 1..j OBVIOUS
      <4> QED BY <3>3, <2>1, <2>4, <4>1, <4>2
    <3>5. ASSUME IsInjective(seq) PROVE IsInjective(a)
      <4>1. seq[j] \notin Range(k)
        <5>1. SUFFICES ASSUME seq[j] \in Range(k) PROVE FALSE OBVIOUS
        <5>2. PICK i \in 1..(j - 1) : seq[i] = seq[j] BY <2>1, <5>1
        <5> QED BY <5>2, <3>5 DEF IsInjective
      <4>2. IsInjective(k) BY <2>1, <3>5
      <4>3. SUFFICES ASSUME NEW x \in DOMAIN a, NEW y \in DOMAIN a, a[x] = a[y] PROVE x = y
        BY DEF IsInjective
      <4>4. DOMAIN a = 1..(Len(k) + 1) /\ DOMAIN k = 1..Len(k) BY <3>2, <2>1
      <4>5. CASE x \in 1..Len(k) /\ y \in 1..Len(k) BY <4>2, <4>3, <4>4, <4>5, <3>2 DEF IsInjective
      <4>6. CASE x = Len(k) + 1 /\ y \in 1..Len(k)
        BY <4>1, <4>3, <4>4, <4>6, <3>2 DEF Range
      <4>7. CASE y = Len(k) + 1 /\ x \in 1..Len(k)
        BY <4>1, <4>3, <4>4, <4>7, <3>2 DEF Range
      <4> QED BY <4>4, <4>5, <4>6, <4>7, <2>1
    <3>6. /\ Len(a) <= j /\ (j >= m => Len(a) >= m) /\ (j < m => Len(a) = j)
          /\ \A i \in 1..m : i <= j => a[i] = seq[i]
      <4>1. Len(k) \in Nat BY <2>1
      <4>2. Len(a) <= j BY <2>1, <3>2, <4>1
      <4>3. CASE j <= m
        <5>1. Len(k) = j - 1 BY <2>1, <4>3
        <5>2. Len(a) = j /\ a[j] = seq[j] BY <5>1, <3>2
        <5>3. \A i \in 1..m : i <= j => a[i] = seq[i]
          <6>1. SUFFICES ASSUME NEW i \in 1..m, i <= j PROVE a[i] = seq[i] OBVIOUS
          <6>2. CASE i = j BY <6>2, <5>2
          <6>3. CASE i # j BY <6>1, <6>3, <5>1, <3>2, <2>1
          <6> QED BY <6>2, <6>3
        <5> QED BY <4>2, <4>3, <5>2, <5>3
      <4>4. CASE j > m
        <5>1. Len(k) >= m BY <2>1, <4>4
        <5>2. \A i \in 1..m : i \in 1..Len(k) /\ k[i] = seq[i] BY <5>1, <2>1, <4>4, <4>1
        <5> QED BY <4>2, <4>4, <5>1, <5>2, <3>2, <4>1
      <4> QED BY <4>3, <4>4
    <3>7. Good(a, j) BY <3>2, <3>4, <3>5, <3>6
    <3> HIDE DEF Good
    <3> QED BY <3>1, <3>7
  <2> QED BY <2>3, <2>4
<1>4. 0..Len(seq) \subseteq T
  <2> HIDE DEF T
  <2>1. \A j \in 1..Len(seq) : j - 1 \in T => j \in T BY <1>3
  <2>2. Len(seq) \in Nat OBVIOUS
  <2> QED BY <1>2, <2>1, <2>2, BoundedInduction
<1> HIDE DEF KeptWell
<1> QED BY <1>4 DEF K

(* ... and so of the whole sequence. *)
LEMMA KeptIs ==
  ASSUME NEW D, NEW seq \in Seq(D), NEW set, NEW m \in 0..Len(seq), \A i \in 1..m : seq[i] \in set
  PROVE /\ Retained(seq, set) \in Seq(D) /\ Len(Retained(seq, set)) \in m..Len(seq)
        /\ Range(Retained(seq, set)) = Range(seq) \cap set
        /\ IsInjective(seq) => IsInjective(Retained(seq, set))
        /\ \A i \in 1..m : Retained(seq, set)[i] = seq[i]
<1> DEFINE k == RetainedParts(seq, set)[Len(seq)]
<1>1. Len(seq) \in 0..Len(seq) /\ Len(seq) >= m OBVIOUS
<1>2. KeptWell(D, seq, set, m, k, Len(seq)) BY <1>1, KeptUpTo
<1> HIDE DEF k
<1> USE DEF KeptWell
<1>3. Len(k) \in m..Len(seq) BY <1>2
<1>4. \A x : x \in Range(seq) <=> \E i \in 1..Len(seq) : seq[i] = x BY DEF Range
<1>5. Range(k) = Range(seq) \cap set BY <1>2, <1>4
<1> QED BY <1>2, <1>3, <1>5 DEF k, Retained

(* A set that has all of them keeps the sequence. *)
LEMMA KeptAll ==
  ASSUME NEW D, NEW seq \in Seq(D), NEW set, Range(seq) \subseteq set
  PROVE Retained(seq, set) = seq
<1>1. \A i \in 1..Len(seq) : seq[i] \in set BY DEF Range
<1>2. Len(seq) \in 0..Len(seq) OBVIOUS
<1> DEFINE k == Retained(seq, set)
<1>3. k \in Seq(D) /\ Len(k) \in Len(seq)..Len(seq) /\ \A i \in 1..Len(seq) : k[i] = seq[i]
  BY <1>1, <1>2, KeptIs
<1> HIDE DEF k
<1>4. Len(k) = Len(seq) BY <1>3
<1>5. k = seq BY <1>3, <1>4, SeqEqual
<1> QED BY <1>5 DEF k

(* Sets that agree on the members keep the same. *)
LEMMA KeptSame ==
  ASSUME NEW D, NEW seq \in Seq(D), NEW S, NEW T, \A i \in 1..Len(seq) : seq[i] \in S <=> seq[i] \in T
  PROVE Retained(seq, S) = Retained(seq, T)
<1> DEFINE A == RetainedParts(seq, S)
           B == RetainedParts(seq, T)
           Same == { j \in 0..Len(seq) : A[j] = B[j] }
<1>1. A[0] = <<>> /\ B[0] = <<>> BY KeptSteps
<1>2. \A j \in 1..Len(seq) :
        /\ A[j] = IF seq[j] \in S THEN Append(A[j - 1], seq[j]) ELSE A[j - 1]
        /\ B[j] = IF seq[j] \in T THEN Append(B[j - 1], seq[j]) ELSE B[j - 1]
  BY KeptSteps
<1> HIDE DEF A, B
<1>3. 0 \in Same BY <1>1
<1>4. \A j \in 1..Len(seq) : j - 1 \in Same => j \in Same BY <1>2
<1>5. Len(seq) \in Same
  <2> HIDE DEF Same
  <2>1. Len(seq) \in Nat OBVIOUS
  <2>2. 0..Len(seq) \subseteq Same BY <1>3, <1>4, <2>1, BoundedInduction
  <2> QED BY <2>1, <2>2
<1> QED BY <1>5 DEF A, B, Retained

(* A part of a sequence, from a place to another. *)
LEMMA PartOf ==
  ASSUME NEW D, NEW seq \in Seq(D), NEW from \in Nat, NEW to \in Nat, from >= 1, from <= to + 1, to <= Len(seq)
  PROVE /\ SubSeq(seq, from, to) \in Seq(D) /\ Len(SubSeq(seq, from, to)) = to + 1 - from
        /\ \A i \in 1..(to + 1 - from) : SubSeq(seq, from, to)[i] = seq[from + i - 1]
<1>1. \A i \in from..to : i \in 1..Len(seq) OBVIOUS
<1>2. \A i \in from..to : seq[i] \in D BY <1>1, ElementOfSeq
<1>3. from \in Int /\ to \in Int OBVIOUS
<1>4. /\ SubSeq(seq, from, to) \in Seq(D)
      /\ Len(SubSeq(seq, from, to)) = IF from <= to THEN to - from + 1 ELSE 0
      /\ \A i \in 1..(to - from + 1) : SubSeq(seq, from, to)[i] = seq[from + i - 1]
  BY <1>2, <1>3, SubSeqProperties
<1>5. to - from + 1 = to + 1 - from /\ (IF from <= to THEN to - from + 1 ELSE 0) = to + 1 - from OBVIOUS
<1> QED BY <1>4, <1>5

(* A branch put in at a place, with what it was elsewhere taken out: the       *)
(* places before it keep theirs, and nobody is there twice.                   *)
LEMMA PutIn ==
  ASSUME NEW seq \in Seq(Nat), NEW id \in Nat, NEW k \in 1..(Len(seq) + 1), IsInjective(seq),
         \A i \in 1..(k - 1) : seq[i] # id
  PROVE LET p == InsertHost(Drop(seq, id), k, <<id>>)
        IN /\ p \in Seq(Nat) /\ IsInjective(p) /\ Range(p) = Range(seq) \cup {id}
           /\ Len(p) >= k /\ p[k] = id /\ \A i \in 1..(k - 1) : p[i] = seq[i]
<1> DEFINE d == Drop(seq, id)
           p == InsertHost(d, k, <<id>>)
<1>1. k - 1 \in 0..Len(seq) /\ \A i \in 1..(k - 1) : seq[i] \in Range(seq) \ {id}
  BY DEF Range
<1>2. /\ d \in Seq(Nat) /\ Len(d) \in (k - 1)..Len(seq) /\ Range(d) = Range(seq) \ {id}
      /\ IsInjective(d) /\ \A i \in 1..(k - 1) : d[i] = seq[i]
  <2> DEFINE S == Range(seq) \ {id}
             m == k - 1
  <2>1. d = Retained(seq, S) BY DEF Drop
  <2>2. m \in 0..Len(seq) /\ \A i \in 1..m : seq[i] \in S BY <1>1
  <2> HIDE DEF S, m, d
  <2>3. /\ d \in Seq(Nat) /\ Len(d) \in m..Len(seq)
        /\ Range(d) = Range(seq) \cap S
        /\ (IsInjective(seq) => IsInjective(d)) /\ \A i \in 1..m : d[i] = seq[i]
    BY <2>1, <2>2, KeptIs
  <2> QED BY <2>3 DEF S, m
<1> HIDE DEF d
<1> DEFINE n == Len(d)
           a == SubSeq(d, 1, k - 1)
           b == SubSeq(d, k, n)
<1>3. n \in Nat /\ k <= n + 1 /\ k \in Nat /\ k >= 1 BY <1>2
<1>4. p = a \o <<id>> \o b
  <2> DEFINE at == IF k > n + 1 THEN n + 1 ELSE k
  <2>1. p = SubSeq(d, 1, at - 1) \o <<id>> \o SubSeq(d, at, n) BY Zenon DEF InsertHost
  <2>2. at = k BY <1>3
  <2> HIDE DEF at
  <2> QED BY <2>1, <2>2
<1>5. a \in Seq(Nat) /\ Len(a) = k - 1 /\ \A i \in 1..(k - 1) : a[i] = d[i]
  <2>1. PICK to \in Nat : to = k - 1 BY <1>3
  <2>2. d \in Seq(Nat) /\ 1 <= to + 1 /\ to <= Len(d) BY <1>2, <1>3, <2>1
  <2>3. /\ SubSeq(d, 1, to) \in Seq(Nat) /\ Len(SubSeq(d, 1, to)) = to + 1 - 1
        /\ \A i \in 1..(to + 1 - 1) : SubSeq(d, 1, to)[i] = d[1 + i - 1]
    BY <2>2, PartOf
  <2>4. to + 1 - 1 = k - 1 /\ \A i \in 1..(k - 1) : 1 + i - 1 = i BY <2>1
  <2> QED BY <2>1, <2>3, <2>4
<1>6. b \in Seq(Nat) /\ Len(b) = n + 1 - k /\ \A i \in 1..(n + 1 - k) : b[i] = d[k + i - 1]
  <2>1. PICK to \in Nat : to = n BY <1>3
  <2>2. d \in Seq(Nat) /\ k \in Nat /\ k >= 1 /\ k <= to + 1 /\ to <= Len(d) BY <1>2, <1>3, <2>1
  <2>3. /\ SubSeq(d, k, to) \in Seq(Nat) /\ Len(SubSeq(d, k, to)) = to + 1 - k
        /\ \A i \in 1..(to + 1 - k) : SubSeq(d, k, to)[i] = d[k + i - 1]
    BY <2>2, PartOf
  <2> HIDE DEF n
  <2> QED BY <2>1, <2>3
<1> DEFINE c == a \o <<id>>
<1> HIDE DEF a, b, n, p
<1>14. c \in Seq(Nat) /\ Len(c) = k /\ c[k] = id /\ \A i \in 1..(k - 1) : c[i] = a[i]
  <2>1. <<id>> \in Seq(Nat) /\ Len(<<id>>) = 1 /\ <<id>>[1] = id OBVIOUS
  <2>2. a \in Seq(Nat) /\ Len(a) = k - 1 BY <1>5
  <2>3. /\ c \in Seq(Nat) /\ Len(c) = Len(a) + Len(<<id>>)
        /\ \A i \in 1..(Len(a) + Len(<<id>>)) : c[i] = IF i <= Len(a) THEN a[i] ELSE <<id>>[i - Len(a)]
    BY <2>1, <2>2, Zenon, ConcatProperties
  <2> HIDE DEF c
  <2>4. (k - 1) + 1 = k /\ k - (k - 1) = 1 /\ k \in 1..k /\ ~(k <= k - 1) /\ \A i \in 1..(k - 1) : i \in 1..k /\ i <= k - 1
    BY <1>3
  <2>5. Len(c) = k /\ \A i \in 1..k : c[i] = IF i <= k - 1 THEN a[i] ELSE <<id>>[i - (k - 1)] BY <2>1, <2>2, <2>3, <2>4
  <2> QED BY <2>1, <2>3, <2>4, <2>5
<1>15. p = c \o b BY <1>4
<1> HIDE DEF c
<1>16. p \in Seq(Nat) /\ Len(p) = Len(c) + Len(b)
       /\ \A i \in 1..(Len(c) + Len(b)) : p[i] = IF i <= Len(c) THEN c[i] ELSE b[i - Len(c)]
  <2>1. b \in Seq(Nat) /\ c \in Seq(Nat) BY <1>6, <1>14
  <2>2. /\ (c \o b) \in Seq(Nat) /\ Len(c \o b) = Len(c) + Len(b)
        /\ \A i \in 1..(Len(c) + Len(b)) : (c \o b)[i] = IF i <= Len(c) THEN c[i] ELSE b[i - Len(c)]
    BY <2>1, Zenon, ConcatProperties
  <2> QED BY <2>2, <1>15
<1>7. p \in Seq(Nat) /\ Len(p) = n + 1 BY <1>3, <1>14, <1>16, <1>6
<1>8. \A i \in 1..(n + 1) : p[i] = IF i < k THEN d[i] ELSE IF i = k THEN id ELSE d[i - 1]
  <2>1. TAKE i \in 1..(n + 1)
  <2>5. p[i] = IF i <= k THEN c[i] ELSE b[i - k] BY <1>3, <1>6, <1>14, <1>16
  <2>2. CASE i < k
    <3>1. i \in 1..(k - 1) BY <2>2, <1>3
    <3> QED BY <3>1, <2>2, <2>5, <1>3, <1>5, <1>14
  <2>3. CASE i = k BY <2>3, <2>5, <1>3, <1>14
  <2>4. CASE i > k
    <3>1. i - k \in 1..(n + 1 - k) BY <2>4, <1>3
    <3>2. b[i - k] = d[k + (i - k) - 1] BY <3>1, <1>6
    <3>3. k + (i - k) - 1 = i - 1 BY <1>3
    <3> QED BY <3>2, <3>3, <2>4, <2>5, <1>3
  <2> QED BY <2>2, <2>3, <2>4, <1>3
<1>9. DOMAIN p = 1..(n + 1) /\ DOMAIN d = 1..n BY <1>7, <1>2 DEF n
<1>10. Range(p) = Range(d) \cup {id}
  <2>1. ASSUME NEW x \in Range(p) PROVE x \in Range(d) \cup {id}
    <3>1. PICK i \in 1..(n + 1) : p[i] = x BY <1>9 DEF Range
    <3>2. i \in 1..n \/ i - 1 \in 1..n \/ i = k BY <1>3
    <3>3. p[i] = id \/ (i < k /\ p[i] = d[i]) \/ (i > k /\ p[i] = d[i - 1]) BY <1>8, <1>3
    <3> QED BY <3>1, <3>3, <1>9, <1>3 DEF Range
  <2>2. ASSUME NEW x \in Range(d) PROVE x \in Range(p)
    <3>1. PICK i \in 1..n : d[i] = x BY <1>9 DEF Range
    <3>2. CASE i < k
      <4>1. i \in 1..(n + 1) /\ p[i] = d[i] BY <3>2, <1>8, <1>3
      <4> QED BY <3>1, <4>1, <1>9 DEF Range
    <3>3. CASE ~(i < k)
      <4>1. i + 1 \in 1..(n + 1) /\ i + 1 > k /\ i + 1 - 1 = i BY <3>3, <1>3
      <4>2. p[i + 1] = d[i + 1 - 1] BY <4>1, <1>8, <1>3
      <4>3. p[i + 1] = d[i] BY <4>1, <4>2
      <4> QED BY <3>1, <4>1, <4>3, <1>9 DEF Range
    <3> QED BY <3>2, <3>3
  <2>3. id \in Range(p)
    <3>1. k \in 1..(n + 1) /\ p[k] = id BY <1>8, <1>3
    <3> QED BY <3>1, <1>9 DEF Range
  <2> QED BY <2>1, <2>2, <2>3
<1>11. IsInjective(p)
  <2>1. SUFFICES ASSUME NEW i \in 1..(n + 1), NEW j \in 1..(n + 1), i < j, p[i] = p[j] PROVE FALSE
    <3>1. ASSUME NEW x \in 1..(n + 1), NEW y \in 1..(n + 1), p[x] = p[y], x # y PROVE FALSE
      <4>1. x < y \/ y < x BY <3>1, <1>3
      <4> QED BY <3>1, <4>1, <2>1
    <3> QED BY <3>1, <1>9 DEF IsInjective
  <2>2. \A x, y \in 1..n : d[x] = d[y] => x = y BY <1>2, <1>9 DEF IsInjective
  <2>3. \A x \in 1..n : d[x] # id BY <1>2, <1>9 DEF Range
  <2>4. CASE j < k
    <3>1. p[i] = d[i] /\ p[j] = d[j] /\ i \in 1..n /\ j \in 1..n BY <2>1, <2>4, <1>8, <1>3
    <3>2. d[i] = d[j] /\ i # j BY <3>1, <2>1, <1>3
    <3> QED BY <3>1, <3>2, <2>2
  <2>5. CASE j = k
    <3>1. p[i] = d[i] /\ p[j] = id /\ i \in 1..n BY <2>1, <2>5, <1>8, <1>3
    <3> QED BY <3>1, <2>1, <2>3
  <2>6. CASE j > k
    <3>1. p[j] = d[j - 1] /\ j - 1 \in 1..n BY <2>1, <2>6, <1>8, <1>3
    <3>2. CASE i < k
      <4>1. p[i] = d[i] /\ i \in 1..n /\ i # j - 1 BY <2>1, <2>6, <3>2, <1>8, <1>3
      <4> QED BY <3>1, <4>1, <2>1, <2>2
    <3>3. CASE i = k
      <4>1. p[i] = id BY <3>3, <1>8, <1>3
      <4> QED BY <3>1, <4>1, <2>1, <2>3
    <3>4. CASE i > k
      <4>1. p[i] = d[i - 1] /\ i - 1 \in 1..n /\ i - 1 # j - 1 BY <2>1, <3>4, <1>8, <1>3
      <4> QED BY <3>1, <4>1, <2>1, <2>2
    <3> QED BY <3>2, <3>3, <3>4, <1>3
  <2> QED BY <2>4, <2>5, <2>6, <1>3
<1>12. Len(p) >= k /\ p[k] = id BY <1>3, <1>7, <1>8
<1>13. \A i \in 1..(k - 1) : p[i] = seq[i]
  <2>1. TAKE i \in 1..(k - 1)
  <2>2. i \in 1..(n + 1) /\ i < k BY <1>3
  <2> QED BY <2>2, <1>8, <1>2
<1> QED BY <1>2, <1>7, <1>10, <1>11, <1>12, <1>13 DEF p, d

(* The placements, one branch after the other. *)
LEMMA PlacementsSteps ==
  ASSUME NEW start, NEW ids, NEW alive, Len(ids) \in Nat
  PROVE /\ Placements(start, ids, alive)[0] = start
        /\ \A n \in 1..Len(ids) :
             Placements(start, ids, alive)[n] = PlaceOne(Placements(start, ids, alive)[n - 1], n, ids[n], alive)
<1> DEFINE Step(acc, n) == PlaceOne(acc, n, ids[n], alive)
           Fits(f, m) == f = [n \in 0..m |-> IF n = 0 THEN start ELSE Step(f[n - 1], n)]
           T == { m \in Nat : \E f : Fits(f, m) }
<1> HIDE DEF Step
<1>1. 0 \in T
  <2>1. Fits([n \in 0..0 |-> start], 0) OBVIOUS
  <2> QED BY <2>1
<1>2. ASSUME NEW m \in Nat, m \in T PROVE m + 1 \in T
  <2>1. PICK f : Fits(f, m) BY <1>2
  <2> DEFINE g == [n \in 0..(m + 1) |-> IF n = m + 1 THEN Step(f[m], m + 1) ELSE f[n]]
  <2>2. ASSUME NEW n \in 0..(m + 1)
        PROVE g[n] = IF n = 0 THEN start ELSE Step(g[n - 1], n)
    <3>1. CASE n = m + 1
      <4>1. g[n] = Step(f[m], m + 1) /\ n # 0 BY <3>1
      <4>2. n - 1 = m /\ g[m] = f[m] BY <3>1
      <4> QED BY <4>1, <4>2, <3>1
    <3>2. CASE n # m + 1
      <4>1. n \in 0..m BY <3>2
      <4>2. g[n] = f[n] BY <3>2
      <4>3. f[n] = IF n = 0 THEN start ELSE Step(f[n - 1], n) BY <4>1, <2>1
      <4>4. CASE n = 0 BY <4>4, <4>2, <4>3
      <4>5. CASE n # 0
        <5>1. n - 1 \in 0..(m + 1) /\ n - 1 # m + 1 BY <4>1, <4>5
        <5>2. g[n - 1] = f[n - 1] BY <5>1
        <5> QED BY <4>2, <4>3, <4>5, <5>2
      <4> QED BY <4>4, <4>5
    <3> QED BY <3>1, <3>2
  <2> HIDE DEF g
  <2>3. g = [n \in 0..(m + 1) |-> g[n]] BY DEF g
  <2>4. Fits(g, m + 1) BY <2>2, <2>3
  <2> QED BY <2>4
<1>3. Len(ids) \in T
  <2> HIDE DEF T
  <2> QED BY <1>1, <1>2, SetInduction
<1>4. Fits(Placements(start, ids, alive), Len(ids))
  <2>1. PICK f : Fits(f, Len(ids)) BY <1>3
  <2> QED BY <2>1 DEF Placements, Step
<1> DEFINE placed == Placements(start, ids, alive)
<1> HIDE DEF placed
<1>5. placed = [n \in 0..Len(ids) |-> IF n = 0 THEN start ELSE Step(placed[n - 1], n)]
  BY <1>4 DEF placed
<1>6. placed[0] = start BY <1>5
<1>7. \A n \in 1..Len(ids) : n \in 0..Len(ids) /\ n # 0 OBVIOUS
<1>8. \A n \in 1..Len(ids) : placed[n] = Step(placed[n - 1], n) BY <1>5, <1>7
<1> QED BY <1>6, <1>8 DEF placed, Step

(* When every branch is alive and host and order agree and hold only branches *)
(* that stay, the host ends as the list of branches.                          *)
LEMMA PlacementsEnd ==
  ASSUME NEW ids \in Seq(Nat), IsInjective(ids), NEW alive, Range(ids) \subseteq alive,
         NEW h \in Seq(Nat), IsInjective(h), Range(h) \subseteq Range(ids)
  PROVE LET end == Placements([ok |-> TRUE, host |-> h, order |-> h], ids, alive)[Len(ids)]
        IN end.ok /\ end.host = ids
<1> DEFINE start == [ok |-> TRUE, host |-> h, order |-> h]
           P == Placements(start, ids, alive)
           Good(o, n) ==
             /\ o \in Seq(Nat) /\ IsInjective(o) /\ Range(o) \subseteq Range(ids)
             /\ Len(o) >= n /\ \A j \in 1..n : o[j] = ids[j]
           T == { n \in 0..Len(ids) : \E o : P[n] = [ok |-> TRUE, host |-> o, order |-> o] /\ Good(o, n) }
<1>1. P[0] = start /\ \A n \in 1..Len(ids) : P[n] = PlaceOne(P[n - 1], n, ids[n], alive)
  <2>1. Len(ids) \in Nat OBVIOUS
  <2>2. PICK s : s = start OBVIOUS
  <2>3. /\ Placements(s, ids, alive)[0] = s
        /\ \A n \in 1..Len(ids) :
             Placements(s, ids, alive)[n] = PlaceOne(Placements(s, ids, alive)[n - 1], n, ids[n], alive)
    BY <2>1, PlacementsSteps
  <2> HIDE DEF start
  <2> QED BY <2>2, <2>3
<1> HIDE DEF P
<1>2. 0 \in T
  <2>1. Good(h, 0) OBVIOUS
  <2>2. P[0] = [ok |-> TRUE, host |-> h, order |-> h] BY <1>1
  <2>3. 0 \in 0..Len(ids) OBVIOUS
  <2> HIDE DEF Good, start
  <2> QED BY <2>1, <2>2, <2>3
<1>3. ASSUME NEW n \in 1..Len(ids), n - 1 \in T PROVE n \in T
  <2>1. PICK o : P[n - 1] = [ok |-> TRUE, host |-> o, order |-> o] /\ Good(o, n - 1)
    <3> HIDE DEF Good
    <3> QED BY <1>3
  <2>6. P[n] = PlaceOne(P[n - 1], n, ids[n], alive) BY <1>1
  <2> DEFINE acc == P[n - 1]
  <2>7. acc.ok = TRUE /\ acc.order = o /\ acc = [ok |-> TRUE, host |-> o, order |-> o] BY <2>1
  <2> HIDE DEF acc
  <2>2. ids[n] \in Nat /\ ids[n] \in Range(ids) /\ ids[n] \in alive BY DEF Range
  <2>3. DOMAIN o = 1..Len(o) /\ Len(o) \in Nat BY <2>1
  <2>4. CASE n \in DOMAIN o /\ o[n] = ids[n]
    <3>1. P[n] = P[n - 1]
      <4>1. PlaceOne(acc, n, ids[n], alive) = acc BY <2>4, <2>7 DEF PlaceOne
      <4> QED BY <4>1, <2>6 DEF acc
    <3>2. Len(o) >= n BY <2>3, <2>4
    <3>3. \A j \in 1..n : o[j] = ids[j]
      <4>1. \A j \in 1..n : j \in 1..(n - 1) \/ j = n OBVIOUS
      <4> QED BY <4>1, <2>1, <2>4
    <3>4. Good(o, n) BY <2>1, <3>2, <3>3
    <3>5. n \in 0..Len(ids) OBVIOUS
    <3> HIDE DEF Good
    <3> QED BY <2>1, <3>1, <3>4, <3>5
  <2>5. CASE ~(n \in DOMAIN o /\ o[n] = ids[n])
    <3> DEFINE p == InsertHost(Drop(o, ids[n]), n, <<ids[n]>>)
    <3>1. PlaceOne(acc, n, ids[n], alive) = Place(acc, n, ids[n]) BY <2>2, <2>5, <2>7 DEF PlaceOne
    <3>8. Place(acc, n, ids[n]) = [ok |-> TRUE, host |-> p, order |-> p] 
      <4>1. Place([ok |-> TRUE, host |-> o, order |-> o], n, ids[n]) = [ok |-> TRUE, host |-> p, order |-> p]
        BY DEF Place
      <4> QED BY <4>1, <2>7
    <3>2. P[n] = [ok |-> TRUE, host |-> p, order |-> p] BY <3>1, <3>8, <2>6 DEF acc
    <3>3. n \in 1..(Len(o) + 1) BY <2>1, <2>3
    <3>4. \A i \in 1..(n - 1) : o[i] # ids[n]
      <4>1. \A i \in 1..(n - 1) : o[i] = ids[i] /\ i \in DOMAIN ids /\ n \in DOMAIN ids /\ i # n BY <2>1
      <4> QED BY <4>1 DEF IsInjective
    <3>5. /\ p \in Seq(Nat) /\ IsInjective(p) /\ Range(p) = Range(o) \cup {ids[n]}
          /\ Len(p) >= n /\ p[n] = ids[n] /\ \A i \in 1..(n - 1) : p[i] = o[i]
      BY <2>1, <2>2, <3>3, <3>4, PutIn
    <3> HIDE DEF p
    <3>6. \A j \in 1..n : p[j] = ids[j]
      <4>1. \A j \in 1..n : j \in 1..(n - 1) \/ j = n OBVIOUS
      <4> QED BY <4>1, <2>1, <3>5
    <3>7. Good(p, n) BY <2>1, <2>2, <3>5, <3>6
    <3>9. n \in 0..Len(ids) OBVIOUS
    <3> HIDE DEF Good
    <3> QED BY <3>2, <3>7, <3>9
  <2> QED BY <2>4, <2>5
<1>4. Len(ids) \in T
  <2> HIDE DEF T
  <2>1. \A n \in 1..Len(ids) : n - 1 \in T => n \in T BY <1>3
  <2>2. Len(ids) \in Nat OBVIOUS
  <2>3. 0..Len(ids) \subseteq T BY <1>2, <2>1, <2>2, BoundedInduction
  <2> QED BY <2>2, <2>3
<1>5. PICK o : P[Len(ids)] = [ok |-> TRUE, host |-> o, order |-> o] /\ Good(o, Len(ids)) BY <1>4
<1>6. Len(o) = Len(ids)
  <2>1. SUFFICES ASSUME Len(o) > Len(ids) PROVE FALSE BY <1>5
  <2> DEFINE m == Len(ids) + 1
  <2>2. m \in DOMAIN o /\ Len(ids) \in Nat BY <1>5, <2>1
  <2>3. o[m] \in Range(ids) BY <1>5, <2>2 DEF Range
  <2> HIDE DEF m
  <2>4. PICK j \in DOMAIN ids : ids[j] = o[m] BY <2>3 DEF Range
  <2> USE DEF m
  <2>6. j \in 1..Len(ids) BY <2>4
  <2>5. o[j] = o[m] /\ j \in DOMAIN o /\ j # m BY <1>5, <2>2, <2>4, <2>1, <2>6
  <2> QED BY <1>5, <2>2, <2>5 DEF IsInjective
<1>7. o = ids BY <1>5, <1>6, SeqEqual
<1> QED BY <1>5, <1>7 DEF P

-----------------------------------------------------------------------------
(* Steps. *)
ItemStep ==
  Reuse \/ Render \/ BeginUpdates \/ Update \/ PassOver \/ Attach \/ EndNested \/ HookThrows

(* What disturbs the collection is not forgotten. *)
LEMMA StaysDisturbed ==
  ASSUME "why" \in DOMAIN coll, [CollectionNext]_collVars
  PROVE "why" \in DOMAIN coll' /\ (Undisturbed' => Undisturbed)
<1> DEFINE Bad == {"nested", "disposed in a hook"}
           Keeps == "why" \in DOMAIN coll' /\ coll.why \cap Bad \subseteq coll'.why
<1> SUFFICES Keeps BY DEF Undisturbed
<1>1. ASSUME NEW f, coll' = Settle(f) \/ coll' = [Settle(f) EXCEPT !.records = f.ids] PROVE Keeps
  <2> DEFINE base == [coll EXCEPT !.status = "ready",
                           !.last = CASE f.kind = "commit" -> f.rev
                                      [] f.kind = "initial" -> @
                                      [] OTHER -> crev[f.src]]
  <2>1. DOMAIN base = DOMAIN coll /\ base.why = coll.why OBVIOUS
  <2> HIDE DEF base
  <2>2. "why" \in DOMAIN Settle(f) /\ coll.why \cap Bad \subseteq Settle(f).why
    <3>1. Settle(f) \in { [base EXCEPT !.subscribed = TRUE],
             [base EXCEPT !.src = f.src, !.subscribed = TRUE, !.why = @ \union (IF f.within THEN {"foreign"} ELSE {})],
             [base EXCEPT !.why = @ \intersect Lasting], base }
      BY DEF Settle, base
    <3>2. CASE Settle(f) = [base EXCEPT !.subscribed = TRUE] BY <2>1, <3>2
    <3>3. CASE Settle(f) = [base EXCEPT !.src = f.src, !.subscribed = TRUE,
                                        !.why = @ \union (IF f.within THEN {"foreign"} ELSE {})]
      BY <2>1, <3>3
    <3>4. CASE Settle(f) = [base EXCEPT !.why = @ \intersect Lasting] BY <2>1, <3>4 DEF Lasting
    <3>5. CASE Settle(f) = base BY <2>1, <3>5
    <3> QED BY <3>1, <3>2, <3>3, <3>4, <3>5
  <2> QED BY <1>1, <2>2
<1>2. ASSUME NEW f, NEW cause, coll' = Fails(f, cause) PROVE Keeps
  <2>1. Fails(f, cause) \in { [coll EXCEPT !.status = "disposed"], coll, [coll EXCEPT !.status = f.prior],
                              [coll EXCEPT !.status = "failed", !.why = @ \union {cause}] }
    BY DEF Fails
  <2> QED BY <1>2, <2>1
<1>3. ASSUME NEW f, Begin(f) PROVE Keeps
  <2>1. CASE coll' = Fails(f, "duplicate key") BY <2>1, <1>2
  <2>2. CASE coll' = coll BY <2>2
  <2> QED BY <1>3, <2>1, <2>2 DEF Begin
<1>4. CASE UNCHANGED collVars BY <1>4 DEF collVars
<1>5. CASE Reuse \/ Render \/ Update \/ PassOver BY <1>5 DEF Reuse, Render, Update, PassOver
<1>6. CASE BeginUpdates BY <1>6 DEF BeginUpdates
<1>7. CASE Attach BY <1>7, <1>1, <1>2 DEF Attach
<1>8. CASE EndNested BY <1>8, <1>1 DEF EndNested
<1>9. CASE HookThrows BY <1>9, <1>2 DEF HookThrows
<1>10. CASE HookWrites BY <1>10 DEF HookWrites
<1>11. CASE HookDisposes BY <1>11 DEF HookDisposes, Disposed
<1>12. CASE CommitArray BY <1>12 DEF CommitArray
<1>13. CASE Synchronize BY <1>13, <1>3 DEF Synchronize
<1>14. ASSUME NEW s \in DOMAIN arrays, ReplaceSource(s) PROVE Keeps BY <1>14, <1>3 DEF ReplaceSource
<1>15. CASE Dispose BY <1>15 DEF Dispose, Disposed
<1>16. CASE OnCommit
  <2>1. CASE OnNested(cpubs[1])
    <3>1. \/ \E cause : coll' = Fails([kind |-> "commit"], cause)
          \/ \E f : Begin(f)
          \/ coll' = [coll EXCEPT !.status = "updating"]
      BY <2>1 DEF OnNested
    <3> QED BY <3>1, <1>2, <1>3
  <2> QED BY <1>16, <1>3, <2>1 DEF OnCommit
<1>17. CASE EndDelivery BY <1>17 DEF EndDelivery
<1> QED BY <1>4, <1>5, <1>6, <1>7, <1>8, <1>9, <1>10, <1>11, <1>12, <1>13, <1>14, <1>15, <1>16, <1>17
        DEF CollectionNext

(* An undisturbed collection is updated by one frame at a time, and nobody    *)
(* calls it from outside meanwhile.                                           *)
LEMMA OneFrame ==
  ASSUME CollTypes, ControlInv
  PROVE /\ frames = <<>> => ~Running /\ Waiting
        /\ frames # <<>> =>
             /\ ~FromOutside /\ ~Delivering /\ Running
             /\ \E f \in FrameType : frames = <<f>>
<1>1. CASE frames = <<>> BY <1>1 DEF Running, Waiting, NoUpdate
<1>2. CASE frames # <<>>
  <2>1. Len(frames) = 1 /\ frames[1] \in FrameType
    <3>1. frames \in Seq(FrameType) /\ Len(frames) <= 1 BY DEF CollTypes, ControlInv
    <3>2. Len(frames) \in Nat \ {0} BY <3>1, <1>2, EmptySeq
    <3>3. Len(frames) = 1
      <4> DEFINE n == Len(frames)
      <4>1. n \in Nat \ {0} /\ n <= 1 BY <3>1, <3>2
      <4> HIDE DEF n
      <4>2. n = 1 BY <4>1
      <4> QED BY <4>2 DEF n
    <3> QED BY <3>1, <3>3, ElementOfSeq
  <2>2. Top = frames[1] BY <2>1 DEF Top, Last
  <2>3. Top.within = (cpubs # <<>>) BY <1>2, <2>2 DEF ControlInv, ControlOf
  <2>4. frames = <<frames[1]>> BY <2>1 DEF CollTypes
  <2> QED BY <1>2, <2>1, <2>3, <2>4 DEF Running, Waiting, NoUpdate, FromOutside, Delivering
<1> QED BY <1>1, <1>2

LEMMA TheFrame ==
  ASSUME NEW f, frames = <<f>>
  PROVE /\ Top = f /\ Popped = <<>> /\ frames # <<>> /\ frames[1] = f /\ ~NoUpdate
        /\ \A g : SetTop(g) <=> frames' = <<g>>
<1>1. Len(frames) = 1 /\ frames[1] = f /\ frames # <<>> OBVIOUS
<1>2. \A g : [frames EXCEPT ![1] = g] = <<g>> OBVIOUS
<1> QED BY <1>1, <1>2 DEF Top, Last, Popped, NoUpdate, SetTop

(* What is ahead changes only with the publications. *)
LEMMA SameAhead ==
  ASSUME UNCHANGED <<cpubs, cat>>
  PROVE Ahead' = Ahead /\ \A s, j : Dirty(s, j)' <=> Dirty(s, j)
BY DEF Ahead, Dirty

LEMMA DeadIs ==
  ASSUME NEW r \in Seq(RecordType), NEW h, NEW gone
  PROVE LET d == Dead(r, h, gone).recs
        IN /\ d \in Seq(RecordType) /\ DOMAIN d = DOMAIN r
           /\ \A i \in DOMAIN r :
                d[i].key = r[i].key /\ d[i].shown = r[i].shown /\ (d[i].alive <=> r[i].alive /\ i \notin gone)
<1> DEFINE d == Dead(r, h, gone).recs
<1>1. d = [i \in DOMAIN r |-> IF i \in gone THEN [r[i] EXCEPT !.alive = FALSE] ELSE r[i]] BY DEF Dead
<1>2. \A i \in DOMAIN r : r[i] \in RecordType OBVIOUS
<1> HIDE DEF d
<1>3. \A i \in DOMAIN r :
        /\ d[i] \in RecordType
        /\ d[i].key = r[i].key /\ d[i].shown = r[i].shown /\ (d[i].alive <=> r[i].alive /\ i \notin gone)
  BY <1>1, <1>2 DEF RecordType
<1>4. DOMAIN d = 1..Len(r) /\ Len(r) \in Nat BY <1>1
<1>5. d \in [1..Len(r) -> RecordType] BY <1>1, <1>3, <1>4
<1>6. d \in Seq(RecordType) BY <1>4, <1>5, SeqDef
<1> QED BY <1>1, <1>3, <1>6 DEF d

LEMMA DeadHost ==
  ASSUME NEW r, NEW h \in Seq(Nat), NEW gone, \A i \in Range(h) : r[i].alive
  PROVE Dead(r, h, gone).host = Retained(h, Range(h) \ gone)
<1>1. \A i \in Range(h) : (i \in gone => ~r[i].alive) <=> i \notin gone OBVIOUS
<1>2. { i \in Range(h) : i \in gone => ~r[i].alive } = Range(h) \ gone BY <1>1
<1> QED BY <1>2 DEF Dead

-----------------------------------------------------------------------------
(* A step of the frame on the stack. *)
LEMMA CollTyped ==
  ASSUME CollTypes
  PROVE /\ coll.status \in CollStatus /\ coll.src \in 1..2 /\ coll.records \in Seq(Nat)
        /\ DOMAIN coll = {"status", "src", "subscribed", "records", "last", "why"}
BY DEF CollTypes, CollType

LEMMA FrameGoesOn ==
  ASSUME NEW f \in FrameType, NEW g \in FrameType, frames = <<f>>, frames' = <<g>>, CollGood,
         UNCHANGED <<arrays, crev, cpubs, cat, host>>,
         g.kind = f.kind, g.src = f.src, g.ops = f.ops, g.rev = f.rev, g.within = f.within, g.prior = f.prior,
         \/ coll' = coll /\ g.phase = f.phase
         \/ coll' = [coll EXCEPT !.status = "updating"] /\ f.phase = "create" /\ g.phase = "update"
  PROVE /\ ControlInv' /\ RevisionInv' /\ CauseInv'
        /\ recs' \in Seq(RecordType) => CollTypes'
        /\ (\A i \in Range(coll.records) : recs'[i] = recs[i]) => MirrorInv'
        /\ \A s, j : Dirty(s, j)' <=> Dirty(s, j)
        /\ coll'.records = coll.records /\ coll'.src = coll.src
<1> USE DEF CollGood
<1>1. Ahead' = Ahead /\ \A s, j : Dirty(s, j)' <=> Dirty(s, j) BY SameAhead
<1>2. /\ coll'.src = coll.src /\ coll'.subscribed = coll.subscribed /\ coll'.records = coll.records
      /\ coll'.last = coll.last /\ coll'.why = coll.why
      /\ coll'.status \in {coll.status, "updating"}
      /\ \/ coll'.status = coll.status /\ g.phase = f.phase
         \/ coll'.status = "updating" /\ f.phase = "create" /\ g.phase = "update"
  BY CollTyped
<1>3. frames # <<>> /\ frames[1] = f /\ frames' # <<>> /\ frames'[1] = g /\ Len(frames') = 1 OBVIOUS
<1>4. ControlOf(f) BY <1>3 DEF ControlInv
<1>5. ControlOf(g)' BY <1>2, <1>4 DEF ControlOf
<1>6. coll.status # "disposed" BY <1>3 DEF ControlInv
<1>7. ControlInv' BY <1>2, <1>3, <1>5, <1>6 DEF ControlInv
<1>8. Committing' = Committing BY <1>3 DEF Committing
<1>9. RevisionInv' BY <1>1, <1>2, <1>8 DEF RevisionInv
<1>10. CauseInv' BY <1>2 DEF CauseInv
<1>11. ASSUME recs' \in Seq(RecordType) PROVE CollTypes'
  <2>1. coll' \in CollType BY DEF CollTypes, CollType, CollStatus
  <2>2. frames' \in Seq(FrameType) OBVIOUS
  <2> QED BY <1>11, <2>1, <2>2 DEF CollTypes
<1>12. ASSUME \A i \in Range(coll.records) : recs'[i] = recs[i] PROVE MirrorInv'
  <2>1. \A j \in DOMAIN coll.records : recs'[coll.records[j]] = recs[coll.records[j]] BY <1>12 DEF Range
  <2>2. \A j : Mirrored(j) => Mirrored(j)' BY <1>2, <2>1 DEF Mirrored
  <2>3. coll'.status = "ready" => coll.status = "ready" BY <1>2
  <2> QED BY <1>1, <1>2, <1>3, <1>8, <2>2, <2>3 DEF MirrorInv
<1> QED BY <1>1, <1>2, <1>7, <1>9, <1>10, <1>11, <1>12

(* One more branch in the list of the update. *)
LEMMA BranchAdded ==
  ASSUME NEW f \in FrameType, NEW r \in Nat, NEW N \in {{}, {r}}, NEW g,
         g = [f EXCEPT !.ids = Append(f.ids, r), !.staged = f.staged \cup N, !.i = f.i + 1],
         BranchesOf(f), f.phase = "create", f.i <= Len(f.desired),
         UNCHANGED <<arrays, cpubs, cat>>, coll'.records = coll.records,
         \A x \in Range(f.ids) : recs'[x].key = recs[x].key /\ recs'[x].shown = recs[x].shown,
         r \in Range(coll.records) \cup g.staged, recs'[r].key = f.desired[f.i].key,
         N = {r} => r \notin Range(f.ids),
         r \in g.staged => Dirty(f.src, f.i) \/ recs'[r].shown = arrays[f.src][f.i].val
  PROVE g \in FrameType /\ BranchesOf(g)'
<1> USE DEF BranchesOf
<1>1. f.ids \in Seq(Nat) /\ f.desired \in Seq(Item) /\ f.i \in Nat \ {0} /\ Len(f.ids) = f.i - 1
      /\ f.staged \subseteq Nat
  BY DEF FrameType, Position
<1>2. /\ g.ids = Append(f.ids, r) /\ g.staged = f.staged \cup N /\ g.i = f.i + 1 /\ g.phase = "create"
      /\ g.desired = f.desired /\ g.src = f.src /\ g.kind = f.kind /\ g.ops = f.ops
  BY DEF FrameType
<1>3. /\ g.ids \in Seq(Nat) /\ Len(g.ids) = f.i /\ g.ids[f.i] = r
      /\ DOMAIN g.ids = 1..f.i /\ DOMAIN f.ids = 1..(f.i - 1)
      /\ \A j \in 1..(f.i - 1) : g.ids[j] = f.ids[j]
  BY <1>1, <1>2
<1>4. g \in FrameType
  <2>1. g.staged \in SUBSET Nat /\ g.i \in Position BY <1>1, <1>2 DEF Position
  <2> QED BY <2>1, <1>2, <1>3 DEF FrameType
<1>5. \A s, j : Dirty(s, j)' <=> Dirty(s, j) BY SameAhead
<1>6. \A j \in 1..f.i : j \in 1..(f.i - 1) \/ j = f.i BY <1>1
<1>7. \A j \in 1..(f.i - 1) : f.ids[j] \in Range(f.ids) BY <1>3 DEF Range
<1>8. \A j \in DOMAIN g.ids :
        g.ids[j] \in Range(coll.records) \cup g.staged /\ recs'[g.ids[j]].key = g.desired[j].key
  <2>1. TAKE j \in DOMAIN g.ids
  <2>2. CASE j \in 1..(f.i - 1)
    <3>1. f.ids[j] \in Range(coll.records) \cup f.staged /\ recs[f.ids[j]].key = f.desired[j].key BY <1>3, <2>2
    <3> QED BY <3>1, <2>2, <1>2, <1>3, <1>7
  <2>3. CASE j = f.i BY <2>3, <1>2, <1>3
  <2> QED BY <2>2, <2>3, <1>3, <1>6
<1>9. g.staged \subseteq Range(g.ids)
  <2>1. Range(f.ids) \subseteq Range(g.ids)
    <3>1. \A j \in 1..(f.i - 1) : j \in 1..f.i BY <1>1
    <3> QED BY <3>1, <1>3 DEF Range
  <2>2. r \in Range(g.ids)
    <3>1. f.i \in 1..f.i BY <1>1
    <3> QED BY <3>1, <1>3 DEF Range
  <2> QED BY <2>1, <2>2, <1>2
<1>10. \A j \in DOMAIN g.ids : Fresh(g, j) => Dirty(g.src, j) \/ recs'[g.ids[j]].shown = arrays[g.src][j].val
  <2>1. SUFFICES ASSUME NEW j \in DOMAIN g.ids, Fresh(g, j)
                 PROVE Dirty(f.src, j) \/ recs'[g.ids[j]].shown = arrays[f.src][j].val
    BY <1>2
  <2>2. g.ids[j] \in g.staged BY <2>1, <1>2 DEF Fresh
  <2>3. CASE j \in 1..(f.i - 1)
    <3>1. f.ids[j] \in f.staged BY <2>2, <2>3, <1>2, <1>3, <1>7
    <3>2. Dirty(f.src, j) \/ recs[f.ids[j]].shown = arrays[f.src][j].val BY <3>1, <2>3, <1>3 DEF Fresh
    <3> QED BY <3>2, <2>3, <1>3, <1>7
  <2>4. CASE j = f.i BY <2>2, <2>4, <1>3
  <2> QED BY <2>3, <2>4, <1>3, <1>6
<1>11. g.i <= Len(g.desired) + 1 /\ Len(g.ids) = g.i - 1 /\ IsInjective(KeysOf(g.desired))
  BY <1>1, <1>2, <1>3
<1>12. \A j \in Position : Dirty(g.src, j) \/ Agree(g.desired, arrays[g.src], j) BY <1>2
<1>13. \A j : Fresh(g, j)' <=> Fresh(g, j) BY DEF Fresh, shouldUpdateSurvivor
<1>14. \A j : Agree(g.desired, arrays[g.src], j)' <=> Agree(g.desired, arrays[g.src], j) BY DEF Agree
<1>15. BranchesOf(g)'
  BY <1>2, <1>5, <1>8, <1>9, <1>10, <1>11, <1>12, <1>13, <1>14
<1> QED BY <1>4, <1>15

LEMMA ReuseGoesOn ==
  ASSUME NEW f \in FrameType, frames = <<f>>, CollGood, Reuse
  PROVE CollGood'
<1>1. frames[1] = f /\ Top = f /\ frames # <<>> BY TheFrame
<1>2. f.phase = "create" /\ f.i <= Len(f.desired) /\ Existing(f, f.i) # {}
      /\ UNCHANGED <<arrays, crev, cpubs, cat, coll, recs, host>>
  <2>1. f.i \in Nat /\ Len(f.desired) \in Nat BY DEF FrameType, Position
  <2> QED BY <1>1, <2>1 DEF Reuse, Over, Length
<1>3. PICK r : r \in Existing(f, f.i) /\ SetTop([f EXCEPT !.ids = Append(@, r), !.i = @ + 1])
  <2> DEFINE c == CHOOSE id \in Existing(f, f.i) : TRUE
  <2>1. SetTop([f EXCEPT !.ids = Append(@, c), !.i = @ + 1]) BY <1>1, Zenon DEF Reuse
  <2>2. c \in Existing(f, f.i) BY <1>2
  <2> HIDE DEF c
  <2> QED BY <2>1, <2>2
<1>4. f.old = coll.records /\ BranchesOf(f) BY <1>1, <1>2 DEF CollGood, FrameInv
<1>5. r \in Range(coll.records) /\ recs[r].key = f.desired[f.i].key
  BY <1>3, <1>4 DEF Existing
<1>6. r \in Nat /\ r \notin f.staged
  <2>1. Range(coll.records) \subseteq DOMAIN recs /\ Staged = f.staged
        /\ \A s \in Staged, x \in Range(coll.records) : recs[s].key # recs[x].key
    BY <1>1 DEF CollGood, HostInv, Staged
  <2>2. DOMAIN recs \subseteq Nat BY DEF CollGood, CollTypes
  <2> QED BY <1>5, <2>1, <2>2
<1>7. PICK g : g = [f EXCEPT !.ids = Append(f.ids, r), !.staged = f.staged \cup {}, !.i = f.i + 1]
  OBVIOUS
<1>8. /\ g.kind = f.kind /\ g.src = f.src /\ g.ops = f.ops /\ g.rev = f.rev /\ g.within = f.within
      /\ g.prior = f.prior /\ g.phase = f.phase /\ g.staged = f.staged /\ g.old = f.old
      /\ g = [f EXCEPT !.ids = Append(f.ids, r), !.i = f.i + 1]
  BY <1>7 DEF FrameType
<1>9. frames' = <<g>> BY <1>3, <1>8, TheFrame
<1>10. g \in FrameType /\ BranchesOf(g)'
  <2>1. coll'.records = coll.records /\ \A x \in Range(f.ids) : recs'[x].key = recs[x].key /\ recs'[x].shown = recs[x].shown
    BY <1>2
  <2>2. r \in Range(coll.records) \cup g.staged /\ recs'[r].key = f.desired[f.i].key /\ r \notin g.staged
    BY <1>2, <1>5, <1>6, <1>8
  <2>3. {} \in {{}, {r}} /\ {} # {r} OBVIOUS
  <2> QED BY <1>2, <1>4, <1>6, <1>7, <2>1, <2>2, <2>3, BranchAdded
<1>11. ControlInv' /\ RevisionInv' /\ CauseInv' /\ CollTypes' /\ MirrorInv'
  <2>1. recs' \in Seq(RecordType) BY <1>2 DEF CollGood, CollTypes
  <2> QED BY <2>1, <1>2, <1>8, <1>9, <1>10, FrameGoesOn
<1>12. HostInv'
  <2>1. Staged' = Staged BY <1>1, <1>8, <1>9 DEF Staged
  <2> QED BY <2>1, <1>2 DEF CollGood, HostInv
<1>13. FrameInv'
  <2>1. frames'[1] = g BY <1>9
  <2> QED BY <2>1, <1>2, <1>4, <1>8, <1>10 DEF FrameInv
<1> QED BY <1>11, <1>12, <1>13 DEF CollGood

LEMMA RenderGoesOn ==
  ASSUME NEW f \in FrameType, frames = <<f>>, CollGood, Render
  PROVE CollGood'
<1>1. frames[1] = f /\ Top = f /\ frames # <<>> BY TheFrame
<1>2. f.phase = "create" /\ f.i <= Len(f.desired) /\ Existing(f, f.i) = {}
      /\ UNCHANGED <<arrays, crev, cpubs, cat, coll, host>>
  <2>1. f.i \in Nat /\ Len(f.desired) \in Nat BY DEF FrameType, Position
  <2> QED BY <1>1, <2>1 DEF Render, Over, Length
<1>3. PICK r : r = Len(recs) + 1 OBVIOUS
<1>4. PICK rec : rec = [key |-> f.desired[f.i].key, shown |-> ItemAt(f.src, f.i).val, alive |-> TRUE]
  OBVIOUS
<1>5. recs' = Append(recs, rec) /\ SetTop([f EXCEPT !.ids = Append(@, r), !.staged = @ \cup {r}, !.i = @ + 1])
  BY <1>1, <1>3, <1>4, Zenon DEF Render
<1>6. recs \in Seq(RecordType) /\ arrays \in [1..2 -> Seq(Item)] /\ f.src \in 1..2 /\ f.desired \in Seq(Item)
      /\ f.i \in Nat \ {0}
  BY DEF CollGood, CollTypes, FrameType, Position
<1>7. f.desired[f.i] \in Item /\ f.i \in DOMAIN f.desired BY <1>2, <1>6
<1>8. rec \in RecordType
  <2>1. ItemAt(f.src, f.i).val \in ItemVals \cup {""}
    <3>1. CASE f.i \in DOMAIN arrays[f.src]
      <4>1. arrays[f.src][f.i] \in Item BY <3>1, <1>6
      <4> QED BY <3>1, <4>1 DEF ItemAt, Item
    <3>2. CASE f.i \notin DOMAIN arrays[f.src] BY <3>2 DEF ItemAt, NoItem
    <3> QED BY <3>1, <3>2
  <2>2. f.desired[f.i].key \in ItemKeys BY <1>7 DEF Item
  <2> QED BY <2>1, <2>2, <1>4 DEF RecordType
<1>9. /\ recs' \in Seq(RecordType) /\ r \in Nat /\ r \notin DOMAIN recs /\ DOMAIN recs' = DOMAIN recs \cup {r}
      /\ recs'[r] = rec /\ \A i \in DOMAIN recs : recs'[i] = recs[i]
  BY <1>3, <1>5, <1>6, <1>8
<1>10. f.old = coll.records /\ BranchesOf(f) BY <1>1, <1>2 DEF CollGood, FrameInv
<1>11. /\ Staged = f.staged /\ Range(coll.records) \subseteq DOMAIN recs /\ f.staged \subseteq DOMAIN recs
       /\ \A s \in f.staged, x \in Range(coll.records) : recs[s].key # recs[x].key
  BY <1>1 DEF CollGood, HostInv, Staged
<1>12. Range(f.ids) \subseteq DOMAIN recs BY <1>10, <1>11 DEF BranchesOf, Range
<1>13. PICK g : g = [f EXCEPT !.ids = Append(f.ids, r), !.staged = f.staged \cup {r}, !.i = f.i + 1]
  OBVIOUS
<1>14. /\ g.kind = f.kind /\ g.src = f.src /\ g.ops = f.ops /\ g.rev = f.rev /\ g.within = f.within
       /\ g.prior = f.prior /\ g.phase = f.phase /\ g.staged = f.staged \cup {r} /\ g.old = f.old
  BY <1>13 DEF FrameType
<1>15. frames' = <<g>> BY <1>5, <1>13, TheFrame
<1>16. g \in FrameType /\ BranchesOf(g)'
  <2>1. coll'.records = coll.records
        /\ \A x \in Range(f.ids) : recs'[x].key = recs[x].key /\ recs'[x].shown = recs[x].shown
    BY <1>2, <1>9, <1>12
  <2>2. r \in Range(coll.records) \cup g.staged /\ recs'[r].key = f.desired[f.i].key /\ r \notin Range(f.ids)
    BY <1>4, <1>9, <1>12, <1>14
  <2>3. Dirty(f.src, f.i) \/ recs'[r].shown = arrays[f.src][f.i].val
    <3>1. f.i \in Position BY <1>6 DEF Position
    <3>2. CASE Agree(f.desired, arrays[f.src], f.i) BY <3>2, <1>4, <1>7, <1>9 DEF Agree, ItemAt
    <3> QED BY <3>1, <3>2, <1>10 DEF BranchesOf
  <2>4. {r} \in {{}, {r}} OBVIOUS
  <2> QED BY <1>2, <1>9, <1>10, <1>13, <2>1, <2>2, <2>3, <2>4, BranchAdded
<1>17. ControlInv' /\ RevisionInv' /\ CauseInv' /\ CollTypes' /\ MirrorInv'
  <2>1. \A i \in Range(coll.records) : recs'[i] = recs[i] BY <1>9, <1>11
  <2> QED BY <2>1, <1>2, <1>9, <1>14, <1>15, <1>16, FrameGoesOn
<1>18. HostInv'
  <2>1. Staged' = f.staged \cup {r} BY <1>14, <1>15 DEF Staged
  <2>2. \A x \in Range(coll.records) : recs[x].key # f.desired[f.i].key
    BY <1>2, <1>10 DEF Existing
  <2>3. /\ host = coll.records /\ IsInjective(coll.records)
        /\ \A a, b \in Range(coll.records) : recs[a].key = recs[b].key => a = b
        /\ { i \in DOMAIN recs : recs[i].alive } = Range(coll.records) \cup f.staged
    BY <1>11 DEF CollGood, HostInv
  <2>4. { i \in DOMAIN recs' : recs'[i].alive } = Range(coll.records) \cup (f.staged \cup {r})
    BY <2>3, <1>4, <1>9
  <2>5. \A s \in f.staged \cup {r}, x \in Range(coll.records) : recs'[s].key # recs'[x].key
    BY <2>2, <1>4, <1>9, <1>11
  <2>6. \A a, b \in Range(coll.records) : recs'[a].key = recs'[b].key => a = b
    BY <2>3, <1>9, <1>11
  <2> QED BY <2>1, <2>3, <2>4, <2>5, <2>6, <1>2, <1>9, <1>11 DEF HostInv
<1>19. FrameInv'
  <2>1. frames'[1] = g BY <1>15
  <2> QED BY <2>1, <1>2, <1>10, <1>14, <1>16 DEF FrameInv
<1> QED BY <1>17, <1>18, <1>19 DEF CollGood

LEMMA BeginUpdatesGoesOn ==
  ASSUME NEW f \in FrameType, frames = <<f>>, CollGood, BeginUpdates
  PROVE CollGood'
<1>1. frames[1] = f /\ Top = f /\ frames # <<>> BY TheFrame
<1>2. /\ f.phase = "create" /\ f.i > Len(f.desired)
      /\ coll' = [coll EXCEPT !.status = "updating"] /\ UNCHANGED <<arrays, crev, cpubs, cat, recs, host>>
  <2>1. f.i \in Nat /\ Len(f.desired) \in Nat BY DEF FrameType, Position
  <2> QED BY <1>1, <2>1 DEF BeginUpdates, Over, Length
<1>3. PICK g : g = [f EXCEPT !.phase = "update", !.i = 1] OBVIOUS
<1>4. /\ g.kind = f.kind /\ g.src = f.src /\ g.ops = f.ops /\ g.rev = f.rev /\ g.within = f.within
      /\ g.prior = f.prior /\ g.phase = "update" /\ g.staged = f.staged /\ g.old = f.old
      /\ g.desired = f.desired /\ g.ids = f.ids /\ g.i = 1 /\ g \in FrameType
  <2>1. "update" \in {"create", "update", "nested"} /\ 1 \in Position BY DEF Position
  <2> HIDE DEF Position
  <2> QED BY <2>1, <1>3 DEF FrameType
<1>5. frames' = <<g>> BY <1>1, <1>3, TheFrame DEF BeginUpdates
<1>6. f.old = coll.records /\ BranchesOf(f) BY <1>1, <1>2 DEF CollGood, FrameInv
<1>7. /\ ControlInv' /\ RevisionInv' /\ CauseInv' /\ CollTypes' /\ MirrorInv'
      /\ \A s, j : Dirty(s, j)' <=> Dirty(s, j)
      /\ coll'.records = coll.records
  <2>1. recs' \in Seq(RecordType) BY <1>2 DEF CollGood, CollTypes
  <2>2. \A i \in Range(coll.records) : recs'[i] = recs[i] BY <1>2
  <2> QED BY <2>1, <2>2, <1>2, <1>4, <1>5, FrameGoesOn
<1>8. HostInv'
  <2>1. Staged' = Staged BY <1>1, <1>4, <1>5 DEF Staged
  <2> QED BY <2>1, <1>2, <1>7 DEF CollGood, HostInv
<1>9. BranchesOf(g)'
  <2>1. f.i \in Nat /\ Len(f.desired) \in Nat /\ f.i <= Len(f.desired) + 1 /\ Len(f.ids) = f.i - 1
    BY <1>2, <1>6 DEF BranchesOf, FrameType, Position
  <2>2. g.i <= Len(g.desired) + 1 /\ Len(g.ids) = Len(g.desired) BY <2>1, <1>2, <1>4
  <2>3. \A j \in DOMAIN g.ids : Fresh(g, j)' => Fresh(f, j)
    <3>1. DOMAIN g.ids \subseteq Nat \ {0} BY <1>4 DEF FrameType
    <3>2. \A j \in Nat \ {0} : ~(j < 1) OBVIOUS
    <3> QED BY <3>1, <3>2, <1>4 DEF Fresh
  <2>4. \A j : Agree(g.desired, arrays[g.src], j)' <=> Agree(f.desired, arrays[f.src], j) BY <1>2, <1>4 DEF Agree
  <2> QED BY <2>2, <2>3, <2>4, <1>2, <1>4, <1>6, <1>7 DEF BranchesOf
<1>10. FrameInv'
  <2>1. frames'[1] = g BY <1>5
  <2> QED BY <2>1, <1>4, <1>6, <1>7, <1>9 DEF FrameInv
<1> QED BY <1>7, <1>8, <1>10 DEF CollGood

LEMMA PassOverGoesOn ==
  ASSUME NEW f \in FrameType, frames = <<f>>, CollGood, PassOver
  PROVE CollGood'
<1>1. frames[1] = f /\ Top = f /\ frames # <<>> BY TheFrame
<1>2. /\ f.phase = "update" /\ f.i <= Len(f.desired) /\ ~WantsUpdate(f, f.i)
      /\ UNCHANGED <<arrays, crev, cpubs, cat, coll, recs, host>>
  <2>1. f.i \in Nat /\ Len(f.desired) \in Nat BY DEF FrameType, Position
  <2> QED BY <1>1, <2>1 DEF PassOver, Over, Length
<1>3. PICK g : g = [f EXCEPT !.i = f.i + 1] OBVIOUS
<1>4. /\ g.kind = f.kind /\ g.src = f.src /\ g.ops = f.ops /\ g.rev = f.rev /\ g.within = f.within
      /\ g.prior = f.prior /\ g.phase = f.phase /\ g.staged = f.staged /\ g.old = f.old
      /\ g.desired = f.desired /\ g.ids = f.ids /\ g.i = f.i + 1 /\ g \in FrameType
  <2>1. f.i + 1 \in Position BY DEF FrameType, Position
  <2> QED BY <2>1, <1>3 DEF FrameType
<1>5. frames' = <<g>>
  <2>1. [f EXCEPT !.i = @ + 1] = g BY <1>3
  <2> QED BY <1>1, <2>1, TheFrame DEF PassOver
<1>6. f.old = coll.records /\ BranchesOf(f) BY <1>1, <1>2 DEF CollGood, FrameInv
<1>7. /\ ControlInv' /\ RevisionInv' /\ CauseInv' /\ CollTypes' /\ MirrorInv'
      /\ \A s, j : Dirty(s, j)' <=> Dirty(s, j)
      /\ coll'.records = coll.records
  <2>1. recs' \in Seq(RecordType) BY <1>2 DEF CollGood, CollTypes
  <2>2. \A i \in Range(coll.records) : recs'[i] = recs[i] BY <1>2
  <2> QED BY <2>1, <2>2, <1>2, <1>4, <1>5, FrameGoesOn
<1>8. HostInv'
  <2>1. Staged' = Staged BY <1>1, <1>4, <1>5 DEF Staged
  <2> QED BY <2>1, <1>2, <1>7 DEF CollGood, HostInv
<1>9. BranchesOf(g)'
  <2>1. f.i \in Nat /\ Len(f.desired) \in Nat /\ Len(f.ids) = Len(f.desired)
    BY <1>2, <1>6 DEF BranchesOf, FrameType, Position
  <2>2. g.i <= Len(g.desired) + 1 /\ Len(g.ids) = Len(g.desired) BY <2>1, <1>2, <1>4
  <2>3. \A j \in DOMAIN g.ids : Fresh(g, j)' => Fresh(f, j)
    <3>1. \A j \in DOMAIN g.ids : j \in Nat BY <1>4 DEF FrameType
    <3>2. \A j \in Nat : j < f.i + 1 => j < f.i \/ j = f.i BY <2>1
    <3>3. f.ids[f.i] \in f.staged \/ (f.kind = "commit" /\ ~shouldUpdateSurvivor(f.ops, f.i))
      BY <1>2 DEF WantsUpdate
    <3> QED BY <3>1, <3>2, <3>3, <1>2, <1>4 DEF Fresh, shouldUpdateSurvivor
  <2>4. \A j : Agree(g.desired, arrays[g.src], j)' <=> Agree(f.desired, arrays[f.src], j) BY <1>2, <1>4 DEF Agree
  <2> QED BY <2>2, <2>3, <2>4, <1>2, <1>4, <1>6, <1>7 DEF BranchesOf
<1>10. FrameInv'
  <2>1. frames'[1] = g BY <1>5
  <2> QED BY <2>1, <1>2, <1>4, <1>6, <1>7, <1>9 DEF FrameInv
<1> QED BY <1>7, <1>8, <1>10 DEF CollGood

(* The branches of an update are different ones. *)
LEMMA BranchesDiffer ==
  ASSUME NEW f \in FrameType, BranchesOf(f)
  PROVE /\ IsInjective(f.ids) /\ DOMAIN f.ids \subseteq DOMAIN f.desired
        /\ \A i, j \in DOMAIN f.desired : f.desired[i].key = f.desired[j].key => i = j
<1>1. f.ids \in Seq(Nat) /\ f.desired \in Seq(Item) /\ f.i \in Nat \ {0} BY DEF FrameType, Position
<1>2. Len(f.ids) <= Len(f.desired) BY <1>1 DEF BranchesOf
<1>3. DOMAIN f.ids \subseteq DOMAIN f.desired BY <1>1, <1>2
<1>4. \A i, j \in DOMAIN f.desired : f.desired[i].key = f.desired[j].key => i = j
  <2>1. IsInjective(KeysOf(f.desired)) BY DEF BranchesOf
  <2> QED BY <2>1 DEF IsInjective, KeysOf
<1>5. \A j \in DOMAIN f.ids : recs[f.ids[j]].key = f.desired[j].key BY DEF BranchesOf
<1>6. IsInjective(f.ids) BY <1>3, <1>4, <1>5 DEF IsInjective
<1> QED BY <1>3, <1>4, <1>6

(* What an update of one branch leaves alone. *)
LEMMA OneShown ==
  ASSUME NEW x \in DOMAIN recs, NEW shown \in ItemVals \cup {""}, recs \in Seq(RecordType),
         recs' = [recs EXCEPT ![x].shown = shown]
  PROVE /\ recs' \in Seq(RecordType) /\ DOMAIN recs' = DOMAIN recs /\ recs'[x].shown = shown
        /\ \A i \in DOMAIN recs : recs'[i].key = recs[i].key /\ recs'[i].alive = recs[i].alive
        /\ \A i \in DOMAIN recs : i # x => recs'[i] = recs[i]
<1>8. x \in 1..Len(recs) BY LenProperties
<1>1. recs[x] \in RecordType BY <1>8, ElementOfSeq
<1>2. [recs[x] EXCEPT !.shown = shown] \in RecordType BY <1>1 DEF RecordType
<1>3. recs' = [recs EXCEPT ![x] = [recs[x] EXCEPT !.shown = shown]] OBVIOUS
<1>4. recs' \in Seq(RecordType)
  <2> DEFINE e == [recs[x] EXCEPT !.shown = shown]
  <2>1. e \in RecordType /\ recs' = [recs EXCEPT ![x] = e] BY <1>2, <1>3
  <2> HIDE DEF e
  <2>2. [recs EXCEPT ![x] = e] \in Seq(RecordType) BY <2>1, <1>8, ExceptSeq
  <2> QED BY <2>1, <2>2
<1>5. recs'[x] = [recs[x] EXCEPT !.shown = shown] BY <1>3
<1>6. recs'[x].shown = shown /\ recs'[x].key = recs[x].key /\ recs'[x].alive = recs[x].alive
  BY <1>1, <1>5 DEF RecordType
<1>7. DOMAIN recs' = DOMAIN recs /\ \A i \in DOMAIN recs : i # x => recs'[i] = recs[i] BY <1>3
<1> QED BY <1>4, <1>6, <1>7

LEMMA ItemShown ==
  ASSUME CollTypes, NEW s \in 1..2, NEW i
  PROVE /\ ItemAt(s, i).val \in ItemVals \cup {""}
        /\ i \in DOMAIN arrays[s] => ItemAt(s, i) = arrays[s][i]
<1>1. arrays[s] \in Seq(Item) BY DEF CollTypes
<1>2. CASE i \in DOMAIN arrays[s]
  <2>1. arrays[s][i] \in Item BY <1>1, <1>2
  <2> QED BY <1>2, <2>1 DEF ItemAt, Item
<1>3. CASE i \notin DOMAIN arrays[s] BY <1>3 DEF ItemAt, NoItem
<1> QED BY <1>2, <1>3

LEMMA UpdateGoesOn ==
  ASSUME NEW f \in FrameType, frames = <<f>>, CollGood, Update, f.phase = "update"
  PROVE CollGood'
<1>1. frames[1] = f /\ Top = f /\ frames # <<>> BY TheFrame
<1>2. PICK x : x = f.ids[f.i] OBVIOUS
<1>3. PICK shown : shown = ItemAt(f.src, f.i).val OBVIOUS
<1>4. /\ f.i <= Len(f.desired) /\ WantsUpdate(f, f.i) /\ recs' = [recs EXCEPT ![x].shown = shown]
      /\ UNCHANGED <<arrays, crev, cpubs, cat, coll, host>>
  <2>1. f.i \in Nat /\ Len(f.desired) \in Nat BY DEF FrameType, Position
  <2>2. Subject(Top)[2] = x /\ ItemAt(Top.src, Subject(Top)[1]).val = shown BY <1>1, <1>2, <1>3 DEF Subject
  <2>3. recs' = [recs EXCEPT ![Subject(Top)[2]].shown = ItemAt(Top.src, Subject(Top)[1]).val] BY Zenon DEF Update
  <2>4. ~Over(Top) /\ WantsUpdate(Top, Top.i) BY <1>1 DEF Update, AtHook
  <2> QED BY <1>1, <2>1, <2>2, <2>3, <2>4 DEF Update, Over, Length
<1>5. PICK g : g = [f EXCEPT !.i = f.i + 1] OBVIOUS
<1>6. /\ g.kind = f.kind /\ g.src = f.src /\ g.ops = f.ops /\ g.rev = f.rev /\ g.within = f.within
      /\ g.prior = f.prior /\ g.phase = f.phase /\ g.staged = f.staged /\ g.old = f.old
      /\ g.desired = f.desired /\ g.ids = f.ids /\ g.i = f.i + 1 /\ g \in FrameType
  <2>1. f.i + 1 \in Position BY DEF FrameType, Position
  <2> QED BY <2>1, <1>5 DEF FrameType
<1>7. frames' = <<g>>
  <2>1. [f EXCEPT !.i = @ + 1] = g BY <1>5
  <2> QED BY <1>1, <2>1, TheFrame DEF Update
<1>8. f.old = coll.records /\ BranchesOf(f) BY <1>1 DEF CollGood, FrameInv
<1>9. /\ Staged = f.staged /\ Range(coll.records) \subseteq DOMAIN recs /\ f.staged \subseteq DOMAIN recs
  BY <1>1 DEF CollGood, HostInv, Staged
<1>10. f.i \in DOMAIN f.ids /\ f.i \in DOMAIN f.desired /\ f.i \in Position /\ DOMAIN f.ids \subseteq Nat \ {0}
  <2>1. f.ids \in Seq(Nat) /\ f.desired \in Seq(Item) /\ f.i \in Nat \ {0} BY DEF FrameType, Position
  <2>2. Len(f.ids) = Len(f.desired) BY <1>8 DEF BranchesOf
  <2> QED BY <2>1, <2>2, <1>4 DEF Position
<1>11. /\ IsInjective(f.ids)
       /\ \A i, j \in DOMAIN f.desired : f.desired[i].key = f.desired[j].key => i = j
  BY <1>8, BranchesDiffer
<1>12. x \in DOMAIN recs /\ recs[x].key = f.desired[f.i].key
       /\ \A j \in DOMAIN f.ids : f.ids[j] \in DOMAIN recs
  BY <1>2, <1>8, <1>9, <1>10 DEF BranchesOf
<1>13. shown \in ItemVals \cup {""} /\ (f.i \in DOMAIN arrays[f.src] => shown = arrays[f.src][f.i].val)
  BY <1>3, ItemShown DEF CollGood, FrameType
<1>14. /\ recs' \in Seq(RecordType) /\ DOMAIN recs' = DOMAIN recs /\ recs'[x].shown = shown
       /\ \A i \in DOMAIN recs : recs'[i].key = recs[i].key /\ recs'[i].alive = recs[i].alive
       /\ \A i \in DOMAIN recs : i # x => recs'[i] = recs[i]
  <2>1. recs \in Seq(RecordType) BY DEF CollGood, CollTypes
  <2> QED BY <2>1, <1>4, <1>12, <1>13, OneShown
<1>15. /\ ControlInv' /\ RevisionInv' /\ CauseInv' /\ CollTypes'
       /\ \A s, j : Dirty(s, j)' <=> Dirty(s, j)
  BY <1>4, <1>6, <1>7, <1>14, FrameGoesOn
<1>16. HostInv'
  <2>1. Staged' = Staged BY <1>1, <1>6, <1>7 DEF Staged
  <2>2. { i \in DOMAIN recs' : recs'[i].alive } = { i \in DOMAIN recs : recs[i].alive } BY <1>14
  <2> QED BY <2>1, <2>2, <1>4, <1>9, <1>14 DEF CollGood, HostInv
<1>17. BranchesOf(g)'
  <2>1. f.i \in Nat /\ Len(f.desired) \in Nat /\ Len(f.ids) = Len(f.desired)
    BY <1>4, <1>8 DEF BranchesOf, FrameType, Position
  <2>2. g.i <= Len(g.desired) + 1 /\ Len(g.ids) = Len(g.desired) BY <2>1, <1>4, <1>6
  <2>3. ASSUME NEW j \in DOMAIN g.ids, Fresh(g, j)'
        PROVE Dirty(f.src, j) \/ recs'[g.ids[j]].shown = arrays[f.src][j].val
    <3>1. CASE j = f.i
      <4>1. Dirty(f.src, f.i) \/ Agree(f.desired, arrays[f.src], f.i) BY <1>8, <1>10 DEF BranchesOf
      <4>2. Agree(f.desired, arrays[f.src], f.i) => f.i \in DOMAIN arrays[f.src] BY <1>10 DEF Agree
      <4> QED BY <3>1, <4>1, <4>2, <1>2, <1>6, <1>13, <1>14
    <3>2. CASE j # f.i
      <4>1. f.ids[j] # x BY <3>2, <1>2, <1>6, <1>10, <1>11 DEF IsInjective
      <4>2. j \in Nat /\ (j < f.i + 1 => j < f.i) BY <3>2, <2>1, <1>6, <1>10
      <4>3. Fresh(f, j) BY <2>3, <4>2, <1>6 DEF Fresh, shouldUpdateSurvivor
      <4>4. Dirty(f.src, j) \/ recs[f.ids[j]].shown = arrays[f.src][j].val BY <4>3, <1>6, <1>8 DEF BranchesOf
      <4> QED BY <4>1, <4>4, <1>6, <1>12, <1>14
    <3> QED BY <3>1, <3>2
  <2>4. \A j : Agree(g.desired, arrays[g.src], j)' <=> Agree(f.desired, arrays[f.src], j) BY <1>4, <1>6 DEF Agree
  <2>5. \A j \in DOMAIN g.ids :
          g.ids[j] \in Range(coll.records) \cup g.staged /\ recs'[g.ids[j]].key = g.desired[j].key
    BY <1>6, <1>8, <1>12, <1>14 DEF BranchesOf
  <2>6. IsInjective(KeysOf(g.desired)) /\ g.staged \subseteq Range(g.ids) /\ g.phase # "create"
        /\ \A j \in Position : Dirty(g.src, j) \/ Agree(f.desired, arrays[f.src], j)
    BY <1>6, <1>8 DEF BranchesOf
  <2> QED BY <2>2, <2>3, <2>4, <2>5, <2>6, <1>4, <1>6, <1>15 DEF BranchesOf
<1>18. FrameInv'
  <2>1. frames'[1] = g BY <1>7
  <2> QED BY <2>1, <1>4, <1>6, <1>8, <1>17 DEF FrameInv
<1>19. MirrorInv'
  <2>1. coll.status = "updating" /\ (Committing => f.src = coll.src)
    BY <1>1 DEF CollGood, ControlInv, ControlOf, Committing
  <2>2. Committing' = Committing BY <1>1, <1>6, <1>7 DEF Committing
  <2>3. SUFFICES ASSUME Committing, NEW j \in Position, ~Dirty(coll.src, j), ~OpsTouch(f.ops, j)
                 PROVE Mirrored(j)'
    <3>1. \A j : OpsTouch(g.ops, j)' <=> OpsTouch(f.ops, j) BY <1>6 DEF OpsTouch, OpTouches
    <3>2. frames'[1] = g BY <1>7
    <3> QED BY <3>1, <3>2, <2>1, <2>2, <2>3, <1>4, <1>15 DEF MirrorInv
  <2>4. Mirrored(j) BY <2>3, <1>1 DEF CollGood, MirrorInv
  <2>5. SUFFICES ASSUME j \in DOMAIN coll.records
                 PROVE Shows(recs'[coll.records[j]], arrays[coll.src][j])
    BY <2>4, <1>4 DEF Mirrored, Shows
  <2>6. coll.records[j] \in DOMAIN recs /\ Shows(recs[coll.records[j]], arrays[coll.src][j]) /\ j \in DOMAIN arrays[coll.src]
    BY <2>4, <2>5, <1>9 DEF Mirrored, Range
  <2>7. CASE coll.records[j] # x BY <2>6, <2>7, <1>14
  <2>8. CASE coll.records[j] = x
    <3>1. Agree(f.desired, arrays[f.src], j) BY <2>1, <2>3, <1>8 DEF BranchesOf
    <3>2. j \in DOMAIN f.desired /\ f.desired[j] = arrays[coll.src][j] BY <3>1, <2>1, <2>3, <2>6 DEF Agree
    <3>3. f.desired[j].key = f.desired[f.i].key BY <3>2, <2>6, <2>8, <1>12 DEF Shows
    <3>4. j = f.i BY <3>2, <3>3, <1>10, <1>11
    <3> QED BY <3>4, <2>1, <2>3, <2>6, <2>8, <1>13, <1>14 DEF Shows
  <2> QED BY <2>7, <2>8
<1> QED BY <1>15, <1>16, <1>18, <1>19 DEF CollGood

LEMMA NestedUpdateGoesOn ==
  ASSUME NEW f \in FrameType, frames = <<f>>, CollGood, Update, f.phase = "nested"
  PROVE CollGood'
<1>1. frames[1] = f /\ Top = f /\ frames # <<>> BY TheFrame
<1>2. NestedOf(f) /\ f.old = coll.records BY <1>1 DEF CollGood, FrameInv
<1>3. f.ops \in Seq(EditType) /\ f.i \in Nat \ {0} /\ f.src = coll.src /\ f.kind = "commit" /\ f.src \in 1..2
  BY <1>1 DEF CollGood, ControlInv, ControlOf, FrameType, Position
<1>4. f.list = [k \in DOMAIN f.ops |-> <<f.ops[k].at, coll.records[f.ops[k].at]>>] BY <1>2 DEF NestedOf
<1>5. Len(f.list) = Len(f.ops) BY <1>3, <1>4
<1>6. f.i \in DOMAIN f.ops
  <2>1. ~Over(f) BY <1>1 DEF Update, AtHook
  <2>2. f.i <= Len(f.list) BY <2>1, <1>3, <1>5 DEF Over, Length
  <2> QED BY <2>2, <1>3, <1>5
<1>7. PICK at : at = f.ops[f.i].at OBVIOUS
<1>8. PICK x : x = coll.records[at] OBVIOUS
<1>9. PICK shown : shown = ItemAt(f.src, at).val OBVIOUS
<1>10. recs' = [recs EXCEPT ![x].shown = shown] /\ UNCHANGED <<arrays, crev, cpubs, cat, coll, host>>
  <2>1. Subject(Top) = <<at, x>> BY <1>1, <1>4, <1>6, <1>7, <1>8 DEF Subject
  <2>2. Subject(Top)[2] = x /\ ItemAt(Top.src, Subject(Top)[1]).val = shown BY <2>1, <1>1, <1>9
  <2>3. recs' = [recs EXCEPT ![Subject(Top)[2]].shown = ItemAt(Top.src, Subject(Top)[1]).val] BY Zenon DEF Update
  <2> QED BY <2>2, <2>3 DEF Update
<1>11. PICK g : g = [f EXCEPT !.i = f.i + 1] OBVIOUS
<1>12. /\ g.kind = f.kind /\ g.src = f.src /\ g.ops = f.ops /\ g.rev = f.rev /\ g.within = f.within
      /\ g.prior = f.prior /\ g.phase = f.phase /\ g.staged = f.staged /\ g.old = f.old
      /\ g.list = f.list /\ g.i = f.i + 1 /\ g \in FrameType
  <2>1. f.i + 1 \in Position BY DEF FrameType, Position
  <2> QED BY <2>1, <1>11 DEF FrameType
<1>13. frames' = <<g>>
  <2>1. [f EXCEPT !.i = @ + 1] = g BY <1>11
  <2> QED BY <1>1, <2>1, TheFrame DEF Update
<1>14. /\ Staged = f.staged /\ Range(coll.records) \subseteq DOMAIN recs /\ IsInjective(coll.records)
  BY <1>1 DEF CollGood, HostInv, Staged
<1>15. \A j \in DOMAIN coll.records : coll.records[j] \in DOMAIN recs BY <1>14 DEF Range
<1>16. at \in DOMAIN coll.records /\ x \in DOMAIN recs BY <1>2, <1>6, <1>7, <1>8, <1>15 DEF NestedOf
<1>17. shown \in ItemVals \cup {""} /\ (at \in DOMAIN arrays[f.src] => shown = arrays[f.src][at].val)
  BY <1>3, <1>9, ItemShown DEF CollGood
<1>18. /\ recs' \in Seq(RecordType) /\ DOMAIN recs' = DOMAIN recs /\ recs'[x].shown = shown
       /\ \A i \in DOMAIN recs : recs'[i].key = recs[i].key /\ recs'[i].alive = recs[i].alive
       /\ \A i \in DOMAIN recs : i # x => recs'[i] = recs[i]
  <2>1. recs \in Seq(RecordType) BY DEF CollGood, CollTypes
  <2> QED BY <2>1, <1>10, <1>16, <1>17, OneShown
<1>19. /\ ControlInv' /\ RevisionInv' /\ CauseInv' /\ CollTypes'
       /\ \A s, j : Dirty(s, j)' <=> Dirty(s, j)
  BY <1>10, <1>12, <1>13, <1>18, FrameGoesOn
<1>20. HostInv'
  <2>1. Staged' = Staged BY <1>1, <1>12, <1>13 DEF Staged
  <2>2. { i \in DOMAIN recs' : recs'[i].alive } = { i \in DOMAIN recs : recs[i].alive } BY <1>18
  <2>3. Staged \subseteq DOMAIN recs BY DEF CollGood, HostInv
  <2> QED BY <2>1, <2>2, <2>3, <1>10, <1>14, <1>18 DEF CollGood, HostInv
<1>21. \A j \in DOMAIN coll.records : coll.records[j] = x => j = at
  BY <1>8, <1>14, <1>16 DEF IsInjective
<1>22. NestedOf(g)'
  <2>1. ASSUME NEW k \in DOMAIN f.ops
        PROVE LET a == f.ops[k].at
              IN Dirty(f.src, a) \/
                   /\ a \in DOMAIN arrays[f.src]
                   /\ recs'[coll.records[a]].key = arrays[f.src][a].key
                   /\ k < f.i + 1 => recs'[coll.records[a]].shown = arrays[f.src][a].val
    <3> DEFINE a == f.ops[k].at
    <3>1. SUFFICES ASSUME ~Dirty(f.src, a)
                   PROVE /\ a \in DOMAIN arrays[f.src]
                         /\ recs'[coll.records[a]].key = arrays[f.src][a].key
                         /\ k < f.i + 1 => recs'[coll.records[a]].shown = arrays[f.src][a].val
      OBVIOUS
    <3>2. /\ a \in DOMAIN arrays[f.src] /\ recs[coll.records[a]].key = arrays[f.src][a].key
          /\ k < f.i => recs[coll.records[a]].shown = arrays[f.src][a].val
          /\ a \in DOMAIN coll.records
      BY <3>1, <1>2 DEF NestedOf
    <3> HIDE DEF a
    <3>3. recs'[coll.records[a]].key = arrays[f.src][a].key BY <3>2, <1>15, <1>18
    <3>4. ASSUME k < f.i + 1 PROVE recs'[coll.records[a]].shown = arrays[f.src][a].val
      <4>1. CASE coll.records[a] = x
        <5>1. a = at BY <4>1, <3>2, <1>21
        <5> QED BY <5>1, <3>2, <4>1, <1>17, <1>18
      <4>2. CASE coll.records[a] # x
        <5>1. k # f.i BY <4>2, <1>7, <1>8 DEF a
        <5>2. k \in Nat BY <1>3
        <5>3. k < f.i BY <5>1, <5>2, <3>4, <1>3
        <5> QED BY <5>3, <3>2, <4>2, <1>15, <1>18
      <4> QED BY <4>1, <4>2
    <3> QED BY <3>2, <3>3, <3>4
  <2>2. g.i <= Len(g.ops) + 1 BY <1>3, <1>6, <1>12
  <2>3. \A k \in DOMAIN f.ops : f.ops[k].at \in DOMAIN coll.records /\ f.ops[k].kind = "nested"
    BY <1>2 DEF NestedOf
  <2>4. g.staged = {} BY <1>2, <1>12 DEF NestedOf
  <2> QED BY <2>1, <2>2, <2>3, <2>4, <1>4, <1>10, <1>12, <1>19 DEF NestedOf
<1>23. FrameInv'
  <2>1. frames'[1] = g BY <1>13
  <2> QED BY <2>1, <1>2, <1>10, <1>12, <1>22 DEF FrameInv
<1>24. MirrorInv'
  <2>1. Committing /\ Committing' BY <1>1, <1>3, <1>12, <1>13 DEF Committing
  <2>2. SUFFICES ASSUME NEW j \in Position, ~Dirty(coll.src, j), ~OpsTouch(f.ops, j)
                 PROVE Mirrored(j)'
    <3>1. \A j : OpsTouch(g.ops, j)' <=> OpsTouch(f.ops, j) BY <1>12 DEF OpsTouch, OpTouches
    <3>2. frames'[1] = g BY <1>13
    <3> QED BY <3>1, <3>2, <2>1, <2>2, <1>10, <1>19 DEF MirrorInv
  <2>3. Mirrored(j) BY <2>1, <2>2, <1>1 DEF CollGood, MirrorInv
  <2>4. j # at
    <3>1. f.ops[f.i].kind = "nested" BY <1>2, <1>6 DEF NestedOf
    <3>2. OpTouches(f.ops[f.i], at) BY <3>1, <1>7 DEF OpTouches
    <3> QED BY <3>2, <2>2, <1>6 DEF OpsTouch
  <2>5. j \in DOMAIN coll.records => recs'[coll.records[j]] = recs[coll.records[j]]
    BY <2>4, <1>15, <1>18, <1>21
  <2> QED BY <2>3, <2>5, <1>10 DEF Mirrored
<1> QED BY <1>19, <1>20, <1>23, <1>24 DEF CollGood

-----------------------------------------------------------------------------
(* The ends of an update. *)
LEMMA SettleIs ==
  ASSUME CollTypes, NEW f \in FrameType, ControlOf(f)
  PROVE LET c == Settle(f)
        IN /\ c \in CollType /\ c.status = "ready" /\ c.subscribed /\ c.src = f.src /\ c.records = coll.records
           /\ c.last = IF f.kind = "commit" THEN f.rev ELSE crev[f.src]
           /\ "foreign" \notin c.why => "foreign" \notin coll.why /\ ~(f.kind = "replace" /\ cpubs # <<>>)
           /\ "re-entrant" \notin c.why => "re-entrant" \notin coll.why \/ cpubs = <<>>
<1> DEFINE last == CASE f.kind = "commit" -> f.rev [] f.kind = "initial" -> coll.last [] OTHER -> crev[f.src]
           base == [coll EXCEPT !.status = "ready", !.last = last]
           Good(c) ==
             /\ c \in CollType /\ c.status = "ready" /\ c.subscribed /\ c.src = f.src /\ c.records = coll.records
             /\ c.last = IF f.kind = "commit" THEN f.rev ELSE crev[f.src]
             /\ "foreign" \notin c.why => "foreign" \notin coll.why /\ ~(f.kind = "replace" /\ cpubs # <<>>)
             /\ "re-entrant" \notin c.why => "re-entrant" \notin coll.why \/ cpubs = <<>>
<1>1. coll \in CollType /\ f.src \in 1..2 /\ f.rev \in Nat /\ crev \in [1..2 -> Nat]
      /\ f.within = (cpubs # <<>>)
  BY DEF CollTypes, FrameType, ControlOf
<1>2. last \in Nat /\ last = IF f.kind = "commit" THEN f.rev ELSE crev[f.src]
  <2>1. CASE f.kind = "initial" BY <2>1, <1>1 DEF ControlOf
  <2>2. CASE f.kind = "commit" BY <2>2, <1>1
  <2>3. CASE f.kind \notin {"initial", "commit"}
    <3>1. last = crev[f.src] BY <2>3
    <3> QED BY <2>3, <3>1, <1>1
  <2> QED BY <2>1, <2>2, <2>3
<1> HIDE DEF last
<1>3. base \in CollType /\ base.status = "ready" /\ base.records = coll.records /\ base.last = last
      /\ base.why = coll.why /\ base.src = coll.src /\ base.subscribed = coll.subscribed
  BY <1>1, <1>2 DEF CollType, CollStatus
<1>4. Settle(f) =
        CASE f.kind = "initial" -> [base EXCEPT !.subscribed = TRUE]
          [] f.kind = "replace" ->
               [base EXCEPT !.src = f.src, !.subscribed = TRUE,
                            !.why = @ \union (IF f.within THEN {"foreign"} ELSE {})]
          [] f.kind = "synchronize" /\ ~f.within -> [base EXCEPT !.why = @ \intersect Lasting]
          [] OTHER -> base
  BY DEF Settle, last
<1> HIDE DEF base
<1>5. CASE f.kind = "initial"
  <2>1. Settle(f) = [base EXCEPT !.subscribed = TRUE] BY <1>4, <1>5
  <2>2. f.src = coll.src BY <1>5 DEF ControlOf
  <2>3. Good([base EXCEPT !.subscribed = TRUE]) BY <1>2, <1>3, <1>5, <2>2 DEF CollType
  <2> QED BY <2>1, <2>3
<1>6. CASE f.kind = "replace"
  <2> DEFINE c == [base EXCEPT !.src = f.src, !.subscribed = TRUE,
                               !.why = @ \union (IF f.within THEN {"foreign"} ELSE {})]
  <2>1. Settle(f) = c BY <1>4, <1>6
  <2>2. (base.why \union (IF f.within THEN {"foreign"} ELSE {})) \in SUBSET Reasons
    <3>1. base.why \in SUBSET Reasons BY <1>1, <1>3 DEF CollType
    <3>2. "foreign" \in Reasons BY DEF Reasons, Lasting
    <3> QED BY <3>1, <3>2
  <2>3. c \in CollType /\ c.status = "ready" /\ c.subscribed /\ c.src = f.src /\ c.records = coll.records /\ c.last = last
        /\ c.why = base.why \union (IF f.within THEN {"foreign"} ELSE {})
    BY <1>1, <1>3, <2>2 DEF CollType
  <2> HIDE DEF c
  <2>4. Good(c) BY <1>1, <1>2, <1>3, <1>6, <2>3
  <2> QED BY <2>1, <2>4
<1>7. CASE f.kind = "synchronize" /\ ~f.within
  <2> DEFINE c == [base EXCEPT !.why = @ \intersect Lasting]
  <2>1. Settle(f) = c BY <1>4, <1>7
  <2>2. f.src = coll.src /\ coll.subscribed /\ cpubs = <<>> BY <1>1, <1>7 DEF ControlOf
  <2>3. c \in CollType /\ c.status = "ready" /\ c.subscribed /\ c.src = f.src /\ c.records = coll.records /\ c.last = last
        /\ c.why = base.why \cap Lasting
    BY <1>3, <2>2 DEF CollType
  <2>4. "foreign" \in Lasting BY DEF Lasting
  <2> HIDE DEF c
  <2>5. Good(c) BY <1>2, <1>3, <1>7, <2>2, <2>3, <2>4
  <2> QED BY <2>1, <2>5
<1>8. CASE f.kind \notin {"initial", "replace"} /\ ~(f.kind = "synchronize" /\ ~f.within)
  <2>1. Settle(f) = base BY <1>4, <1>8
  <2>2. f.kind \in {"synchronize", "commit"} BY <1>8 DEF FrameType
  <2>3. f.src = coll.src /\ coll.subscribed BY <2>2 DEF ControlOf
  <2>4. Good(base) BY <1>2, <1>3, <1>8, <2>3
  <2> QED BY <2>1, <2>4
<1> QED BY <1>5, <1>6, <1>7, <1>8

(* With the frame gone and the collection ready. *)
LEMMA ReadyAgain ==
  ASSUME NEW f \in FrameType, frames = <<f>>, frames' = <<>>, CollGood,
         UNCHANGED <<arrays, crev, cpubs, cat>>,
         coll' = Settle(f) \/ (\E ids \in Seq(Nat) : coll' = [Settle(f) EXCEPT !.records = ids]),
         recs' \in Seq(RecordType), host' \in Seq(Nat)
  PROVE /\ CollTypes' /\ ControlInv' /\ FrameInv' /\ RevisionInv' /\ CauseInv'
        /\ coll'.src = f.src /\ coll'.status = "ready"
        /\ coll' = [Settle(f) EXCEPT !.records = coll'.records]
        /\ \A s, j : Dirty(s, j)' <=> Dirty(s, j)
<1>1. frames[1] = f /\ frames # <<>> BY TheFrame
<1>2. ControlOf(f) BY <1>1 DEF CollGood, ControlInv
<1> DEFINE c == Settle(f)
<1>3. /\ c \in CollType /\ c.status = "ready" /\ c.subscribed /\ c.src = f.src /\ c.records = coll.records
      /\ c.last = IF f.kind = "commit" THEN f.rev ELSE crev[f.src]
      /\ "foreign" \notin c.why => "foreign" \notin coll.why /\ ~(f.kind = "replace" /\ cpubs # <<>>)
      /\ "re-entrant" \notin c.why => "re-entrant" \notin coll.why \/ cpubs = <<>>
  BY <1>2, SettleIs DEF CollGood
<1> HIDE DEF c
<1>4. coll' = c \/ (\E ids \in Seq(Nat) : coll' = [c EXCEPT !.records = ids]) BY DEF c
<1>5. /\ coll' \in CollType /\ coll'.status = "ready" /\ coll'.subscribed /\ coll'.src = f.src
      /\ coll'.last = c.last /\ coll'.why = c.why /\ coll' = [c EXCEPT !.records = coll'.records]
  BY <1>3, <1>4 DEF CollType
<1>6. Ahead' = Ahead /\ \A s, j : Dirty(s, j)' <=> Dirty(s, j) BY SameAhead
<1>7. CollTypes' BY <1>5 DEF CollGood, CollTypes
<1>8. ControlInv' BY <1>5 DEF CollGood, ControlInv
<1>9. FrameInv' BY DEF FrameInv
<1>10. f.kind # "replace" => f.src = coll.src
  <2>1. f.kind \in {"initial", "synchronize", "replace", "commit"} BY DEF FrameType
  <2> QED BY <2>1, <1>2 DEF ControlOf
<1>11. RevisionInv'
  <2>1. SUFFICES ASSUME "foreign" \notin c.why
                 PROVE /\ \A k \in DOMAIN cpubs : cpubs[k].src = f.src
                       /\ cpubs # <<>> => cpubs[Len(cpubs)].rev = crev[f.src]
                       /\ Ahead = {} => c.last = crev[f.src]
    BY <1>5, <1>6 DEF RevisionInv
  <2>2. "foreign" \notin coll.why /\ (f.kind = "replace" => cpubs = <<>>) BY <2>1, <1>3
  <2>3. CASE cpubs = <<>>
    <3>1. f.kind # "commit" BY <2>3, <1>2 DEF ControlOf
    <3> QED BY <2>3, <3>1, <1>3
  <2>4. CASE cpubs # <<>>
    <3>1. f.src = coll.src /\ coll.subscribed BY <2>2, <2>4, <1>2, <1>10 DEF ControlOf
    <3>2. /\ \A k \in DOMAIN cpubs : cpubs[k].src = f.src
          /\ cpubs[Len(cpubs)].rev = crev[f.src]
      BY <2>2, <2>4, <3>1 DEF CollGood, RevisionInv
    <3>3. ASSUME f.kind = "commit", Ahead = {} PROVE f.rev = crev[f.src]
      <4>1. cat = "late" /\ f.rev = cpubs[1].rev BY <3>3, <1>2 DEF ControlOf
      <4>2. cpubs \in Seq(PubType) BY DEF CollGood, CollTypes
      <4>3. \A k \in DOMAIN cpubs : ~(k > 1) BY <3>3 DEF Ahead
      <4>4. Len(cpubs) \in Nat \ {0} BY <2>4, <4>2, EmptySeq
      <4>5. Len(cpubs) \in DOMAIN cpubs BY <4>2, <4>4
      <4>6. Len(cpubs) = 1
        <5> DEFINE n == Len(cpubs)
        <5>1. n \in Nat \ {0} /\ ~(n > 1) BY <4>3, <4>4, <4>5
        <5> HIDE DEF n
        <5>2. n = 1 BY <5>1
        <5> QED BY <5>2 DEF n
      <4> QED BY <4>1, <4>6, <3>2
    <3> QED BY <3>2, <3>3, <1>3
  <2> QED BY <2>3, <2>4
<1>12. CauseInv'
  <2>1. ASSUME "re-entrant" \notin c.why
        PROVE /\ Len(cpubs) <= 1
              /\ "foreign" \notin c.why /\ cpubs # <<>> /\ cat = "early" =>
                   \A k \in DOMAIN cpubs[1].ops :
                     cpubs[1].ops[k].kind = "nested" => cpubs[1].ops[k].at \in DOMAIN arrays[f.src]
    <3>1. CASE cpubs = <<>> BY <3>1
    <3>2. CASE cpubs # <<>>
      <4>1. "re-entrant" \notin coll.why BY <2>1, <3>2, <1>3
      <4>2. "foreign" \notin c.why => "foreign" \notin coll.why /\ f.src = coll.src /\ coll.subscribed
        BY <3>2, <1>2, <1>3, <1>10 DEF ControlOf
      <4> QED BY <4>1, <4>2 DEF CollGood, CauseInv
    <3> QED BY <3>1, <3>2
  <2> QED BY <2>1, <1>5 DEF CauseInv
<1> QED BY <1>5, <1>6, <1>7, <1>8, <1>9, <1>11, <1>12 DEF c


LEMMA EndNestedGoesOn ==
  ASSUME NEW f \in FrameType, frames = <<f>>, CollGood, EndNested
  PROVE CollGood'
<1>1. frames[1] = f /\ Top = f /\ frames # <<>> /\ Popped = <<>> BY TheFrame
<1>2. f.phase = "nested" /\ f.i > Len(f.list) /\ coll' = Settle(f) /\ frames' = <<>>
      /\ UNCHANGED <<arrays, crev, cpubs, cat, recs, host>>
  <2>1. f.i \in Nat /\ Len(f.list) \in Nat BY DEF FrameType, Position
  <2> QED BY <1>1, <2>1 DEF EndNested, Over, Length
<1>3. ControlOf(f) /\ NestedOf(f) /\ CollTypes BY <1>1, <1>2 DEF CollGood, ControlInv, FrameInv
<1>4. f.kind = "commit" /\ f.src = coll.src BY <1>2, <1>3 DEF ControlOf
<1>5. /\ CollTypes' /\ ControlInv' /\ FrameInv' /\ RevisionInv' /\ CauseInv' /\ coll'.src = f.src
      /\ \A s, j : Dirty(s, j)' <=> Dirty(s, j)
  <2>1. recs' \in Seq(RecordType) /\ host' \in Seq(Nat) BY <1>2, <1>3 DEF CollTypes
  <2> QED BY <2>1, <1>2, ReadyAgain
<1>6. coll'.records = coll.records BY <1>2, <1>3, SettleIs
<1>7. HostInv'
  <2>1. Staged' = {} /\ Staged = {} BY <1>1, <1>2, <1>3 DEF Staged, NestedOf
  <2> QED BY <2>1, <1>2, <1>6 DEF CollGood, HostInv
<1>8. MirrorInv'
  <2>1. SUFFICES ASSUME NEW j \in Position, ~Dirty(f.src, j) PROVE Mirrored(j)'
    BY <1>5 DEF MirrorInv
  <2>2. Mirrored(j)' <=> Mirrored(j) BY <1>2, <1>4, <1>5, <1>6 DEF Mirrored
  <2>3. CASE ~OpsTouch(f.ops, j)
    <3>1. Committing BY <1>1, <1>4 DEF Committing
    <3> QED BY <2>1, <2>2, <2>3, <3>1, <1>1, <1>4 DEF CollGood, MirrorInv
  <2>4. CASE OpsTouch(f.ops, j)
    <3>1. PICK k \in DOMAIN f.ops : OpTouches(f.ops[k], j) BY <2>4 DEF OpsTouch
    <3>2. f.ops[k].at = j BY <1>3, <3>1 DEF NestedOf, OpTouches
    <3>3. k < f.i
      <4>1. f.ops \in Seq(EditType) /\ f.list \in Seq(Nat \X Nat) /\ f.i \in Nat BY DEF FrameType, Position
      <4>2. DOMAIN f.list = DOMAIN f.ops BY <1>3 DEF NestedOf
      <4>3. k \in 1..Len(f.list) BY <4>1, <4>2
      <4> QED BY <4>1, <4>3, <1>2
    <3>4. /\ j \in DOMAIN coll.records /\ j \in DOMAIN arrays[f.src]
          /\ recs[coll.records[j]].key = arrays[f.src][j].key
          /\ recs[coll.records[j]].shown = arrays[f.src][j].val
      BY <2>1, <3>2, <3>3, <1>3 DEF NestedOf
    <3> QED BY <2>2, <3>4, <1>4 DEF Mirrored, Shows
  <2> QED BY <2>3, <2>4
<1> QED BY <1>5, <1>7, <1>8 DEF CollGood

(* A frame that fails leaves the reflector failed, except a replacement that  *)
(* had not begun to update and the constructor's.                             *)
FailedReasons == {"hook threw", "duplicate key", "re-entrant", "foreign"}
LEMMA FailsIs ==
  ASSUME CollTypes, NEW f, f.phase = "create" => coll.status = f.prior, NEW cause
  PROVE \/ f.kind = "initial" /\ Fails(f, cause) = [coll EXCEPT !.status = "disposed"]
        \/ f.kind = "replace" /\ f.phase = "create" /\ Fails(f, cause) = coll
        \/ /\ f.kind # "initial"
           /\ Fails(f, cause) = [coll EXCEPT !.status = "failed", !.why = @ \union {cause}]
<1>1. CASE f.kind = "initial" BY <1>1 DEF Fails
<1>2. CASE f.kind = "replace" /\ f.phase = "create" /\ coll.status # "updating"
  <2>1. coll.status = f.prior /\ coll \in CollType BY <1>2 DEF CollTypes
  <2>2. [coll EXCEPT !.status = f.prior] = coll BY <2>1 DEF CollType
  <2>3. Fails(f, cause) = IF coll.status = "failed" THEN coll ELSE [coll EXCEPT !.status = f.prior]
    BY <1>2 DEF Fails
  <2> QED BY <2>2, <2>3, <1>2
<1>3. CASE f.kind # "initial" /\ ~(f.kind = "replace" /\ f.phase = "create" /\ coll.status # "updating")
  <2>1. Fails(f, cause) = [coll EXCEPT !.status = "failed", !.why = @ \union {cause}] BY <1>3 DEF Fails
  <2> QED BY <2>1, <1>3
<1> QED BY <1>1, <1>2, <1>3

LEMMA LeftFailed ==
  ASSUME CollGood, frames' = <<>>, UNCHANGED <<arrays, crev, cpubs>>, cat' \in {cat, "late"},
         recs' \in Seq(RecordType), host' \in Seq(Nat), coll.subscribed, coll.status # "disposed",
         NEW cause \in Reasons, coll' = [coll EXCEPT !.status = "failed", !.why = @ \union {cause}],
         cause \in FailedReasons \/ coll.why \cap FailedReasons # {}
  PROVE CollTypes' /\ ControlInv' /\ FrameInv' /\ MirrorInv' /\ RevisionInv' /\ CauseInv'
<1>1. coll \in CollType /\ DOMAIN coll = {"status", "src", "subscribed", "records", "last", "why"}
  BY CollTyped DEF CollGood, CollTypes
<1>2. coll.why \cup {cause} \in SUBSET Reasons BY <1>1 DEF CollType
<1>3. /\ coll' \in CollType /\ coll'.status = "failed" /\ coll'.src = coll.src
      /\ coll'.subscribed = coll.subscribed /\ coll'.records = coll.records /\ coll'.why = coll.why \cup {cause}
  BY <1>1, <1>2 DEF CollType, CollStatus
<1>4. CollTypes' BY <1>3 DEF CollGood, CollTypes
<1>5. ControlInv' BY <1>3 DEF CollGood, ControlInv
<1>6. FrameInv' BY DEF FrameInv
<1>7. MirrorInv' BY <1>3 DEF MirrorInv, Committing
<1>8. RevisionInv' BY <1>3 DEF CollGood, RevisionInv
<1>9. CauseInv'
  <2>1. coll'.why \cap FailedReasons # {} BY <1>3
  <2>2. cat' = "early" => cat = "early" OBVIOUS
  <2> QED BY <2>1, <2>2, <1>3 DEF CollGood, CauseInv, FailedReasons
<1> QED BY <1>4, <1>5, <1>6, <1>7, <1>8, <1>9

(* What an update had made is gone with it, and nothing else is. *)
LEMMA RolledBack ==
  ASSUME NEW f \in FrameType, frames = <<f>>, frames' = <<>>, CollGood,
         recs' = Rollback(recs, host, f).recs, host' = Rollback(recs, host, f).host,
         coll'.records = coll.records
  PROVE /\ HostInv' /\ recs' \in Seq(RecordType) /\ host' \in Seq(Nat)
        /\ DOMAIN recs' = DOMAIN recs
        /\ \A i \in DOMAIN recs : recs'[i].key = recs[i].key /\ recs'[i].shown = recs[i].shown
<1>1. frames[1] = f /\ frames # <<>> BY TheFrame
<1>2. recs \in Seq(RecordType) /\ host \in Seq(Nat) BY DEF CollGood, CollTypes
<1>3. Staged = f.staged /\ Staged' = {} BY <1>1 DEF Staged
<1>4. /\ host = coll.records /\ Range(host) \subseteq DOMAIN recs /\ IsInjective(coll.records)
      /\ \A a, b \in Range(coll.records) : recs[a].key = recs[b].key => a = b
      /\ f.staged \subseteq DOMAIN recs
      /\ \A s \in f.staged, r \in Range(coll.records) : recs[s].key # recs[r].key
      /\ { i \in DOMAIN recs : recs[i].alive } = Range(coll.records) \cup f.staged
  BY <1>3 DEF CollGood, HostInv
<1>5. /\ recs' \in Seq(RecordType) /\ DOMAIN recs' = DOMAIN recs
      /\ \A i \in DOMAIN recs :
           /\ recs'[i].key = recs[i].key /\ recs'[i].shown = recs[i].shown
           /\ recs'[i].alive <=> recs[i].alive /\ i \notin f.staged
  BY <1>2, DeadIs DEF Rollback
<1>6. Range(host) \cap f.staged = {} BY <1>4
<1>7. host' = host
  <2>1. \A i \in Range(host) : recs[i].alive BY <1>4
  <2>2. host' = Retained(host, Range(host) \ f.staged) BY <1>2, <2>1, DeadHost DEF Rollback
  <2>3. Range(host) \subseteq Range(host) \ f.staged BY <1>6
  <2> QED BY <1>2, <2>2, <2>3, KeptAll
<1>8. { i \in DOMAIN recs' : recs'[i].alive } = Range(coll.records) BY <1>4, <1>5, <1>6
<1>9. \A a, b \in Range(coll.records) : recs'[a].key = recs'[b].key => a = b BY <1>4, <1>5
<1>10. HostInv' BY <1>3, <1>4, <1>5, <1>7, <1>8, <1>9 DEF HostInv
<1> QED BY <1>2, <1>5, <1>7, <1>10

(* A frame that is gone without a trace. *)
LEMMA FrameFails ==
  ASSUME NEW f \in FrameType, frames = <<f>>, frames' = <<>>, CollGood,
         UNCHANGED <<arrays, crev, cpubs, cat>>,
         recs' = Rollback(recs, host, f).recs, host' = Rollback(recs, host, f).host,
         NEW cause \in Reasons, coll' = Fails(f, cause),
         cause \in FailedReasons \/ coll.why \cap FailedReasons # {}
  PROVE CollGood'
<1>1. frames[1] = f /\ frames # <<>> BY TheFrame
<1>2. ControlOf(f) /\ CollTypes BY <1>1 DEF CollGood, ControlInv
<1>3. coll.status # "disposed" BY <1>1 DEF CollGood, ControlInv
<1>4. coll \in CollType /\ DOMAIN coll = {"status", "src", "subscribed", "records", "last", "why"}
  BY CollTyped, <1>2 DEF CollTypes
<1>10. f.phase = "create" => coll.status = f.prior BY <1>2 DEF ControlOf
<1>5. coll'.records = coll.records
  <2>1. \/ coll' = [coll EXCEPT !.status = "disposed"] \/ coll' = coll
        \/ coll' = [coll EXCEPT !.status = "failed", !.why = @ \union {cause}]
    <3>1. \/ Fails(f, cause) = [coll EXCEPT !.status = "disposed"] \/ Fails(f, cause) = coll
          \/ Fails(f, cause) = [coll EXCEPT !.status = "failed", !.why = @ \union {cause}]
      BY <1>2, <1>10, FailsIs
    <3> QED BY <3>1
  <2> QED BY <2>1, <1>4
<1>6. /\ HostInv' /\ recs' \in Seq(RecordType) /\ host' \in Seq(Nat)
      /\ \A i \in DOMAIN recs : recs'[i].key = recs[i].key /\ recs'[i].shown = recs[i].shown
  BY <1>5, RolledBack
<1>7. CASE f.kind = "initial" /\ coll' = [coll EXCEPT !.status = "disposed"]
  <2>1. cpubs = <<>> /\ coll.records = <<>> /\ ~coll.subscribed BY <1>2, <1>7 DEF ControlOf
  <2>2. /\ coll' \in CollType /\ coll'.status = "disposed" /\ coll'.src = coll.src
        /\ coll'.subscribed = coll.subscribed /\ coll'.why = coll.why
    BY <1>4, <1>7 DEF CollType, CollStatus
  <2>3. CollTypes' BY <2>2, <1>6 DEF CollGood, CollTypes
  <2>4. ControlInv' BY <2>1, <2>2, <1>5 DEF CollGood, ControlInv
  <2>5. FrameInv' BY DEF FrameInv
  <2>6. MirrorInv' BY <2>2 DEF MirrorInv, Committing
  <2>7. RevisionInv' /\ CauseInv' BY <2>1, <2>2 DEF CollGood, RevisionInv, CauseInv
  <2> QED BY <1>6, <2>3, <2>4, <2>5, <2>6, <2>7 DEF CollGood
<1>8. CASE f.kind = "replace" /\ f.phase = "create" /\ coll' = coll
  <2>1. coll.status \in {"ready", "failed"} /\ coll.subscribed BY <1>2, <1>8 DEF ControlOf, PriorOf
  <2>2. CollTypes' BY <1>8, <1>6 DEF CollGood, CollTypes
  <2>3. ControlInv' BY <2>1, <1>8 DEF CollGood, ControlInv
  <2>4. FrameInv' BY DEF FrameInv
  <2>5. ~Committing /\ ~Committing' BY <1>1, <1>8 DEF Committing
  <2>6. Ahead' = Ahead /\ \A s, j : Dirty(s, j)' <=> Dirty(s, j) BY SameAhead
  <2>7. MirrorInv'
    <3>1. \A j : Mirrored(j) => Mirrored(j)'
      <4>1. \A j \in DOMAIN coll.records : coll.records[j] \in DOMAIN recs BY DEF CollGood, HostInv, Range
      <4> QED BY <4>1, <1>6, <1>8 DEF Mirrored, Shows
    <3> QED BY <2>5, <2>6, <3>1, <1>8 DEF CollGood, MirrorInv
  <2>8. RevisionInv' /\ CauseInv' BY <2>5, <2>6, <1>8 DEF CollGood, RevisionInv, CauseInv
  <2> QED BY <1>6, <2>2, <2>3, <2>4, <2>7, <2>8 DEF CollGood
<1>9. CASE f.kind # "initial" /\ coll' = [coll EXCEPT !.status = "failed", !.why = @ \union {cause}]
  <2>1. coll.subscribed BY <1>2, <1>9 DEF ControlOf
  <2>2. CollTypes' /\ ControlInv' /\ FrameInv' /\ MirrorInv' /\ RevisionInv' /\ CauseInv'
    BY <2>1, <1>3, <1>6, <1>9, LeftFailed
  <2> QED BY <2>2, <1>6 DEF CollGood
<1> QED BY <1>2, <1>7, <1>8, <1>9, <1>10, FailsIs

LEMMA HookThrowsGoesOn ==
  ASSUME NEW f \in FrameType, frames = <<f>>, CollGood, HookThrows
  PROVE CollGood'
<1>1. frames[1] = f /\ Top = f /\ frames # <<>> /\ Popped = <<>> BY TheFrame
<1>2. /\ recs' = Rollback(recs, host, f).recs /\ host' = Rollback(recs, host, f).host
      /\ coll' = Fails(f, "hook threw") /\ frames' = <<>> /\ UNCHANGED <<arrays, crev, cpubs, cat>>
  BY <1>1 DEF HookThrows
<1>3. "hook threw" \in FailedReasons /\ "hook threw" \in Reasons BY DEF FailedReasons, Reasons
<1> QED BY <1>2, <1>3, FrameFails

(* The attachment: the host ends with the branches of the items, in order,    *)
(* and the branches that are gone are the only ones that were removed.        *)
LEMMA AttachedIs ==
  ASSUME NEW f \in FrameType, frames = <<f>>, CollGood, BranchesOf(f)
  PROVE LET done == Attached(f)
        IN /\ done.ok /\ done.host = f.ids
           /\ done.recs = Dead(recs, host, Range(coll.records) \ Range(f.ids)).recs
<1>1. /\ frames[1] = f /\ frames # <<>> BY TheFrame
<1>2. recs \in Seq(RecordType) /\ coll.records \in Seq(Nat) /\ f.ids \in Seq(Nat)
  BY CollTyped DEF CollGood, CollTypes, FrameType
<1>3. /\ host = coll.records /\ IsInjective(coll.records) /\ Range(coll.records) \subseteq DOMAIN recs
      /\ f.staged \subseteq DOMAIN recs
      /\ { i \in DOMAIN recs : recs[i].alive } = Range(coll.records) \cup f.staged
  BY <1>1 DEF CollGood, HostInv, Staged
<1>4. IsInjective(f.ids) BY BranchesDiffer
<1>5. Range(f.ids) \subseteq Range(coll.records) \cup f.staged BY DEF BranchesOf, Range
<1> DEFINE kept == Range(f.ids)
           gone == Range(coll.records) \ kept
           bare == Dead(recs, host, gone)
           h == Retained(coll.records, kept)
           alive == { i \in DOMAIN recs : bare.recs[i].alive }
           done == Placements([ok |-> TRUE, host |-> h, order |-> h], f.ids, alive)[Len(f.ids)]
<1>6. \A i \in DOMAIN recs : bare.recs[i].alive <=> recs[i].alive /\ i \notin gone BY <1>2, DeadIs
<1>7. bare.host = h
  <2>1. \A i \in Range(host) : recs[i].alive BY <1>3
  <2>2. bare.host = Retained(coll.records, Range(coll.records) \ gone)
    <3> HIDE DEF gone
    <3>1. host \in Seq(Nat) BY <1>2, <1>3
    <3>2. bare.host = Retained(host, Range(host) \ gone) BY <2>1, <3>1, DeadHost
    <3> HIDE DEF bare
    <3> QED BY <3>2, <1>3
  <2>3. \A i \in 1..Len(coll.records) : coll.records[i] \in Range(coll.records) BY <1>2 DEF Range
  <2>4. \A i \in 1..Len(coll.records) : coll.records[i] \in Range(coll.records) \ gone <=> coll.records[i] \in kept
    BY <2>3
  <2> HIDE DEF gone, bare, kept
  <2>5. Retained(coll.records, Range(coll.records) \ gone) = Retained(coll.records, kept) BY <1>2, <2>4, KeptSame
  <2> QED BY <2>2, <2>5
<1>8. h \in Seq(Nat) /\ IsInjective(h) /\ Range(h) \subseteq Range(f.ids)
  <2>1. 0 \in 0..Len(coll.records) /\ \A i \in 1..0 : coll.records[i] \in kept BY <1>2
  <2> HIDE DEF kept
  <2>2. h \in Seq(Nat) /\ Range(h) = Range(coll.records) \cap kept /\ IsInjective(h)
    BY <1>2, <1>3, <2>1, KeptIs
  <2> QED BY <2>2 DEF kept
<1>9. Range(f.ids) \subseteq alive BY <1>3, <1>5, <1>6
<1> HIDE DEF h, alive
<1>10. done.ok /\ done.host = f.ids BY <1>2, <1>4, <1>8, <1>9, PlacementsEnd
<1>11. Attached(f) = [ok |-> done.ok, recs |-> bare.recs, host |-> done.host]
  BY <1>7 DEF Attached, h, alive
<1> HIDE DEF done, bare
<1> QED BY <1>10, <1>11 DEF bare

LEMMA AttachGoesOn ==
  ASSUME NEW f \in FrameType, frames = <<f>>, CollGood, Attach
  PROVE /\ CollGood' /\ coll'.records = f.ids /\ BranchesOf(f)
        /\ \A i \in DOMAIN recs : i \in DOMAIN recs' /\ recs'[i].key = recs[i].key
<1>1. frames[1] = f /\ Top = f /\ frames # <<>> /\ Popped = <<>> BY TheFrame
<1>2. f.phase = "update" /\ f.i > Len(f.desired)
  <2>1. f.i \in Nat /\ Len(f.desired) \in Nat BY DEF FrameType, Position
  <2> QED BY <1>1, <2>1 DEF Attach, Over, Length
<1>3. ControlOf(f) /\ BranchesOf(f) /\ CollTypes BY <1>1, <1>2 DEF CollGood, ControlInv, FrameInv
<1>4. Attached(f).ok /\ Attached(f).host = f.ids
      /\ Attached(f).recs = Dead(recs, host, Range(coll.records) \ Range(f.ids)).recs
  BY <1>3, AttachedIs
<1>5. /\ coll' = [Settle(f) EXCEPT !.records = f.ids] /\ recs' = Attached(f).recs /\ host' = Attached(f).host
      /\ frames' = <<>> /\ UNCHANGED <<arrays, crev, cpubs, cat>>
  BY <1>1, <1>4 DEF Attach
<1>6. recs \in Seq(RecordType) /\ f.ids \in Seq(Nat) /\ f.desired \in Seq(Item) /\ f.i \in Nat
  BY <1>3 DEF CollTypes, FrameType, Position
<1>7. /\ recs' \in Seq(RecordType) /\ DOMAIN recs' = DOMAIN recs
      /\ \A i \in DOMAIN recs :
           /\ recs'[i].key = recs[i].key /\ recs'[i].shown = recs[i].shown
           /\ recs'[i].alive <=> recs[i].alive /\ i \notin Range(coll.records) \ Range(f.ids)
  BY <1>4, <1>5, <1>6, DeadIs
<1>8. host' = f.ids BY <1>4, <1>5
<1>9. coll'.records = f.ids
  <2>1. Settle(f) \in CollType BY <1>3, SettleIs
  <2>2. "records" \in DOMAIN Settle(f) BY <2>1 DEF CollType
  <2> QED BY <2>2, <1>5
<1>10. /\ CollTypes' /\ ControlInv' /\ FrameInv' /\ RevisionInv' /\ CauseInv' /\ coll'.src = f.src
       /\ \A s, j : Dirty(s, j)' <=> Dirty(s, j)
  <2>1. coll' = Settle(f) \/ (\E ids \in Seq(Nat) : coll' = [Settle(f) EXCEPT !.records = ids])
    BY <1>5, <1>6
  <2>2. host' \in Seq(Nat) BY <1>6, <1>8
  <2> QED BY <2>1, <2>2, <1>5, <1>7, ReadyAgain
<1>11. /\ host = coll.records /\ Range(coll.records) \subseteq DOMAIN recs /\ f.staged \subseteq DOMAIN recs
       /\ \A a, b \in Range(coll.records) : recs[a].key = recs[b].key => a = b
       /\ { i \in DOMAIN recs : recs[i].alive } = Range(coll.records) \cup f.staged
  BY <1>1 DEF CollGood, HostInv, Staged
<1>12. /\ IsInjective(f.ids) /\ DOMAIN f.ids \subseteq DOMAIN f.desired
       /\ \A i, j \in DOMAIN f.desired : f.desired[i].key = f.desired[j].key => i = j
  BY <1>3, BranchesDiffer
<1>13. /\ \A j \in DOMAIN f.ids : f.ids[j] \in Range(coll.records) \cup f.staged /\ recs[f.ids[j]].key = f.desired[j].key
       /\ f.staged \subseteq Range(f.ids) /\ Len(f.ids) = Len(f.desired)
  BY <1>2, <1>3 DEF BranchesOf
<1>14. Range(f.ids) \subseteq Range(coll.records) \cup f.staged BY <1>13 DEF Range
<1>15. HostInv'
  <2>1. Staged' = {} BY <1>5 DEF Staged
  <2>2. \A a, b \in Range(f.ids) : recs'[a].key = recs'[b].key => a = b
    <3>1. SUFFICES ASSUME NEW i \in DOMAIN f.ids, NEW j \in DOMAIN f.ids, recs'[f.ids[i]].key = recs'[f.ids[j]].key
                   PROVE i = j
      BY DEF Range
    <3>2. f.ids[i] \in DOMAIN recs /\ f.ids[j] \in DOMAIN recs BY <1>11, <1>13
    <3>3. f.desired[i].key = f.desired[j].key BY <3>1, <3>2, <1>7, <1>13
    <3> QED BY <3>3, <1>12
  <2>3. { i \in DOMAIN recs' : recs'[i].alive } = Range(f.ids) BY <1>7, <1>11, <1>13, <1>14
  <2> QED BY <2>1, <2>2, <2>3, <1>7, <1>8, <1>9, <1>11, <1>12, <1>14 DEF HostInv
<1>16. MirrorInv'
  <2>1. SUFFICES ASSUME NEW j \in Position, ~Dirty(f.src, j) PROVE Mirrored(j)'
    BY <1>10 DEF MirrorInv
  <2>2. Agree(f.desired, arrays[f.src], j) BY <2>1, <1>3 DEF BranchesOf
  <2>3. j \in DOMAIN f.ids <=> j \in DOMAIN f.desired BY <1>6, <1>13
  <2>4. SUFFICES ASSUME j \in DOMAIN f.ids PROVE recs[f.ids[j]].shown = arrays[f.src][j].val
    <3>1. j \in DOMAIN f.ids => f.ids[j] \in DOMAIN recs BY <1>11, <1>13
    <3> QED BY <3>1, <2>2, <2>3, <1>5, <1>7, <1>9, <1>10, <1>13 DEF Mirrored, Shows, Agree
  <2>5. j < f.i
    <3>1. j \in 1..Len(f.desired) BY <2>3, <2>4, <1>6
    <3>2. Len(f.desired) \in Nat BY <1>6
    <3> QED BY <3>1, <3>2, <1>2, <1>6
  <2>6. CASE Fresh(f, j) BY <2>1, <2>4, <2>6, <1>3 DEF BranchesOf
  <2>7. CASE ~Fresh(f, j)
    <3>1. f.ids[j] \notin f.staged /\ f.kind = "commit" /\ ~shouldUpdateSurvivor(f.ops, j)
      BY <2>5, <2>7, <1>2 DEF Fresh
    <3>2. f.ids[j] \in Range(coll.records) BY <3>1, <2>4, <1>13
    <3>3. f.src = coll.src /\ Committing BY <3>1, <1>1, <1>3 DEF ControlOf, Committing
    <3>4. ~OpsTouch(f.ops, j)
      <4>1. f.ops \in Seq(EditType) BY DEF FrameType
      <4>2. Len(f.ops) = 1 /\ f.ops[1].kind = "splice" /\ ~OpTouches(f.ops[1], j)
        BY <3>1 DEF shouldUpdateSurvivor, OpTouches
      <4>3. DOMAIN f.ops = {1} BY <4>1, <4>2
      <4> QED BY <4>2, <4>3 DEF OpsTouch
    <3>5. Mirrored(j) BY <2>1, <3>3, <3>4, <1>1 DEF CollGood, MirrorInv
    <3>6. j \in DOMAIN arrays[f.src] /\ f.desired[j] = arrays[f.src][j] BY <2>2, <2>3, <2>4 DEF Agree
    <3>7. j \in DOMAIN coll.records /\ recs[coll.records[j]].key = arrays[f.src][j].key
          /\ recs[coll.records[j]].shown = arrays[f.src][j].val
      BY <3>3, <3>5, <3>6 DEF Mirrored, Shows
    <3>8. coll.records[j] \in Range(coll.records) BY <3>7 DEF Range
    <3>9. coll.records[j] = f.ids[j] BY <3>2, <3>6, <3>7, <3>8, <2>4, <1>11, <1>13
    <3> QED BY <3>7, <3>9
  <2> QED BY <2>6, <2>7
<1> QED BY <1>3, <1>7, <1>9, <1>10, <1>15, <1>16 DEF CollGood

-----------------------------------------------------------------------------
(* Commits. *)
CommitSound(array, c) ==
  /\ c.next \in Seq(Item) /\ c.ops \in Seq(EditType) /\ OpsShape(c.ops)
  /\ \A j \in Position : OpsTouch(c.ops, j) \/ Agree(array, c.next, j)
  /\ \A k \in DOMAIN c.ops : c.ops[k].kind = "nested" => c.ops[k].at \in DOMAIN c.next

SpliceOf(D, array, L, ins, n, at, removed, next) ==
  /\ array \in Seq(D) /\ L \in Nat /\ L = Len(array) /\ ins \in Seq(D) /\ n \in Nat /\ n = Len(ins)
  /\ at \in 1..(L + 1) /\ removed \in 0..1 /\ at + removed - 1 <= L
  /\ next = SubSeq(array, 1, at - 1) \o ins \o SubSeq(array, at + removed, L)
SpliceKeeps(D, array, L, n, at, removed, next) ==
  /\ next \in Seq(D) /\ Len(next) = L + n - removed
  /\ \A j \in 1..(at - 1) : next[j] = array[j]
  /\ n = removed => \A j \in (at + n)..L : next[j] = array[j]
LEMMA SplicedSeq ==
  ASSUME NEW D, NEW array, NEW L, NEW ins, NEW n, NEW at, NEW removed, NEW next,
         SpliceOf(D, array, L, ins, n, at, removed, next)
  PROVE SpliceKeeps(D, array, L, n, at, removed, next)
<1> USE DEF SpliceOf
<1>1. PICK A : A = SubSeq(array, 1, at - 1) OBVIOUS
<1>2. PICK B : B = SubSeq(array, at + removed, L) OBVIOUS
<1>0. at \in Nat /\ at >= 1 /\ at <= L + 1 /\ removed \in Nat /\ removed <= 1 OBVIOUS
<1>3. A \in Seq(D) /\ Len(A) = at - 1 /\ \A j \in 1..(at - 1) : A[j] = array[j]
  <2>1. PICK m \in Int : m = at - 1 BY <1>0
  <2>2. \A j \in 1..m : array[j] \in D
    <3>1. \A j \in 1..m : j \in 1..Len(array) BY <1>0, <2>1
    <3> QED BY <3>1, ElementOfSeq
  <2>3. /\ SubSeq(array, 1, m) \in Seq(D) /\ Len(SubSeq(array, 1, m)) = IF 1 <= m THEN m - 1 + 1 ELSE 0
        /\ \A j \in 1..(m - 1 + 1) : SubSeq(array, 1, m)[j] = array[1 + j - 1]
    BY <2>2, SubSeqProperties
  <2>4. m - 1 + 1 = m /\ (IF 1 <= m THEN m - 1 + 1 ELSE 0) = m /\ \A j \in 1..m : 1 + j - 1 = j BY <1>0, <2>1
  <2>5. A = SubSeq(array, 1, m) BY <1>1, <2>1
  <2> QED BY <2>1, <2>3, <2>4, <2>5
<1>4. B \in Seq(D) /\ Len(B) = L - at - removed + 1
      /\ \A j \in 1..(L - at - removed + 1) : B[j] = array[at + removed + j - 1]
  <2>1. PICK m \in Nat : m = at + removed OBVIOUS
  <2>2. B = SubSeq(array, m, L) /\ m \in 1..(L + 1) BY <1>2, <2>1
  <2>3. /\ SubSeq(array, m, L) \in Seq(D) /\ Len(SubSeq(array, m, L)) = IF m <= L THEN L - m + 1 ELSE 0
        /\ \A j \in 1..(L - m + 1) : SubSeq(array, m, L)[j] = array[m + j - 1]
    <3>1. m >= 1 /\ m <= L + 1 /\ L <= Len(array) /\ L \in Nat /\ array \in Seq(D) BY <2>2
    <3>2. /\ SubSeq(array, m, L) \in Seq(D) /\ Len(SubSeq(array, m, L)) = L + 1 - m
          /\ \A j \in 1..(L + 1 - m) : SubSeq(array, m, L)[j] = array[m + j - 1]
      BY <3>1, PartOf
    <3> QED BY <3>1, <3>2
  <2>4. L - m + 1 = L - at - removed + 1 /\ (IF m <= L THEN L - m + 1 ELSE 0) = L - m + 1 BY <1>0, <2>1, <2>2
  <2>5. \A j : m + j - 1 = at + removed + j - 1 BY <2>1
  <2> QED BY <2>2, <2>3, <2>4, <2>5
<1>5. PICK AB : AB = A \o ins OBVIOUS
<1>6. AB \in Seq(D) /\ Len(AB) = at - 1 + n /\ \A j \in 1..(at - 1) : AB[j] = A[j]
  <2>1. AB \in Seq(D) /\ Len(AB) = Len(A) + Len(ins) /\ \A j \in 1..Len(A) : AB[j] = A[j]
    BY <1>3, <1>5, ConcatProperties
  <2> QED BY <2>1, <1>3
<1>7. next = AB \o B BY <1>1, <1>2, <1>5
<1>8. /\ next \in Seq(D) /\ Len(next) = Len(AB) + Len(B)
      /\ \A j \in 1..Len(AB) + Len(B) : next[j] = IF j <= Len(AB) THEN AB[j] ELSE B[j - Len(AB)]
  <2>1. AB \in Seq(D) /\ B \in Seq(D) BY <1>4, <1>6
  <2>2. /\ AB \o B \in Seq(D) /\ Len(AB \o B) = Len(AB) + Len(B)
        /\ \A j \in 1..Len(AB) + Len(B) : (AB \o B)[j] = IF j <= Len(AB) THEN AB[j] ELSE B[j - Len(AB)]
    BY <2>1, ConcatProperties
  <2> QED BY <2>2, <1>7
<1>9. \A j \in 1..(at - 1) : next[j] = array[j]
  <2>1. \A j \in 1..(at - 1) : j \in 1..(at - 1 + n + (L - at - removed + 1)) /\ j <= at - 1 + n OBVIOUS
  <2> QED BY <2>1, <1>3, <1>4, <1>6, <1>8
<1>10. ASSUME n = removed, NEW j \in (at + n)..L PROVE next[j] = array[j]
  <2>1. PICK k : k = at - 1 + n OBVIOUS
  <2>2. k = Len(AB) /\ k \in Nat /\ j - k \in 1..(L - at - removed + 1) /\ j \in 1..(k + (L - at - removed + 1)) /\ ~(j <= k)
    BY <1>6, <1>10, <2>1
  <2>3. next[j] = B[j - k] BY <2>2, <1>4, <1>8
  <2>4. at + removed + (j - k) - 1 = j BY <2>1, <1>10
  <2> QED BY <2>2, <2>3, <2>4, <1>4
<1>11. Len(next) = L + n - removed
  <2>1. Len(next) = (at - 1 + n) + (L - at - removed + 1) BY <1>4, <1>6, <1>8
  <2>2. (at - 1 + n) + (L - at - removed + 1) = L + n - removed BY <1>0
  <2> QED BY <2>1, <2>2
<1> QED BY <1>8, <1>9, <1>10, <1>11 DEF SpliceKeeps

LEMMA SplicedIs ==
  ASSUME NEW array \in Seq(Item), NEW e \in EditType, e.at \in 1..(Len(array) + 1), e.removed \in 0..1,
         e.at + e.removed - 1 <= Len(array), e.kind = "splice"
  PROVE CommitSound(array, [ops |-> <<e>>, next |-> Spliced(array, e)])
<1>1. e.inserted \in Seq(Item) BY DEF EditType
<1>2. PICK L \in Nat, n \in Nat, at \in Nat, removed \in 0..1 :
        /\ L = Len(array) /\ n = Len(e.inserted) /\ at = e.at /\ removed = e.removed
        /\ at \in 1..(L + 1) /\ at + removed - 1 <= L
  BY <1>1
<1>3. PICK next : next = Spliced(array, e) OBVIOUS
<1>6. /\ next \in Seq(Item) /\ Len(next) = L + n - removed
      /\ \A j \in 1..(at - 1) : next[j] = array[j]
      /\ n = removed => \A j \in (at + n)..L : next[j] = array[j]
  <2>1. next = SubSeq(array, 1, at - 1) \o e.inserted \o SubSeq(array, at + removed, L) BY <1>2, <1>3 DEF Spliced
  <2>2. at \in 1..(L + 1) /\ removed \in 0..1 /\ at + removed - 1 <= L /\ L \in Nat /\ n \in Nat BY <1>2
  <2>3. L = Len(array) /\ n = Len(e.inserted) BY <1>2
  <2>4. PICK ins : ins = e.inserted OBVIOUS
  <2>5. ins \in Seq(Item) /\ n = Len(ins) /\ next = SubSeq(array, 1, at - 1) \o ins \o SubSeq(array, at + removed, L)
    BY <2>1, <2>3, <2>4, <1>1
  <2>6. array \in Seq(Item) OBVIOUS
  <2> HIDE DEF Item
  <2>7. SpliceOf(Item, array, L, ins, n, at, removed, next) BY <2>2, <2>3, <2>5, <2>6 DEF SpliceOf
  <2>8. SpliceKeeps(Item, array, L, n, at, removed, next) BY <2>7, SplicedSeq
  <2> QED BY <2>8 DEF SpliceKeeps
<1>9. DOMAIN next = 1..(L + n - removed) /\ DOMAIN array = 1..L BY <1>2, <1>6
<1>10. ASSUME NEW j \in Position, ~OpTouches(e, j) PROVE Agree(array, next, j)
  <2>1. j < at \/ (j >= at + n /\ n = removed) BY <1>2, <1>10 DEF OpTouches, Position
  <2>2. CASE j < at
    <3>1. j \in 1..(at - 1) BY <2>2 DEF Position
    <3>2. j \in 1..L
      <4>1. at \in Nat /\ at <= L + 1 BY <1>2
      <4> QED BY <3>1, <4>1
    <3>3. j \in 1..(L + n - removed)
      <4>0. at \in Nat /\ L \in Nat /\ n \in Nat /\ removed \in Nat /\ at + removed - 1 <= L BY <1>2
      <4>1. at \in Nat /\ at - 1 <= L + n - removed BY <4>0
      <4> QED BY <3>1, <4>1
    <3> QED BY <3>1, <3>2, <3>3, <1>6, <1>9 DEF Agree
  <2>3. CASE j >= at + n /\ n = removed
    <3>1. L + n - removed = L BY <2>3
    <3>2. j \in 1..L => j \in (at + n)..L BY <2>3
    <3> QED BY <2>3, <3>1, <3>2, <1>6, <1>9 DEF Agree
  <2> QED BY <2>1, <2>2, <2>3
<1>12. <<e>> \in Seq(EditType) /\ DOMAIN <<e>> = {1} /\ <<e>>[1] = e /\ Len(<<e>>) = 1 /\ <<e>> # <<>> OBVIOUS
<1>13. OpsShape(<<e>>) BY <1>12 DEF OpsShape
<1>14. \A j : OpsTouch(<<e>>, j) <=> OpTouches(e, j) BY <1>12 DEF OpsTouch
<1>15. \A j \in Position : OpsTouch(<<e>>, j) \/ Agree(array, next, j) BY <1>10, <1>14
<1>16. e.kind # "nested" OBVIOUS
<1> QED BY <1>3, <1>6, <1>12, <1>13, <1>15, <1>16 DEF CommitSound

LEMMA NestedIs ==
  ASSUME NEW array \in Seq(Item), NEW next \in Seq(Item), Len(next) = Len(array),
         NEW ops \in Seq(EditType), ops # <<>>, \A k \in DOMAIN ops : ops[k].kind = "nested" /\ ops[k].at \in DOMAIN array,
         \A j \in DOMAIN array : next[j] = array[j] \/ \E k \in DOMAIN ops : ops[k].at = j
  PROVE CommitSound(array, [ops |-> ops, next |-> next])
<1>1. DOMAIN next = DOMAIN array OBVIOUS
<1>2. OpsShape(ops) BY DEF OpsShape
<1>3. \A j \in Position : OpsTouch(ops, j) \/ Agree(array, next, j)
  <2>1. SUFFICES ASSUME NEW j \in Position, ~OpsTouch(ops, j) PROVE Agree(array, next, j) OBVIOUS
  <2>2. \A k \in DOMAIN ops : ops[k].at # j BY <2>1 DEF OpsTouch, OpTouches
  <2> QED BY <2>2, <1>1 DEF Agree
<1> QED BY <1>1, <1>2, <1>3 DEF CommitSound

(* Every commit a caller may make is one. *)
LEMMA CommitsAre ==
  ASSUME NEW array \in Seq(Item), NEW c \in ArrayCommits(array)
  PROVE CommitSound(array, c)
<1>1. (CHOOSE v \in ItemVals : TRUE) \in ItemVals BY CollectionAssumption DEF CollectionAssumption
<1>2. \A i \in DOMAIN array : array[i] \in Item /\ array[i].key \in ItemKeys /\ i \in Position /\ Nested(i) \in EditType
      /\ Nested(i).kind = "nested" /\ Nested(i).at = i
  <2>1. <<>> \in Seq(Item) /\ 0 \in Nat OBVIOUS
  <2>2. \A i \in DOMAIN array : i \in Position /\ array[i] \in Item BY DEF Position
  <2> QED BY <2>1, <2>2 DEF EditType, Nested, Edit, Item
<1>3. ASSUME NEW e \in Splices(array), e.at + e.removed - 1 <= Len(array),
             c = [ops |-> <<e>>, next |-> Spliced(array, e)]
      PROVE CommitSound(array, c)
  <2>1. PICK at \in 1..(Len(array) + 1), removed \in 0..1,
             inserted \in {<<>>} \union { <<[key |-> k, val |-> CHOOSE v \in ItemVals : TRUE]>> : k \in ItemKeys } :
          e = Edit("splice", at, removed, inserted)
    BY <1>3 DEF Splices
  <2>2. inserted \in Seq(Item)
    <3>1. CASE inserted = <<>> BY <3>1
    <3>2. CASE inserted # <<>>
      <4>1. PICK k \in ItemKeys : inserted = <<[key |-> k, val |-> CHOOSE v \in ItemVals : TRUE]>> BY <2>1, <3>2
      <4>2. PICK item : item = [key |-> k, val |-> CHOOSE v \in ItemVals : TRUE] OBVIOUS
      <4>3. item \in Item BY <1>1, <4>2 DEF Item
      <4>4. inserted = <<item>> BY <4>1, <4>2
      <4> QED BY <4>3, <4>4
    <3> QED BY <3>1, <3>2
  <2>3. at \in Position /\ removed \in Nat BY DEF Position
  <2>4. e.at = at /\ e.removed = removed /\ e.kind = "splice" /\ e \in EditType
    BY <2>1, <2>2, <2>3 DEF Edit, EditType
  <2> QED BY <2>4, <1>3, SplicedIs
<1>4. ASSUME NEW i \in DOMAIN array, NEW item \in Item, c = [ops |-> <<Nested(i)>>, next |-> [array EXCEPT ![i] = item]]
      PROVE CommitSound(array, c)
  <2> DEFINE ops == <<Nested(i)>>
             next == [array EXCEPT ![i] = item]
  <2>1. ops \in Seq(EditType) /\ ops # <<>> /\ DOMAIN ops = {1} /\ ops[1].kind = "nested" /\ ops[1].at = i BY <1>2
  <2>2. next \in Seq(Item) /\ Len(next) = Len(array) /\ \A j \in DOMAIN array : j # i => next[j] = array[j] OBVIOUS
  <2> HIDE DEF ops, next
  <2>3. \A j \in DOMAIN array : next[j] = array[j] \/ \E k \in DOMAIN ops : ops[k].at = j BY <2>1, <2>2
  <2>4. CommitSound(array, [ops |-> ops, next |-> next]) BY <2>1, <2>2, <2>3, NestedIs
  <2> QED BY <2>4, <1>4 DEF ops, next
<1>5. ASSUME NEW i \in DOMAIN array, NEW k \in ItemKeys,
             c = [ops |-> <<Nested(i)>>, next |-> [array EXCEPT ![i].key = k]]
      PROVE CommitSound(array, c)
  <2>1. [array[i] EXCEPT !.key = k] \in Item BY <1>2 DEF Item
  <2>2. c = [ops |-> <<Nested(i)>>, next |-> [array EXCEPT ![i] = [array[i] EXCEPT !.key = k]]] BY <1>5
  <2> QED BY <2>1, <2>2, <1>4
<1>6. ASSUME NEW i \in DOMAIN array, NEW v \in ItemVals,
             c = [ops |-> <<Nested(i)>>, next |-> [array EXCEPT ![i].val = v]]
      PROVE CommitSound(array, c)
  <2>1. [array[i] EXCEPT !.val = v] \in Item BY <1>2 DEF Item
  <2>2. c = [ops |-> <<Nested(i)>>, next |-> [array EXCEPT ![i] = [array[i] EXCEPT !.val = v]]] BY <1>6
  <2> QED BY <2>1, <2>2, <1>4
<1>7. ASSUME NEW a \in DOMAIN array, NEW b \in DOMAIN array, a < b,
             c = [ops |-> <<Nested(a), Nested(b)>>,
                  next |-> [array EXCEPT ![a].key = array[b].key, ![b].key = array[a].key]]
      PROVE CommitSound(array, c)
  <2> DEFINE x == [array[a] EXCEPT !.key = array[b].key]
             y == [array[b] EXCEPT !.key = array[a].key]
             ops == <<Nested(a), Nested(b)>>
             next == [array EXCEPT ![a] = x, ![b] = y]
  <2>1. x \in Item /\ y \in Item BY <1>2 DEF Item
  <2>2. a # b BY <1>7
  <2>3. [array EXCEPT ![a].key = array[b].key, ![b].key = array[a].key] = next BY <2>2
  <2>4. ops \in Seq(EditType) /\ ops # <<>> /\ DOMAIN ops = {1, 2} /\ ops[1] = Nested(a) /\ ops[2] = Nested(b) BY <1>2
  <2> HIDE DEF x, y
  <2>5. next \in Seq(Item) /\ Len(next) = Len(array) /\ \A j \in DOMAIN array : j \notin {a, b} => next[j] = array[j]
    BY <2>1
  <2> HIDE DEF ops, next
  <2>6. \A j \in DOMAIN array : next[j] = array[j] \/ \E k \in DOMAIN ops : ops[k].at = j BY <1>2, <2>4, <2>5
  <2>7. \A k \in DOMAIN ops : ops[k].kind = "nested" /\ ops[k].at \in DOMAIN array BY <1>2, <2>4
  <2>8. CommitSound(array, [ops |-> ops, next |-> next]) BY <2>4, <2>5, <2>6, <2>7, NestedIs
  <2> QED BY <2>3, <2>8, <1>7 DEF ops
<1>8. ASSUME c = [ops |-> <<Edit("set", 1, 0, <<>>)>>, next |-> Reverse(array)] PROVE CommitSound(array, c)
  <2>1. PICK e : e = Edit("set", 1, 0, <<>>) OBVIOUS
  <2>2. e \in EditType /\ e.kind = "set"
    <3>1. <<>> \in Seq(Item) /\ 0 \in Nat /\ 1 \in Position BY DEF Position
    <3> QED BY <2>1, <3>1 DEF Edit, EditType
  <2>3. <<e>> \in Seq(EditType) /\ DOMAIN <<e>> = {1} /\ <<e>>[1] = e /\ Len(<<e>>) = 1 /\ <<e>> # <<>> BY <2>2
  <2>4. Reverse(array) \in Seq(Item) BY DEF Reverse
  <2>5. \A j : OpsTouch(<<e>>, j) BY <2>2, <2>3 DEF OpsTouch, OpTouches
  <2>6. OpsShape(<<e>>) BY <2>3 DEF OpsShape
  <2> QED BY <2>1, <2>2, <2>3, <2>4, <2>5, <2>6, <1>8 DEF CommitSound
<1> DEFINE two == { pair \in (DOMAIN array) \X (DOMAIN array) : pair[1] < pair[2] }
           one == { x \in Splices(array) : x.at + x.removed - 1 <= Len(array) /\ x.removed + Len(x.inserted) > 0 }
           ByOne == { [ops |-> <<e>>, next |-> Spliced(array, e)] : e \in one }
           ByKey == { [ops |-> <<Nested(i)>>, next |-> [array EXCEPT ![i].key = k]] : i \in DOMAIN array, k \in ItemKeys }
           ByVal == { [ops |-> <<Nested(i)>>, next |-> [array EXCEPT ![i].val = v]] : i \in DOMAIN array, v \in ItemVals }
           ByTwo == { [ops |-> <<Nested(p[1]), Nested(p[2])>>,
                       next |-> [array EXCEPT ![p[1]].key = array[p[2]].key, ![p[2]].key = array[p[1]].key]] : p \in two }
<1>10. \A p \in two : p[1] \in DOMAIN array /\ p[2] \in DOMAIN array /\ p[1] < p[2] OBVIOUS
<1>9. \/ c \in ByOne \/ c \in ByKey \/ c \in ByVal \/ c \in ByTwo
      \/ c = [ops |-> <<Edit("set", 1, 0, <<>>)>>, next |-> Reverse(array)]
  <2> HIDE DEF ByOne, ByKey, ByVal, ByTwo
  <2>1. ArrayCommits(array) = ByOne \union ByKey \union ByVal \union ByTwo
                               \union { [ops |-> <<Edit("set", 1, 0, <<>>)>>, next |-> Reverse(array)] }
    BY DEF ArrayCommits, ByOne, ByKey, ByVal, ByTwo, one, two
  <2> QED BY <2>1
<1>11. CASE c \in ByOne
  <2>1. PICK e \in one : c = [ops |-> <<e>>, next |-> Spliced(array, e)] BY <1>11
  <2>2. e \in Splices(array) /\ e.at + e.removed - 1 <= Len(array) OBVIOUS
  <2> QED BY <2>1, <2>2, <1>3
<1>12. CASE c \in ByKey
  <2>1. PICK i \in DOMAIN array, k \in ItemKeys : c = [ops |-> <<Nested(i)>>, next |-> [array EXCEPT ![i].key = k]]
    BY <1>12
  <2> QED BY <2>1, <1>5
<1>13. CASE c \in ByVal
  <2>1. PICK i \in DOMAIN array, v \in ItemVals : c = [ops |-> <<Nested(i)>>, next |-> [array EXCEPT ![i].val = v]]
    BY <1>13
  <2> QED BY <2>1, <1>6
<1>14. CASE c \in ByTwo
  <2>1. PICK p \in two :
          c = [ops |-> <<Nested(p[1]), Nested(p[2])>>,
               next |-> [array EXCEPT ![p[1]].key = array[p[2]].key, ![p[2]].key = array[p[1]].key]]
    BY <1>14
  <2> QED BY <2>1, <1>7, <1>10
<1> HIDE DEF ByOne, ByKey, ByVal, ByTwo
<1> QED BY <1>8, <1>9, <1>11, <1>12, <1>13, <1>14

(* What a commit does to the publications: it is published to a reflector that *)
(* listens to its map, and nothing that was ahead is lost.                     *)
LEMMA WrittenIs ==
  ASSUME CollTypes, NEW s \in 1..2, NEW c, CommitSound(arrays[s], c), Written(s, c)
  PROVE /\ arrays' \in [1..2 -> Seq(Item)] /\ crev' \in [1..2 -> Nat]
        /\ cpubs' \in Seq(PubType) /\ cat' \in {"early", "late"}
        /\ arrays'[s] = c.next /\ crev'[s] = crev[s] + 1
        /\ \A t \in 1..2 : t # s => arrays'[t] = arrays[t] /\ crev'[t] = crev[t]
        /\ Ahead \subseteq Ahead'
        /\ \A t, j : Dirty(t, j) => Dirty(t, j)'
        /\ \A k \in DOMAIN cpubs : k \in DOMAIN cpubs' /\ cpubs'[k] = cpubs[k]
        /\ cpubs # <<>> => cat' = cat /\ cpubs' # <<>>
        /\ IF coll.subscribed /\ coll.src = s
           THEN /\ Ahead' # {}
                /\ Len(cpubs') = Len(cpubs) + 1
                /\ cpubs'[Len(cpubs')] = [ops |-> c.ops, rev |-> crev[s] + 1, src |-> s]
                /\ \A j : OpsTouch(c.ops, j) => Dirty(s, j)'
           ELSE cpubs' = cpubs
<1>1. arrays \in [1..2 -> Seq(Item)] /\ crev \in [1..2 -> Nat] /\ cpubs \in Seq(PubType) /\ cat \in {"early", "late"}
  BY DEF CollTypes
<1>2. c.next \in Seq(Item) /\ c.ops \in Seq(EditType) BY DEF CommitSound
<1>3. arrays' = [arrays EXCEPT ![s] = c.next] /\ crev' = [crev EXCEPT ![s] = crev[s] + 1]
      /\ cat' = IF cpubs = <<>> THEN "early" ELSE cat
  BY <1>1 DEF Written
<1>4. /\ arrays' \in [1..2 -> Seq(Item)] /\ arrays'[s] = c.next /\ \A t \in 1..2 : t # s => arrays'[t] = arrays[t]
  BY <1>1, <1>2, <1>3
<1>5. /\ crev' \in [1..2 -> Nat] /\ crev'[s] = crev[s] + 1 /\ \A t \in 1..2 : t # s => crev'[t] = crev[t]
  <2>1. crev[s] + 1 \in Nat BY <1>1
  <2> QED BY <2>1, <1>1, <1>3
<1>6. cat' \in {"early", "late"} BY <1>1, <1>3
<1>7. PICK pub : pub = [ops |-> c.ops, rev |-> crev[s] + 1, src |-> s] OBVIOUS
<1>8. pub \in PubType /\ pub.ops = c.ops /\ pub.src = s
  <2>1. crev[s] + 1 \in Nat BY <1>1
  <2> QED BY <2>1, <1>2, <1>7 DEF PubType
<1>9. cpubs' = IF coll.subscribed /\ coll.src = s THEN Append(cpubs, pub) ELSE cpubs BY <1>7 DEF Written
<1>10. cpubs' \in Seq(PubType) /\ \A k \in DOMAIN cpubs : k \in DOMAIN cpubs' /\ cpubs'[k] = cpubs[k]
  BY <1>1, <1>8, <1>9
<1>11. Ahead \subseteq Ahead'
  <2>1. SUFFICES ASSUME NEW k \in Ahead PROVE k \in Ahead' OBVIOUS
  <2>2. k \in DOMAIN cpubs /\ (cat = "early" \/ k > 1) BY <2>1 DEF Ahead
  <2>3. cpubs # <<>> BY <2>2, <1>1
  <2> QED BY <2>2, <2>3, <1>3, <1>10 DEF Ahead
<1>12. \A t, j : Dirty(t, j) => Dirty(t, j)'
  <2>1. Ahead \subseteq DOMAIN cpubs BY DEF Ahead
  <2> QED BY <2>1, <1>10, <1>11 DEF Dirty
<1>13. ASSUME coll.subscribed, coll.src = s
       PROVE /\ Ahead' # {} /\ Len(cpubs') = Len(cpubs) + 1 /\ cpubs'[Len(cpubs')] = pub
             /\ \A j : OpsTouch(c.ops, j) => Dirty(s, j)'
  <2>1. PICK n \in Nat : n = Len(cpubs) BY <1>1
  <2>2. cpubs' = Append(cpubs, pub) BY <1>9, <1>13
  <2>3. Len(cpubs') = n + 1 /\ cpubs'[n + 1] = pub /\ n + 1 \in DOMAIN cpubs' BY <2>1, <2>2, <1>1
  <2>4. n = 0 => cpubs = <<>> BY <2>1, <1>1, EmptySeq
  <2>5. n + 1 \in Ahead'
    <3>1. CASE n = 0 BY <2>3, <2>4, <3>1, <1>3 DEF Ahead
    <3>2. CASE n # 0
      <4>1. n + 1 > 1 BY <3>2
      <4> QED BY <2>3, <4>1 DEF Ahead
    <3> QED BY <3>1, <3>2
  <2>6. \A j : OpsTouch(c.ops, j) => Dirty(s, j)' BY <2>3, <2>5, <1>8 DEF Dirty
  <2> QED BY <2>1, <2>3, <2>5, <2>6
<1>14. cpubs # <<>> => cat' = cat /\ cpubs' # <<>>
  <2>1. cpubs # <<>> => 1 \in DOMAIN cpubs BY <1>1
  <2> QED BY <2>1, <1>3, <1>10
<1> QED BY <1>4, <1>5, <1>6, <1>7, <1>9, <1>10, <1>11, <1>12, <1>13, <1>14

(* Where nothing is announced, nothing has changed. *)
LEMMA QuietAgrees ==
  ASSUME CollTypes, NEW s \in 1..2, NEW c, CommitSound(arrays[s], c), Written(s, c), coll.subscribed, coll'.src = coll.src,
         NEW j \in Position, ~Dirty(coll.src, j)'
  PROVE Agree(arrays[coll.src], arrays'[coll.src], j)
<1>1. coll.src \in 1..2 BY CollTyped
<1>2. CASE coll.src = s
  <2>1. arrays'[s] = c.next /\ \A i : OpsTouch(c.ops, i) => Dirty(s, i)' BY <1>2, WrittenIs
  <2>2. ~Dirty(coll.src, j)' => ~Dirty(s, j)' BY <1>2
  <2> QED BY <2>1, <2>2, <1>2 DEF CommitSound
<1>3. CASE coll.src # s
  <2>1. arrays'[coll.src] = arrays[coll.src] BY <1>1, <1>3, WrittenIs
  <2> QED BY <2>1 DEF Agree
<1> QED BY <1>2, <1>3

LEMMA WritingGoesOn ==
  ASSUME CollGood, NEW s \in DOMAIN arrays, NEW c \in ArrayCommits(arrays[s]), Written(s, c),
         coll.subscribed, UNCHANGED <<recs, host, frames>>,
         coll' = [coll EXCEPT !.why = @ \union (IF cpubs = <<>> THEN {} ELSE {"re-entrant"})]
  PROVE /\ CollTypes' /\ HostInv' /\ MirrorInv' /\ RevisionInv' /\ CauseInv'
        /\ \A k \in DOMAIN cpubs' : OpsShape(cpubs'[k].ops)
        /\ coll'.status = coll.status /\ coll'.src = coll.src /\ coll'.subscribed /\ coll'.records = coll.records
        /\ \A j \in Position : ~Dirty(coll.src, j)' => ~Dirty(coll.src, j) /\ Agree(arrays[coll.src], arrays'[coll.src], j)
        /\ cpubs # <<>> => cat' = cat /\ cpubs' # <<>> /\ cpubs'[1] = cpubs[1]
<1>3. s \in 1..2 /\ arrays[s] \in Seq(Item) /\ CollTypes BY DEF CollGood, CollTypes
<1>4. CommitSound(arrays[s], c) BY <1>3, CommitsAre
<1>5. coll \in CollType /\ DOMAIN coll = {"status", "src", "subscribed", "records", "last", "why"} /\ coll.src \in 1..2
  BY <1>3, CollTyped DEF CollTypes
<1>7. /\ coll' \in CollType /\ coll'.status = coll.status /\ coll'.src = coll.src /\ coll'.subscribed
      /\ coll'.records = coll.records /\ coll'.last = coll.last
      /\ coll'.why = coll.why \cup (IF cpubs = <<>> THEN {} ELSE {"re-entrant"})
  <2>1. coll.why \cup (IF cpubs = <<>> THEN {} ELSE {"re-entrant"}) \in SUBSET Reasons
    <3>1. coll.why \in SUBSET Reasons BY <1>5 DEF CollType
    <3>2. "re-entrant" \in Reasons BY DEF Reasons
    <3> QED BY <3>1, <3>2
  <2> QED BY <2>1, <1>5 DEF CollType
<1>8. /\ arrays' \in [1..2 -> Seq(Item)] /\ crev' \in [1..2 -> Nat]
      /\ cpubs' \in Seq(PubType) /\ cat' \in {"early", "late"}
      /\ arrays'[s] = c.next /\ crev'[s] = crev[s] + 1
      /\ \A t \in 1..2 : t # s => arrays'[t] = arrays[t] /\ crev'[t] = crev[t]
      /\ Ahead \subseteq Ahead'
      /\ \A t, j : Dirty(t, j) => Dirty(t, j)'
      /\ \A k \in DOMAIN cpubs : k \in DOMAIN cpubs' /\ cpubs'[k] = cpubs[k]
      /\ cpubs # <<>> => cat' = cat /\ cpubs' # <<>>
  BY <1>3, <1>4, WrittenIs
<1>9. IF coll.src = s
      THEN /\ Ahead' # {} /\ Len(cpubs') = Len(cpubs) + 1
           /\ cpubs'[Len(cpubs')] = [ops |-> c.ops, rev |-> crev[s] + 1, src |-> s]
      ELSE cpubs' = cpubs
  BY <1>3, <1>4, WrittenIs
<1>10. CollTypes' BY <1>7, <1>8, <1>3 DEF CollTypes
<1>11. \A k \in DOMAIN cpubs' :
         \/ k \in DOMAIN cpubs /\ cpubs'[k] = cpubs[k]
         \/ coll.src = s /\ k = Len(cpubs') /\ cpubs'[k] = [ops |-> c.ops, rev |-> crev[s] + 1, src |-> s]
  <2>1. CASE coll.src # s BY <2>1, <1>9
  <2>2. CASE coll.src = s
    <3>0. cpubs \in Seq(PubType) BY <1>3 DEF CollTypes
    <3>1. PICK n \in Nat : n = Len(cpubs) BY <3>0
    <3>2. DOMAIN cpubs = 1..n /\ DOMAIN cpubs' = 1..(n + 1) BY <3>1, <2>2, <1>3, <1>8, <1>9 DEF CollTypes
    <3>3. \A k \in 1..(n + 1) : k \in 1..n \/ k = n + 1 OBVIOUS
    <3> QED BY <3>1, <3>2, <3>3, <2>2, <1>8, <1>9
  <2> QED BY <2>1, <2>2
<1>12. \A k \in DOMAIN cpubs' : OpsShape(cpubs'[k].ops) BY <1>4, <1>11 DEF CollGood, ControlInv, CommitSound
<1>13. HostInv'
  <2>1. Staged' = Staged BY DEF Staged
  <2> QED BY <2>1, <1>7 DEF CollGood, HostInv
<1>14. Committing' = Committing BY DEF Committing
<1>18. \A j \in Position : ~Dirty(coll.src, j)' => ~Dirty(coll.src, j) /\ Agree(arrays[coll.src], arrays'[coll.src], j)
  <2>1. SUFFICES ASSUME NEW j \in Position, ~Dirty(coll.src, j)'
                 PROVE ~Dirty(coll.src, j) /\ Agree(arrays[coll.src], arrays'[coll.src], j)
    OBVIOUS
  <2>2. Agree(arrays[coll.src], arrays'[coll.src], j) BY <2>1, <1>3, <1>4, <1>7, QuietAgrees
  <2>3. Dirty(coll.src, j) => Dirty(coll.src, j)' BY <1>7, <1>8
  <2> QED BY <2>1, <2>2, <2>3
<1>15. MirrorInv'
  <2>1. SUFFICES ASSUME coll.status = "ready" \/ Committing, NEW j \in Position, ~Dirty(coll.src, j)',
                        ~(Committing /\ OpsTouch(frames[1].ops, j))
                 PROVE Mirrored(j)'
    BY <1>7, <1>14 DEF MirrorInv
  <2>2. Agree(arrays[coll.src], arrays'[coll.src], j) BY <2>1, <1>18
  <2>3. Mirrored(j) BY <2>1, <1>18 DEF CollGood, MirrorInv
  <2> QED BY <2>2, <2>3, <1>7 DEF Mirrored, Agree
<1>16. RevisionInv'
  <2>1. SUFFICES ASSUME "foreign" \notin coll.why
                 PROVE /\ \A k \in DOMAIN cpubs' : cpubs'[k].src = coll.src
                       /\ cpubs' # <<>> => cpubs'[Len(cpubs')].rev = crev'[coll.src]
                       /\ coll.status = "ready" /\ ~Committing /\ Ahead' = {} => coll.last = crev'[coll.src]
    BY <1>7, <1>14 DEF RevisionInv
  <2>2. /\ \A k \in DOMAIN cpubs : cpubs[k].src = coll.src
        /\ cpubs # <<>> => cpubs[Len(cpubs)].rev = crev[coll.src]
        /\ coll.status = "ready" /\ ~Committing /\ Ahead = {} => coll.last = crev[coll.src]
    BY <2>1 DEF CollGood, RevisionInv
  <2>3. \A k \in DOMAIN cpubs' : cpubs'[k].src = coll.src BY <2>2, <1>11
  <2>4. CASE coll.src = s BY <2>3, <2>4, <1>8, <1>9
  <2>5. CASE coll.src # s
    <3>1. cpubs' = cpubs /\ crev'[coll.src] = crev[coll.src] BY <2>5, <1>5, <1>8, <1>9
    <3>2. Ahead' = {} => Ahead = {} BY <1>8
    <3> QED BY <2>2, <2>3, <3>1, <3>2
  <2> QED BY <2>4, <2>5
<1>17. CauseInv'
  <2>1. coll.status = "failed" => coll'.why \cap {"hook threw", "duplicate key", "re-entrant", "foreign"} # {}
    BY <1>7 DEF CollGood, CauseInv
  <2>2. ASSUME "re-entrant" \notin coll'.why
        PROVE /\ Len(cpubs') <= 1
              /\ "foreign" \notin coll'.why /\ cpubs' # <<>> /\ cat' = "early" =>
                   \A k \in DOMAIN cpubs'[1].ops :
                     cpubs'[1].ops[k].kind = "nested" => cpubs'[1].ops[k].at \in DOMAIN arrays'[coll.src]
    <3>1. cpubs = <<>> BY <2>2, <1>7
    <3>2. CASE coll.src # s
      <4>1. cpubs' = <<>> BY <3>1, <3>2, <1>9
      <4> QED BY <4>1
    <3>3. CASE coll.src = s
      <4>1. Len(cpubs') = 1 /\ cpubs'[1].ops = c.ops
        <5>1. PICK n : n = Len(cpubs') OBVIOUS
        <5>2. PICK m : m = Len(cpubs) OBVIOUS
        <5>5. m = 0 BY <5>2, <3>1
        <5>6. n = m + 1 BY <5>1, <5>2, <3>3, <1>9
        <5>3. n = 1 BY <5>5, <5>6
        <5>4. cpubs'[n].ops = c.ops BY <5>1, <3>3, <1>9
        <5> QED BY <5>1, <5>3, <5>4
      <4> QED BY <4>1, <3>3, <1>4, <1>8 DEF CommitSound
    <3> QED BY <3>2, <3>3
  <2> QED BY <2>1, <2>2, <1>7 DEF CauseInv
<1>19. cpubs # <<>> => cpubs'[1] = cpubs[1]
  <2>1. cpubs # <<>> => 1 \in DOMAIN cpubs BY <1>3 DEF CollTypes
  <2> QED BY <2>1, <1>8
<1> QED BY <1>7, <1>8, <1>10, <1>12, <1>13, <1>15, <1>16, <1>17, <1>18, <1>19

LEMMA CommitArrayGoesOn ==
  ASSUME CollGood, frames = <<>>, CommitArray
  PROVE CollGood'
<1>1. /\ coll' = [coll EXCEPT !.why = @ \union (IF cpubs = <<>> THEN {} ELSE {"re-entrant"})]
      /\ UNCHANGED <<recs, host, frames>>
  BY DEF CommitArray
<1>2. PICK s \in DOMAIN arrays : \E c \in ArrayCommits(arrays[s]) : Written(s, c) BY DEF CommitArray
<1>3. PICK c \in ArrayCommits(arrays[s]) : Written(s, c) BY <1>2
<1>4. coll.status # "disposed" /\ coll.subscribed
  <2>1. coll.status # "disposed" BY DEF CommitArray, Usable
  <2> QED BY <2>1 DEF CollGood, ControlInv
<1>5. /\ CollTypes' /\ HostInv' /\ MirrorInv' /\ RevisionInv' /\ CauseInv'
      /\ \A k \in DOMAIN cpubs' : OpsShape(cpubs'[k].ops)
      /\ coll'.status = coll.status /\ coll'.subscribed
  BY <1>1, <1>3, <1>4, WritingGoesOn
<1>6. ControlInv' BY <1>1, <1>4, <1>5 DEF CollGood, ControlInv
<1>7. FrameInv' BY <1>1 DEF FrameInv
<1> QED BY <1>5, <1>6, <1>7 DEF CollGood

LEMMA HookWritesGoesOn ==
  ASSUME NEW f \in FrameType, frames = <<f>>, CollGood, HookWrites, Undisturbed'
  PROVE CollGood'
<1>1. frames[1] = f /\ Top = f /\ frames # <<>> BY TheFrame
<1>2. /\ coll' = [coll EXCEPT !.why = @ \union {IF f.kind = "commit" THEN "re-entrant" ELSE "nested"}]
      /\ UNCHANGED <<recs, host, frames>>
  BY <1>1 DEF HookWrites
<1>3. PICK c \in ArrayCommits(arrays[f.src]) : Written(f.src, c) BY <1>1 DEF HookWrites
<1>4. CollTypes /\ ControlOf(f) BY <1>1 DEF CollGood, ControlInv
<1>5. f.kind = "commit"
  <2>1. "why" \in DOMAIN coll BY <1>4, CollTyped
  <2>2. coll'.why = coll.why \union {IF f.kind = "commit" THEN "re-entrant" ELSE "nested"} BY <1>2, <2>1
  <2> QED BY <2>2 DEF Undisturbed
<1>6. f.src = coll.src /\ cpubs # <<>> /\ coll.subscribed BY <1>4, <1>5 DEF ControlOf
<1>7. f.src \in DOMAIN arrays BY <1>4 DEF FrameType, CollTypes
<1>8. coll' = [coll EXCEPT !.why = @ \union (IF cpubs = <<>> THEN {} ELSE {"re-entrant"})] BY <1>2, <1>5, <1>6
<1>9. /\ CollTypes' /\ HostInv' /\ MirrorInv' /\ RevisionInv' /\ CauseInv'
      /\ \A k \in DOMAIN cpubs' : OpsShape(cpubs'[k].ops)
      /\ coll'.status = coll.status /\ coll'.src = coll.src /\ coll'.subscribed /\ coll'.records = coll.records
      /\ \A j \in Position : ~Dirty(coll.src, j)' => ~Dirty(coll.src, j) /\ Agree(arrays[coll.src], arrays'[coll.src], j)
      /\ cat' = cat /\ cpubs' # <<>> /\ cpubs'[1] = cpubs[1]
  BY <1>2, <1>3, <1>6, <1>7, <1>8, WritingGoesOn
<1>10. ControlInv'
  <2>1. ControlOf(f)' BY <1>4, <1>5, <1>6, <1>9 DEF ControlOf
  <2>2. coll.status # "disposed" BY <1>1 DEF CollGood, ControlInv
  <2>3. Len(frames') <= 1 /\ frames'[1] = f /\ frames' # <<>> BY <1>1, <1>2 DEF CollGood, ControlInv
  <2> QED BY <2>1, <2>2, <2>3, <1>9 DEF ControlInv
<1>11. \A j : Dirty(f.src, j)' <=> Dirty(coll.src, j)' BY <1>6, <1>9
<1>12. f.old = coll.records /\ (IF f.phase = "nested" THEN NestedOf(f) ELSE BranchesOf(f)) BY <1>1 DEF CollGood, FrameInv
<1>13. ASSUME BranchesOf(f) PROVE BranchesOf(f)'
  <2>1. \A j \in Position : Dirty(f.src, j)' \/ Agree(f.desired, arrays'[f.src], j)
    <3>1. SUFFICES ASSUME NEW j \in Position, ~Dirty(coll.src, j)' PROVE Agree(f.desired, arrays'[coll.src], j)
      BY <1>6, <1>11
    <3>2. ~Dirty(f.src, j) /\ Agree(arrays[coll.src], arrays'[coll.src], j) BY <3>1, <1>6, <1>9
    <3>3. Agree(f.desired, arrays[coll.src], j) BY <3>2, <1>6, <1>13 DEF BranchesOf
    <3> QED BY <3>2, <3>3 DEF Agree
  <2>2. \A j \in DOMAIN f.ids : Fresh(f, j) => Dirty(f.src, j)' \/ recs[f.ids[j]].shown = arrays'[f.src][j].val
    <3>1. SUFFICES ASSUME NEW j \in DOMAIN f.ids, Fresh(f, j), ~Dirty(coll.src, j)'
                   PROVE recs[f.ids[j]].shown = arrays'[coll.src][j].val
      BY <1>6, <1>11
    <3>2. j \in Position BY DEF FrameType, Position
    <3>3. ~Dirty(f.src, j) /\ Agree(arrays[coll.src], arrays'[coll.src], j) BY <3>1, <3>2, <1>6, <1>9
    <3>4. Agree(f.desired, arrays[coll.src], j) /\ recs[f.ids[j]].shown = arrays[f.src][j].val
      BY <3>1, <3>2, <3>3, <1>6, <1>13 DEF BranchesOf
    <3>5. j \in DOMAIN f.desired BY <1>13, BranchesDiffer
    <3> QED BY <3>3, <3>4, <3>5, <1>6 DEF Agree
  <2> QED BY <2>1, <2>2, <1>2, <1>9, <1>13 DEF BranchesOf, Fresh
<1>14. ASSUME NestedOf(f) PROVE NestedOf(f)'
  <2>1. ASSUME NEW k \in DOMAIN f.ops, ~Dirty(coll.src, f.ops[k].at)'
        PROVE LET at == f.ops[k].at
              IN /\ at \in DOMAIN arrays'[coll.src]
                 /\ recs[coll.records[at]].key = arrays'[coll.src][at].key
                 /\ k < f.i => recs[coll.records[at]].shown = arrays'[coll.src][at].val
    <3>0. f.ops \in Seq(EditType) BY DEF FrameType
    <3>1. f.ops[k].at \in Position
      <4>1. f.ops[k] \in EditType BY <3>0
      <4> QED BY <4>1 DEF EditType
    <3>2. ~Dirty(f.src, f.ops[k].at) /\ Agree(arrays[coll.src], arrays'[coll.src], f.ops[k].at)
      BY <2>1, <3>1, <1>6, <1>9
    <3>3. /\ f.ops[k].at \in DOMAIN arrays[coll.src]
          /\ recs[coll.records[f.ops[k].at]].key = arrays[coll.src][f.ops[k].at].key
          /\ k < f.i => recs[coll.records[f.ops[k].at]].shown = arrays[coll.src][f.ops[k].at].val
      BY <3>2, <1>6, <1>14 DEF NestedOf
    <3> QED BY <3>2, <3>3 DEF Agree
  <2> QED BY <2>1, <1>2, <1>6, <1>9, <1>11, <1>14 DEF NestedOf
<1>15. FrameInv'
  <2>1. frames'[1] = f BY <1>1, <1>2
  <2> QED BY <2>1, <1>9, <1>12, <1>13, <1>14 DEF FrameInv
<1> QED BY <1>9, <1>10, <1>15 DEF CollGood

-----------------------------------------------------------------------------
(* The start of an update. *)
LEMMA FrameTyped ==
  ASSUME CollTypes, NEW kind \in {"initial", "synchronize", "replace", "commit"}, NEW s \in 1..2,
         NEW ops \in Seq(EditType), NEW revision \in Nat
  PROVE LET f == Frame(kind, s, ops, revision)
        IN /\ f \in FrameType /\ f.kind = kind /\ f.src = s /\ f.ops = ops /\ f.rev = revision
           /\ f.within = (cpubs # <<>>) /\ f.desired = arrays[s] /\ f.ids = <<>> /\ f.staged = {}
           /\ f.phase = "create" /\ f.i = 1 /\ f.old = coll.records /\ f.list = <<>> /\ f.prior = coll.status
<1>1. /\ arrays[s] \in Seq(Item) /\ coll.records \in Seq(Nat) /\ coll.status \in CollStatus
      /\ <<>> \in Seq(Nat) /\ <<>> \in Seq(Nat \X Nat) /\ {} \in SUBSET Nat /\ 1 \in Position
      /\ (cpubs # <<>>) \in BOOLEAN
  BY CollTyped DEF CollTypes, Position
<1> QED BY <1>1 DEF Frame, FrameType

LEMMA Delivered ==
  ASSUME CollTypes, cat = "early", cat' = "late", UNCHANGED cpubs, cpubs # <<>>
  PROVE /\ \A s, j : Dirty(s, j) => Dirty(s, j)' \/ (cpubs[1].src = s /\ OpsTouch(cpubs[1].ops, j))
        /\ \A s, j : Dirty(s, j)' => Dirty(s, j)
<1>1. cpubs \in Seq(PubType) BY DEF CollTypes
<1>2. Ahead = DOMAIN cpubs /\ Ahead' = { k \in DOMAIN cpubs : k > 1 } BY DEF Ahead
<1>3. \A k \in DOMAIN cpubs : k = 1 \/ k > 1 BY <1>1
<1> QED BY <1>2, <1>3 DEF Dirty

LEMMA Started ==
  ASSUME CollGood, frames = <<>>, NEW f, frames' = <<f>>, NEW kind \in {"synchronize", "replace", "commit"},
         NEW s \in 1..2, NEW ops \in Seq(EditType), NEW revision \in Nat, f = Frame(kind, s, ops, revision),
         UniqueKeys(KeysOf(f.desired)), UNCHANGED <<arrays, crev, cpubs, coll, recs, host>>,
         coll.status \in PriorOf(kind), kind = "replace" <=> s # coll.src,
         IF kind = "commit"
         THEN cpubs # <<>> /\ cat = "early" /\ cat' = "late" /\ ops = cpubs[1].ops /\ revision = cpubs[1].rev
         ELSE cat' = cat
  PROVE CollGood'
<1>1. CollTypes BY DEF CollGood
<1>2. /\ f \in FrameType /\ f.kind = kind /\ f.src = s /\ f.ops = ops /\ f.rev = revision
      /\ f.within = (cpubs # <<>>) /\ f.desired = arrays[s] /\ f.ids = <<>> /\ f.staged = {}
      /\ f.phase = "create" /\ f.i = 1 /\ f.old = coll.records /\ f.list = <<>> /\ f.prior = coll.status
  BY <1>1, FrameTyped
<1>3. frames'[1] = f /\ frames' # <<>> /\ Len(frames') = 1 OBVIOUS
<1>4. cat' \in {"early", "late"} BY <1>1 DEF CollTypes
<1>5. CollTypes' BY <1>1, <1>2, <1>4 DEF CollTypes
<1>6. coll.status \in {"ready", "failed"} /\ coll.subscribed
  <2>1. coll.status \in {"ready", "failed"} BY DEF PriorOf
  <2> QED BY <2>1 DEF CollGood, ControlInv
<1>7. ControlOf(f)' BY <1>2, <1>6 DEF ControlOf
<1>8. ControlInv' BY <1>3, <1>6, <1>7 DEF CollGood, ControlInv
<1>9. HostInv'
  <2>1. Staged' = {} /\ Staged = {} BY <1>2, <1>3 DEF Staged
  <2> QED BY <2>1 DEF CollGood, HostInv
<1>10. BranchesOf(f)'
  <2>1. IsInjective(KeysOf(f.desired)) BY DEF UniqueKeys
  <2>2. f.i <= Len(f.desired) + 1 /\ Len(f.ids) = f.i - 1 /\ DOMAIN f.ids = {} /\ f.staged \subseteq Range(f.ids)
    <3>1. Len(arrays[s]) \in Nat BY <1>1 DEF CollTypes
    <3> QED BY <3>1, <1>2
  <2>3. \A j : Agree(f.desired, arrays'[f.src], j) BY <1>2 DEF Agree
  <2> QED BY <1>2, <2>1, <2>2, <2>3 DEF BranchesOf
<1>11. FrameInv' BY <1>2, <1>3, <1>10 DEF FrameInv
<1>12. ~Committing /\ (Committing' <=> kind = "commit") BY <1>2, <1>3 DEF Committing
<1>13. CASE kind = "commit"
  <2>1. MirrorInv'
    <3>1. SUFFICES ASSUME NEW j \in Position, ~Dirty(coll.src, j)', ~OpsTouch(cpubs[1].ops, j) PROVE Mirrored(j)'
      BY <1>2, <1>3, <1>12, <1>13 DEF MirrorInv
    <3>2. ~Dirty(coll.src, j)
      <4>1. Dirty(coll.src, j) => Dirty(coll.src, j)' \/ OpsTouch(cpubs[1].ops, j) BY <1>1, <1>13, Delivered
      <4> QED BY <3>1, <4>1
    <3>3. coll.status = "ready" BY <1>13 DEF PriorOf
    <3>4. Mirrored(j) BY <3>2, <3>3, <1>12 DEF CollGood, MirrorInv
    <3> QED BY <3>4 DEF Mirrored
  <2>2. RevisionInv' BY <1>12, <1>13 DEF CollGood, RevisionInv
  <2>3. CauseInv' BY <1>13 DEF CollGood, CauseInv
  <2> QED BY <2>1, <2>2, <2>3, <1>5, <1>8, <1>9, <1>11 DEF CollGood
<1>14. CASE kind # "commit"
  <2>1. Ahead' = Ahead /\ \A t, j : Dirty(t, j)' <=> Dirty(t, j) BY <1>14, SameAhead
  <2>2. MirrorInv' BY <2>1, <1>12, <1>14 DEF CollGood, MirrorInv, Mirrored
  <2>3. RevisionInv' BY <2>1, <1>12, <1>14 DEF CollGood, RevisionInv
  <2>4. CauseInv' BY <1>14 DEF CollGood, CauseInv
  <2> QED BY <2>2, <2>3, <2>4, <1>5, <1>8, <1>9, <1>11 DEF CollGood
<1> QED BY <1>13, <1>14

LEMMA FailedAtOnce ==
  ASSUME CollGood, frames = <<>>, UNCHANGED <<arrays, crev, cpubs, recs, host, frames>>, cat' \in {cat, "late"},
         coll.status \in {"ready", "failed"},
         NEW cause \in Reasons, coll' = [coll EXCEPT !.status = "failed", !.why = @ \union {cause}],
         cause \in FailedReasons \/ coll.why \cap FailedReasons # {}
  PROVE CollGood'
<1>1. coll.subscribed /\ coll.status # "disposed" BY DEF CollGood, ControlInv
<1>2. recs' \in Seq(RecordType) /\ host' \in Seq(Nat) /\ CollTypes BY DEF CollGood, CollTypes
<1>3. CollTypes' /\ ControlInv' /\ FrameInv' /\ MirrorInv' /\ RevisionInv' /\ CauseInv'
  BY <1>1, <1>2, LeftFailed
<1>4. coll'.records = coll.records BY <1>2, CollTyped
<1>5. HostInv'
  <2>1. Staged' = Staged BY DEF Staged
  <2> QED BY <2>1, <1>4 DEF CollGood, HostInv
<1> QED BY <1>3, <1>5 DEF CollGood

LEMMA BeginGoesOn ==
  ASSUME CollGood, frames = <<>>, NEW kind \in {"synchronize", "replace", "commit"},
         NEW s \in 1..2, NEW ops \in Seq(EditType), NEW revision \in Nat, Begin(Frame(kind, s, ops, revision)),
         UNCHANGED <<arrays, crev, cpubs>>,
         coll.status \in PriorOf(kind), kind = "replace" <=> s # coll.src,
         IF kind = "commit"
         THEN cpubs # <<>> /\ cat = "early" /\ cat' = "late" /\ ops = cpubs[1].ops /\ revision = cpubs[1].rev
         ELSE cat' = cat
  PROVE CollGood'
<1>1. PICK f : f = Frame(kind, s, ops, revision) OBVIOUS
<1>2. CollTypes BY DEF CollGood
<1>3. f.kind = kind /\ f.phase = "create" /\ f.prior = coll.status BY <1>1, <1>2, FrameTyped
<1>4. CASE UniqueKeys(KeysOf(f.desired))
  <2>1. frames' = Append(frames, f) /\ UNCHANGED <<recs, host, coll>> BY <1>1, <1>4 DEF Begin
  <2>2. frames' = <<f>> BY <2>1
  <2> QED BY <1>1, <1>4, <2>1, <2>2, Started
<1>5. CASE ~UniqueKeys(KeysOf(f.desired))
  <2>1. coll' = Fails(f, "duplicate key") /\ UNCHANGED <<recs, host, frames>> BY <1>1, <1>5 DEF Begin
  <2>2. \/ f.kind = "replace" /\ coll' = coll
        \/ coll' = [coll EXCEPT !.status = "failed", !.why = @ \union {"duplicate key"}]
    <3>0. f.phase = "create" => coll.status = f.prior BY <1>3
    <3>1. \/ f.kind = "initial" /\ Fails(f, "duplicate key") = [coll EXCEPT !.status = "disposed"]
          \/ f.kind = "replace" /\ f.phase = "create" /\ Fails(f, "duplicate key") = coll
          \/ /\ f.kind # "initial"
             /\ Fails(f, "duplicate key") = [coll EXCEPT !.status = "failed", !.why = @ \union {"duplicate key"}]
      BY <1>2, <3>0, FailsIs
    <3> QED BY <2>1, <3>1, <1>3
  <2>3. CASE coll' = coll /\ f.kind = "replace"
    <3>1. UNCHANGED <<arrays, crev, cpubs, cat, coll, recs, host, frames>> BY <2>1, <2>3, <1>3
    <3>2. Ahead' = Ahead /\ (\A t, j : Dirty(t, j)' <=> Dirty(t, j)) BY <3>1, SameAhead
    <3>3. Committing' = Committing /\ Staged' = Staged BY <3>1 DEF Committing, Staged
    <3>4. CollTypes' /\ ControlInv' /\ FrameInv'
      BY <3>1 DEF CollGood, CollTypes, ControlInv, FrameInv
    <3>5. HostInv' BY <3>1, <3>3 DEF CollGood, HostInv
    <3>6. MirrorInv' /\ RevisionInv' /\ CauseInv'
      BY <3>1, <3>2, <3>3 DEF CollGood, MirrorInv, Mirrored, RevisionInv, CauseInv
    <3> QED BY <3>4, <3>5, <3>6 DEF CollGood
  <2>4. CASE coll' = [coll EXCEPT !.status = "failed", !.why = @ \union {"duplicate key"}]
    <3>1. coll.status \in {"ready", "failed"} BY DEF PriorOf
    <3>2. "duplicate key" \in Reasons /\ "duplicate key" \in FailedReasons BY DEF Reasons, FailedReasons
    <3>3. cat' \in {cat, "late"} OBVIOUS
    <3> QED BY <2>1, <2>4, <3>1, <3>2, <3>3, FailedAtOnce
  <2> QED BY <2>2, <2>3, <2>4
<1> QED BY <1>4, <1>5

(* The largest of the positions. *)
LEMMA MaxIs ==
  ASSUME NEW S, S \subseteq Nat, S # {}, NEW B \in Nat, \A x \in S : x <= B
  PROVE Max(S) \in S /\ \A x \in S : x <= Max(S)
<1> DEFINE T == { B - x : x \in S }
<1>1. T \subseteq Nat /\ T # {}
  <2>1. \A x \in S : B - x \in Nat OBVIOUS
  <2> QED BY <2>1
<1> HIDE DEF T
<1>2. PICK y \in T : \A z \in T : y <= z BY <1>1, LeastNat
<1>3. PICK m \in S : y = B - m BY DEF T
<1>4. \A x \in S : B - x \in T BY DEF T
<1>5. \A x \in S : m >= x
  <2>1. SUFFICES ASSUME NEW x \in S PROVE m >= x OBVIOUS
  <2>2. B - m <= B - x BY <1>2, <1>3, <1>4
  <2> QED BY <2>2
<1>6. Max(S) = CHOOSE x \in S : \A z \in S : x >= z BY DEF Max
<1>7. Max(S) \in S /\ \A z \in S : Max(S) >= z BY <1>5, <1>6
<1>8. \A z \in S : z \in Nat OBVIOUS
<1> QED BY <1>7, <1>8

(* A commit to the fields of the items leaves the keys the records have, and  *)
(* those it names may be read: unless a write came in between.                *)
LEMMA NestedKeys ==
  ASSUME CollGood, frames = <<>>, coll.status = "ready", cpubs # <<>>, cat = "early",
         \A k \in DOMAIN cpubs[1].ops : cpubs[1].ops[k].kind = "nested",
         coll.why \cap FailedReasons = {}
  PROVE LET at == NestedAt(cpubs[1].ops)
        IN /\ \A i \in at : i \in DOMAIN arrays[coll.src]
           /\ UniqueKeys(KeysOf(arrays[coll.src])) => UniqueKeys(NextKeys(at))
<1> DEFINE at == NestedAt(cpubs[1].ops)
<1>1. "re-entrant" \notin coll.why /\ "foreign" \notin coll.why BY DEF FailedReasons
<1>2. coll.subscribed BY DEF CollGood, ControlInv
<1>3. cpubs \in Seq(PubType) /\ arrays \in [1..2 -> Seq(Item)] /\ coll.src \in 1..2 /\ coll.records \in Seq(Nat)
  BY CollTyped DEF CollGood, CollTypes
<1>4. \A k \in DOMAIN cpubs : k = 1
  <2>1. Len(cpubs) <= 1 BY <1>1 DEF CollGood, CauseInv
  <2>2. \A k \in 1..Len(cpubs) : k = 1
    <3>1. PICK n \in Nat : n = Len(cpubs) BY <1>3
    <3>2. \A k \in 1..n : k = 1 BY <2>1, <3>1
    <3> QED BY <3>1, <3>2
  <2> QED BY <2>2, <1>3
<1>5. \A i \in at : i \in DOMAIN arrays[coll.src]
  <2>1. \A k \in DOMAIN cpubs[1].ops :
          cpubs[1].ops[k].kind = "nested" => cpubs[1].ops[k].at \in DOMAIN arrays[coll.src]
    BY <1>1, <1>2 DEF CollGood, CauseInv
  <2> QED BY <2>1 DEF NestedAt
<1>6. \A j : Dirty(coll.src, j) => j \in at
  <2>1. SUFFICES ASSUME NEW j, Dirty(coll.src, j) PROVE j \in at OBVIOUS
  <2>2. PICK k \in Ahead : OpsTouch(cpubs[k].ops, j) BY <2>1 DEF Dirty
  <2>3. k = 1 BY <1>4 DEF Ahead
  <2>4. PICK m \in DOMAIN cpubs[1].ops : OpTouches(cpubs[1].ops[m], j) BY <2>2, <2>3 DEF OpsTouch
  <2>5. cpubs[1].ops[m].at = j BY <2>4 DEF OpTouches
  <2> QED BY <2>5 DEF NestedAt
<1>7. \A j \in Position : j \in at \/ Mirrored(j)
  <2>1. ~Committing BY DEF Committing
  <2> QED BY <2>1, <1>6 DEF CollGood, MirrorInv
<1>8. PICK array : array = arrays[coll.src] OBVIOUS
<1>9. PICK records : records = coll.records OBVIOUS
<1>10. array \in Seq(Item) /\ records \in Seq(Nat) BY <1>3, <1>8, <1>9
<1> DEFINE S == {Len(records)} \cup at
<1>11. Max(S) \in S /\ Max(S) \in Nat /\ \A x \in S : x <= Max(S)
  <2>1. PICK L \in Nat, N \in Nat : L = Len(records) /\ N = Len(array) BY <1>10
  <2>2. at \subseteq 1..N BY <2>1, <1>5, <1>8, <1>10
  <2>3. S \subseteq Nat /\ S # {} /\ L + N \in Nat /\ \A x \in S : x <= L + N BY <2>1, <2>2
  <2> HIDE DEF S
  <2>4. Max(S) \in S /\ \A x \in S : x <= Max(S) BY <2>3, MaxIs
  <2> QED BY <2>3, <2>4
<1> HIDE DEF at
<1>12. PICK m \in Nat : m = Max(S) BY <1>11
<1>13. \A i \in 1..m : /\ i \in DOMAIN array
                       /\ NextKeys(at)[i] = array[i].key
  <2>1. SUFFICES ASSUME NEW i \in 1..m
                 PROVE i \in DOMAIN array /\ NextKeys(at)[i] = array[i].key
    OBVIOUS
  <2>2. i \in Position BY DEF Position
  <2>3. NextKeys(at)[i] =
          CASE i \in at -> ItemAt(coll.src, i).key
            [] i \notin at /\ i <= Len(records) -> recs[records[i]].key
            [] OTHER -> ""
    BY <1>9, <1>12 DEF NextKeys
  <2>4. CASE i \in at
    <3>1. i \in DOMAIN array BY <2>4, <1>5, <1>8
    <3>2. ItemAt(coll.src, i).key = array[i].key BY <3>1, <1>8 DEF ItemAt
    <3>3. NextKeys(at)[i] = ItemAt(coll.src, i).key BY <2>3, <2>4
    <3> QED BY <3>1, <3>2, <3>3
  <2>5. CASE i \notin at
    <3>1. Mirrored(i) BY <2>2, <2>5, <1>7
    <3>2. i \in DOMAIN records
      <4>1. SUFFICES ASSUME i \notin DOMAIN records PROVE FALSE OBVIOUS
      <4>2. i \notin DOMAIN array BY <3>1, <4>1, <1>8, <1>9 DEF Mirrored
      <4>3. PICK L \in Nat, N \in Nat : L = Len(records) /\ N = Len(array) BY <1>10
      <4>4. i > L /\ i > N BY <4>1, <4>2, <4>3, <1>10
      <4>5. m # L BY <4>3, <4>4
      <4>6. m \in at BY <4>3, <4>5, <1>11, <1>12
      <4>7. m \in 1..N BY <4>3, <4>6, <1>5, <1>8, <1>10 DEF at
      <4> QED BY <4>4, <4>7
    <3>3. i \in DOMAIN array /\ recs[records[i]].key = array[i].key BY <3>1, <3>2, <1>8, <1>9 DEF Mirrored, Shows
    <3>4. i <= Len(records)
      <4>1. PICK L \in Nat : L = Len(records) BY <1>10
      <4> QED BY <3>2, <4>1, <1>10
    <3>5. NextKeys(at)[i] = recs[records[i]].key BY <2>3, <2>5, <3>4
    <3> QED BY <3>3, <3>5
  <2> QED BY <2>4, <2>5
<1>14. DOMAIN NextKeys(at) = 1..m BY <1>9, <1>12 DEF NextKeys
<1>15. ASSUME UniqueKeys(KeysOf(arrays[coll.src])) PROVE UniqueKeys(NextKeys(at))
  <2>1. \A i, j \in DOMAIN array : array[i].key = array[j].key => i = j
    BY <1>8, <1>15 DEF UniqueKeys, IsInjective, KeysOf
  <2>2. \A i, j \in 1..m : NextKeys(at)[i] = NextKeys(at)[j] => i = j BY <2>1, <1>13
  <2> QED BY <2>2, <1>14 DEF UniqueKeys, IsInjective
<1> QED BY <1>5, <1>15 DEF at

LEMMA NestedStarted ==
  ASSUME CollGood, frames = <<>>, coll.status = "ready", cpubs # <<>>, cat = "early", cat' = "late",
         \A k \in DOMAIN cpubs[1].ops : cpubs[1].ops[k].kind = "nested",
         \A i \in NestedAt(cpubs[1].ops) :
           /\ i \in DOMAIN arrays[coll.src] /\ i \in DOMAIN coll.records
           /\ recs[coll.records[i]].key = ItemAt(coll.src, i).key,
         UNCHANGED <<arrays, crev, cpubs, recs, host>>,
         coll' = [coll EXCEPT !.status = "updating"], frames' = Append(frames, NestedFrame(cpubs[1]))
  PROVE CollGood'
<1>1. CollTypes BY DEF CollGood
<1>2. PICK ops, revision : ops = cpubs[1].ops /\ revision = cpubs[1].rev OBVIOUS
<1>3. ops \in Seq(EditType) /\ revision \in Nat
  <2>1. cpubs \in Seq(PubType) BY <1>1 DEF CollTypes
  <2>2. cpubs[1] \in PubType BY <2>1
  <2> QED BY <2>2, <1>2 DEF PubType
<1>4. PICK g : g = Frame("commit", coll.src, ops, revision) OBVIOUS
<1>5. /\ g \in FrameType /\ g.kind = "commit" /\ g.src = coll.src /\ g.ops = ops /\ g.rev = revision
      /\ g.within = (cpubs # <<>>) /\ g.staged = {} /\ g.i = 1 /\ g.old = coll.records /\ g.prior = coll.status
  <2>1. coll.src \in 1..2 BY <1>1, CollTyped
  <2> QED BY <2>1, <1>1, <1>3, <1>4, FrameTyped
<1>6. PICK list : list = [k \in DOMAIN ops |-> <<ops[k].at, coll.records[ops[k].at]>>] OBVIOUS
<1>7. \A k \in DOMAIN ops : ops[k].at \in NestedAt(ops) BY DEF NestedAt
<1>8. list \in Seq(Nat \X Nat)
  <2>1. coll.records \in Seq(Nat) BY <1>1, CollTyped
  <2>2. \A k \in DOMAIN ops : ops[k].at \in DOMAIN coll.records BY <1>2, <1>7
  <2>3. \A k \in DOMAIN ops : <<ops[k].at, coll.records[ops[k].at]>> \in Nat \X Nat BY <2>1, <2>2
  <2>4. DOMAIN ops = 1..Len(ops) /\ Len(ops) \in Nat BY <1>3
  <2>5. list \in [1..Len(ops) -> Nat \X Nat] BY <1>6, <2>3, <2>4
  <2> QED BY <2>4, <2>5, SeqDef
<1>9. PICK f : f = [g EXCEPT !.phase = "nested", !.list = list] OBVIOUS
<1>10. /\ f \in FrameType /\ f.kind = "commit" /\ f.src = coll.src /\ f.ops = ops /\ f.rev = revision /\ f.list = list
       /\ f.within = (cpubs # <<>>) /\ f.staged = {} /\ f.i = 1 /\ f.old = coll.records /\ f.prior = "ready"
       /\ f.phase = "nested"
  BY <1>5, <1>8, <1>9 DEF FrameType
<1>11. frames' = <<f>>
  <2>1. NestedFrame(cpubs[1]) = [Frame("commit", coll.src, cpubs[1].ops, cpubs[1].rev) EXCEPT
                                   !.phase = "nested",
                                   !.list = [k \in DOMAIN cpubs[1].ops |->
                                               <<cpubs[1].ops[k].at, coll.records[cpubs[1].ops[k].at]>>]]
    BY Zenon DEF NestedFrame
  <2>2. NestedFrame(cpubs[1]) = f
    <3> HIDE DEF Frame
    <3> QED BY <2>1, <1>2, <1>4, <1>6, <1>9
  <2>3. frames' = Append(frames, f) /\ frames = <<>> BY <2>2
  <2> QED BY <2>3
<1>12. frames'[1] = f /\ frames' # <<>> /\ Len(frames') = 1 BY <1>11
<1>13. /\ coll' \in CollType /\ coll'.status = "updating" /\ coll'.src = coll.src /\ coll'.records = coll.records
       /\ coll'.subscribed = coll.subscribed /\ coll'.why = coll.why
  BY <1>1 DEF CollTypes, CollType, CollStatus
<1>14. CollTypes' BY <1>1, <1>10, <1>11, <1>13 DEF CollTypes
<1>15. coll.subscribed BY DEF CollGood, ControlInv
<1>16. ControlOf(f)' BY <1>2, <1>10, <1>13, <1>15 DEF ControlOf, PriorOf
<1>17. ControlInv' BY <1>12, <1>13, <1>16 DEF CollGood, ControlInv
<1>18. HostInv'
  <2>1. Staged' = {} /\ Staged = {} BY <1>10, <1>12 DEF Staged
  <2> QED BY <2>1, <1>13 DEF CollGood, HostInv
<1>19. NestedOf(f)'
  <2>1. f.i <= Len(f.ops) + 1 BY <1>3, <1>10
  <2>2. \A k \in DOMAIN f.ops : ~(k < f.i)
    <3>1. \A k \in DOMAIN ops : k \in Nat \ {0} BY <1>3
    <3> QED BY <3>1, <1>10
  <2>3. \A k \in DOMAIN ops :
          LET at == ops[k].at
          IN /\ at \in DOMAIN coll.records /\ at \in DOMAIN arrays[coll.src]
             /\ recs[coll.records[at]].key = arrays[coll.src][at].key
    BY <1>2, <1>7 DEF ItemAt
  <2>4. f.list = [k \in DOMAIN f.ops |-> <<f.ops[k].at, coll'.records[f.ops[k].at]>>] BY <1>6, <1>10, <1>13
  <2>5. \A k \in DOMAIN f.ops : f.ops[k].kind = "nested" BY <1>2, <1>10
  <2>6. \A k \in DOMAIN f.ops :
          /\ f.ops[k].at \in DOMAIN coll'.records /\ f.ops[k].at \in DOMAIN arrays'[f.src]
          /\ recs'[coll'.records[f.ops[k].at]].key = arrays'[f.src][f.ops[k].at].key
    BY <2>3, <1>10, <1>13
  <2> QED BY <2>1, <2>2, <2>4, <2>5, <2>6, <1>10 DEF NestedOf
<1>20. FrameInv' BY <1>10, <1>12, <1>13, <1>19 DEF FrameInv
<1>21. ~Committing /\ Committing' BY <1>10, <1>12 DEF Committing
<1>22. MirrorInv'
  <2>1. SUFFICES ASSUME NEW j \in Position, ~Dirty(coll.src, j)', ~OpsTouch(ops, j) PROVE Mirrored(j)'
    BY <1>10, <1>12, <1>13, <1>21 DEF MirrorInv
  <2>2. ~Dirty(coll.src, j)
    <3>1. \A s, i : Dirty(s, i) => Dirty(s, i)' \/ (cpubs[1].src = s /\ OpsTouch(cpubs[1].ops, i)) BY <1>1, Delivered
    <3>2. Dirty(coll.src, j) => Dirty(coll.src, j)' \/ OpsTouch(ops, j) BY <3>1, <1>2, <1>13
    <3> QED BY <2>1, <3>2
  <2>3. Mirrored(j) BY <2>2, <1>21 DEF CollGood, MirrorInv
  <2> QED BY <2>3, <1>13 DEF Mirrored
<1>23. RevisionInv' BY <1>13 DEF CollGood, RevisionInv
<1>24. CauseInv' BY <1>13 DEF CollGood, CauseInv
<1> QED BY <1>14, <1>17, <1>18, <1>20, <1>22, <1>23, <1>24 DEF CollGood

LEMMA OnCommitGoesOn ==
  ASSUME CollGood, frames = <<>>, OnCommit
  PROVE CollGood'
<1>1. cpubs # <<>> /\ cat = "early" /\ cat' = "late" /\ UNCHANGED <<arrays, crev, cpubs>>
  BY DEF OnCommit, Delivering
<1>2. CollTypes /\ coll.status \in {"ready", "failed", "disposed"} /\ cpubs[1] \in PubType
  <2>1. cpubs \in Seq(PubType) BY DEF CollGood, CollTypes
  <2>2. cpubs[1] \in PubType BY <1>1, <2>1
  <2> QED BY <2>2 DEF CollGood, ControlInv
<1>3. CASE coll.status \in {"disposed", "failed"}
  <2>1. UNCHANGED <<coll, recs, host, frames>> BY <1>3 DEF OnCommit
  <2>2. ~Committing' /\ Staged' = Staged BY <2>1 DEF Committing, Staged
  <2>3. CollTypes' BY <1>1, <2>1 DEF CollGood, CollTypes
  <2>4. ControlInv' /\ FrameInv' BY <1>1, <2>1 DEF CollGood, ControlInv, FrameInv
  <2>5. HostInv' BY <2>1, <2>2 DEF CollGood, HostInv
  <2>6. MirrorInv' BY <2>1, <2>2, <1>3 DEF MirrorInv
  <2>7. RevisionInv' BY <1>1, <1>3, <2>1 DEF CollGood, RevisionInv
  <2>8. CauseInv' BY <1>1, <2>1 DEF CollGood, CauseInv
  <2> QED BY <2>3, <2>4, <2>5, <2>6, <2>7, <2>8 DEF CollGood
<1>4. CASE coll.status = "ready"
  <2>1. coll.src \in 1..2 /\ cpubs[1].ops \in Seq(EditType) /\ cpubs[1].rev \in Nat
    BY <1>2, CollTyped DEF PubType
  <2>2. CASE Begin(Frame("commit", coll.src, cpubs[1].ops, cpubs[1].rev))
    <3>1. coll.status \in PriorOf("commit") BY <1>4 DEF PriorOf
    <3>2. "commit" \in {"synchronize", "replace", "commit"} /\ ("commit" = "replace" <=> coll.src # coll.src) OBVIOUS
    <3>3. PICK kind : kind = "commit" OBVIOUS
    <3>4. PICK s, ops, revision : s = coll.src /\ ops = cpubs[1].ops /\ revision = cpubs[1].rev OBVIOUS
    <3>5. Begin(Frame(kind, s, ops, revision)) BY <2>2, <3>3, <3>4
    <3>6. kind \in {"synchronize", "replace", "commit"} /\ s \in 1..2 /\ ops \in Seq(EditType) /\ revision \in Nat
          /\ coll.status \in PriorOf(kind) /\ (kind = "replace" <=> s # coll.src)
      BY <2>1, <3>1, <3>3, <3>4
    <3>7. IF kind = "commit"
          THEN cpubs # <<>> /\ cat = "early" /\ cat' = "late" /\ ops = cpubs[1].ops /\ revision = cpubs[1].rev
          ELSE cat' = cat
      BY <1>1, <3>4, <3>3
    <3> QED BY <1>1, <3>5, <3>6, <3>7, BeginGoesOn
  <2>3. CASE OnNested(cpubs[1]) /\ \A k \in DOMAIN cpubs[1].ops : cpubs[1].ops[k].kind = "nested"
    <3>1. PICK at : at = NestedAt(cpubs[1].ops) OBVIOUS
    <3>2. PICK cause : cause = IF UniqueKeys(KeysOf(arrays[coll.src])) THEN "mismatch" ELSE "duplicate key" OBVIOUS
    <3>3. coll.why \cap FailedReasons = {} =>
            /\ \A i \in at : i \in DOMAIN arrays[coll.src]
            /\ UniqueKeys(KeysOf(arrays[coll.src])) => UniqueKeys(NextKeys(at))
      BY <1>1, <1>4, <2>3, <3>1, NestedKeys
    <3>4. CASE /\ (\E i \in at : i \notin DOMAIN arrays[coll.src]) \/ ~UniqueKeys(NextKeys(at))
               /\ coll' = Fails([kind |-> "commit"], cause) /\ UNCHANGED <<frames, recs, host>>
      <4>1. coll' = [coll EXCEPT !.status = "failed", !.why = @ \union {cause}] BY <3>4 DEF Fails
      <4>2. cause \in Reasons BY <3>2 DEF Reasons
      <4>3. cause \in FailedReasons \/ coll.why \cap FailedReasons # {}
        BY <3>2, <3>3, <3>4 DEF FailedReasons
      <4>4. cat' \in {cat, "late"} /\ coll.status \in {"ready", "failed"} BY <1>1, <1>4
      <4> QED BY <1>1, <3>4, <4>1, <4>2, <4>3, <4>4, FailedAtOnce
    <3>5. CASE /\ \A i \in at : i \in DOMAIN arrays[coll.src]
               /\ \A i \in at : i \in DOMAIN coll.records /\ recs[coll.records[i]].key = ItemAt(coll.src, i).key
               /\ frames' = Append(frames, NestedFrame(cpubs[1]))
               /\ coll' = [coll EXCEPT !.status = "updating"] /\ UNCHANGED <<recs, host>>
      BY <1>1, <1>4, <2>3, <3>1, <3>5, NestedStarted
    <3> QED BY <2>2, <2>3, <3>1, <3>2, <3>4, <3>5 DEF OnNested
  <2> QED BY <1>4, <2>2, <2>3 DEF OnCommit
<1> QED BY <1>2, <1>3, <1>4

LEMMA EndDeliveryGoesOn ==
  ASSUME CollGood, frames = <<>>, EndDelivery
  PROVE CollGood'
<1>1. /\ cpubs # <<>> /\ cat = "late" /\ cat' = "early"
      /\ UNCHANGED <<arrays, crev, coll, recs, host, frames>>
  BY DEF EndDelivery, Delivering
<1>2. PICK mine : mine = { pub \in Range(cpubs) : pub.src = coll.src } OBVIOUS
<1>3. PICK rest : rest = Tail(cpubs) OBVIOUS
<1>4. cpubs' = Retained(rest, mine) BY <1>2, <1>3 DEF EndDelivery
<1>5. cpubs \in Seq(PubType) /\ CollTypes BY DEF CollGood, CollTypes
<1>6. PICK n \in Nat : n = Len(cpubs) BY <1>5
<1>7. n # 0 BY <1>1, <1>5, <1>6, EmptySeq
<1>8. rest \in Seq(PubType) /\ Len(rest) = n - 1 /\ \A k \in 1..(n - 1) : rest[k] = cpubs[k + 1]
  BY <1>1, <1>3, <1>5, <1>6, <1>7
<1>9. Range(rest) = { cpubs[k] : k \in 2..n } /\ DOMAIN cpubs = 1..n
  <2>1. DOMAIN rest = 1..(n - 1) BY <1>8
  <2>2. \A k \in 2..n : k - 1 \in 1..(n - 1) /\ k - 1 + 1 = k BY <1>7
  <2>3. \A k \in 1..(n - 1) : k + 1 \in 2..n OBVIOUS
  <2>4. \A k \in 2..n : rest[k - 1] = cpubs[k] BY <1>8, <2>2
  <2>5. \A x \in Range(rest) : \E k \in 2..n : x = cpubs[k]
    <3>1. SUFFICES ASSUME NEW k \in 1..(n - 1) PROVE \E i \in 2..n : rest[k] = cpubs[i] BY <2>1 DEF Range
    <3> QED BY <2>3, <1>8
  <2>6. \A k \in 2..n : cpubs[k] \in Range(rest) BY <2>1, <2>2, <2>4 DEF Range
  <2>7. DOMAIN cpubs = 1..n BY <1>5, <1>6
  <2> QED BY <2>5, <2>6, <2>7
<1>10. cpubs' \in Seq(PubType) /\ Range(cpubs') = Range(rest) \cap mine
  <2>1. 0 \in 0..Len(rest) /\ \A i \in 1..0 : rest[i] \in mine BY <1>8
  <2> QED BY <2>1, <1>4, <1>8, KeptIs
<1>11. Ahead = 2..n /\ Ahead' = DOMAIN cpubs'
  <2>1. Ahead = { k \in 1..n : k > 1 } BY <1>1, <1>9 DEF Ahead
  <2>2. \A k : k \in 1..n /\ k > 1 <=> k \in 2..n OBVIOUS
  <2>3. { k \in 1..n : k > 1 } = 2..n BY <2>2
  <2>4. Ahead' = DOMAIN cpubs' BY <1>1 DEF Ahead
  <2> QED BY <2>1, <2>3, <2>4
<1>12. CollTypes' BY <1>1, <1>5, <1>10 DEF CollTypes
<1>13. \A k \in DOMAIN cpubs' : \E i \in 2..n : cpubs'[k] = cpubs[i]
  BY <1>9, <1>10 DEF Range
<1>14. ControlInv'
  <2>1. \A k \in DOMAIN cpubs' : OpsShape(cpubs'[k].ops) BY <1>9, <1>13 DEF CollGood, ControlInv
  <2> QED BY <2>1, <1>1 DEF CollGood, ControlInv
<1>15. ~Committing /\ ~Committing' /\ Staged' = Staged BY <1>1 DEF Committing, Staged
<1>16. HostInv' /\ FrameInv' BY <1>1, <1>15 DEF CollGood, HostInv, FrameInv
<1>17. MirrorInv'
  <2>1. SUFFICES ASSUME coll.status = "ready", NEW j \in Position, ~Dirty(coll.src, j)' PROVE Mirrored(j)'
    BY <1>1, <1>15 DEF MirrorInv
  <2>2. ~Dirty(coll.src, j)
    <3>1. SUFFICES ASSUME NEW k \in 2..n, cpubs[k].src = coll.src, OpsTouch(cpubs[k].ops, j) PROVE FALSE
      BY <1>11 DEF Dirty
    <3>2. cpubs[k] \in Range(rest) /\ cpubs[k] \in Range(cpubs) BY <1>9 DEF Range
    <3>3. cpubs[k] \in Range(cpubs') BY <3>1, <3>2, <1>2, <1>10
    <3>4. PICK i \in DOMAIN cpubs' : cpubs'[i] = cpubs[k] BY <3>3 DEF Range
    <3> QED BY <2>1, <3>1, <3>4, <1>1, <1>11 DEF Dirty
  <2>3. Mirrored(j) BY <2>1, <2>2, <1>15 DEF CollGood, MirrorInv
  <2> QED BY <2>3, <1>1 DEF Mirrored
<1>18. RevisionInv'
  <2>1. SUFFICES ASSUME "foreign" \notin coll.why
                 PROVE /\ \A k \in DOMAIN cpubs' : cpubs'[k].src = coll.src
                       /\ coll.subscribed /\ cpubs' # <<>> => cpubs'[Len(cpubs')].rev = crev[coll.src]
                       /\ coll.status = "ready" /\ Ahead' = {} => coll.last = crev[coll.src]
    BY <1>1 DEF RevisionInv
  <2>2. /\ \A k \in 1..n : cpubs[k].src = coll.src
        /\ coll.subscribed => cpubs[n].rev = crev[coll.src]
        /\ coll.status = "ready" /\ Ahead = {} => coll.last = crev[coll.src]
    BY <2>1, <1>1, <1>6, <1>9, <1>15 DEF CollGood, RevisionInv
  <2>3. cpubs' = rest
    <3>1. \A k \in 2..n : k \in 1..n OBVIOUS
    <3>2. Range(rest) \subseteq mine BY <2>2, <3>1, <1>2, <1>9 DEF Range
    <3> QED BY <3>2, <1>4, <1>8, KeptAll
  <2>4. \A k \in DOMAIN cpubs' : cpubs'[k].src = coll.src BY <2>2, <1>13
  <2>5. cpubs' # <<>> => n - 1 \in 1..(n - 1)
    <3>1. rest # <<>> => Len(rest) # 0 BY <1>8, EmptySeq
    <3>2. rest # <<>> => n - 1 # 0 BY <3>1, <1>8
    <3> QED BY <3>2, <2>3, <1>7
  <2>6. cpubs' # <<>> => cpubs'[Len(cpubs')] = cpubs[n]
    <3>1. Len(cpubs') = n - 1 BY <2>3, <1>8
    <3>2. n - 1 + 1 = n OBVIOUS
    <3> QED BY <2>3, <2>5, <3>1, <3>2, <1>8
  <2>7. Ahead' = {} => Ahead = {}
    <3>1. DOMAIN cpubs' = 1..(n - 1) BY <2>3, <1>8
    <3>2. SUFFICES ASSUME DOMAIN cpubs' = {} PROVE 2..n = {} BY <1>11
    <3>3. \A k \in 2..n : k - 1 \in 1..(n - 1) OBVIOUS
    <3> QED BY <3>1, <3>2, <3>3
  <2> QED BY <2>2, <2>4, <2>6, <2>7
<1>19. CauseInv'
  <2>1. ASSUME "re-entrant" \notin coll.why PROVE cpubs' = <<>> /\ Len(cpubs') <= 1
    <3>1. n <= 1 BY <2>1, <1>6 DEF CollGood, CauseInv
    <3>2. 2..n = {} BY <3>1
    <3>3. DOMAIN cpubs' = {} BY <3>2, <1>13
    <3>4. cpubs' = <<>>
      <4>1. Len(cpubs') \in Nat /\ DOMAIN cpubs' = 1..Len(cpubs') BY <1>10
      <4>2. PICK m \in Nat : m = Len(cpubs') BY <4>1
      <4>3. m = 0
        <5>1. m # 0 => 1 \in 1..m OBVIOUS
        <5> QED BY <5>1, <3>3, <4>1, <4>2
      <4> QED BY <4>2, <4>3, <1>10, EmptySeq
    <3> QED BY <3>4
  <2> QED BY <2>1, <1>1 DEF CollGood, CauseInv
<1> QED BY <1>12, <1>14, <1>16, <1>17, <1>18, <1>19 DEF CollGood

LEMMA DisposeGoesOn ==
  ASSUME CollGood, frames = <<>>, Dispose
  PROVE CollGood' /\ coll'.records = <<>>
<1>1. PICK d : d = Dead(recs, host, Range(coll.records)) OBVIOUS
<1>2. /\ recs' = d.recs /\ host' = d.host /\ UNCHANGED <<arrays, crev, cpubs, cat, frames>>
      /\ coll' = [coll EXCEPT !.status = "disposed", !.subscribed = FALSE, !.records = <<>>, !.why = coll.why]
  BY <1>1 DEF Dispose, Disposed, NoUpdate
<1>3. /\ recs \in Seq(RecordType) /\ host \in Seq(Nat) /\ coll \in CollType /\ CollTypes
  BY DEF CollGood, CollTypes
<1>4. /\ coll' \in CollType /\ coll'.status = "disposed" /\ coll'.src = coll.src /\ coll'.records = <<>>
      /\ ~coll'.subscribed /\ coll'.why = coll.why
  <2>1. <<>> \in Seq(Nat) OBVIOUS
  <2> QED BY <2>1, <1>2, <1>3 DEF CollType, CollStatus
<1>5. Staged = {} /\ Staged' = {} BY <1>2 DEF Staged
<1>6. host = coll.records /\ { i \in DOMAIN recs : recs[i].alive } = Range(coll.records)
      /\ Range(coll.records) \subseteq DOMAIN recs /\ IsInjective(coll.records)
  BY <1>5 DEF CollGood, HostInv
<1>7. /\ recs' \in Seq(RecordType) /\ DOMAIN recs' = DOMAIN recs
      /\ \A i \in DOMAIN recs : recs'[i].alive <=> recs[i].alive /\ i \notin Range(coll.records)
  BY <1>1, <1>2, <1>3, DeadIs
<1>8. host' = <<>>
  <2>1. \A i \in Range(host) : recs[i].alive BY <1>6
  <2>2. PICK set : set = Range(host) \ Range(coll.records) OBVIOUS
  <2>3. host' = Retained(host, set) BY <2>1, <2>2, <1>1, <1>2, <1>3, DeadHost
  <2>4. set = {} BY <2>2, <1>6
  <2>5. 0 \in 0..Len(host) /\ \A i \in 1..0 : host[i] \in set BY <1>3
  <2>6. host' \in Seq(Nat) /\ Range(host') = Range(host) \cap set BY <2>3, <2>5, <1>3, KeptIs
  <2>7. DOMAIN host' = {} BY <2>4, <2>6 DEF Range
  <2>8. PICK m \in Nat : m = Len(host') BY <2>6
  <2>9. m = 0
    <3>1. m # 0 => 1 \in 1..m OBVIOUS
    <3> QED BY <3>1, <2>6, <2>7, <2>8
  <2> QED BY <2>6, <2>8, <2>9, EmptySeq
<1>9. CollTypes'
  <2>1. <<>> \in Seq(Nat) OBVIOUS
  <2> QED BY <2>1, <1>2, <1>3, <1>4, <1>7, <1>8 DEF CollTypes
<1>10. ControlInv' BY <1>2, <1>4 DEF CollGood, ControlInv
<1>11. HostInv'
  <2>1. Range(<<>>) = {} /\ IsInjective(<<>>) BY DEF Range, IsInjective
  <2>2. { i \in DOMAIN recs' : recs'[i].alive } = {} BY <1>6, <1>7
  <2> QED BY <2>1, <2>2, <1>4, <1>5, <1>8 DEF HostInv
<1>12. FrameInv' BY <1>2 DEF FrameInv
<1>13. MirrorInv' BY <1>2, <1>4 DEF MirrorInv, Committing
<1>14. RevisionInv' BY <1>2, <1>4 DEF CollGood, RevisionInv
<1>15. CauseInv' BY <1>2, <1>4 DEF CollGood, CauseInv
<1> QED BY <1>4, <1>9, <1>10, <1>11, <1>12, <1>13, <1>14, <1>15 DEF CollGood

LEMMA SynchronizeGoesOn ==
  ASSUME CollGood, frames = <<>>, Synchronize
  PROVE CollGood'
<1>1. coll.status \in {"ready", "failed"} BY DEF CollGood, ControlInv, Synchronize, Usable
<1>2. PICK kind, s, ops, revision : kind = "synchronize" /\ s = coll.src /\ ops = <<>> /\ revision = 0 OBVIOUS
<1>3. Begin(Frame(kind, s, ops, revision)) /\ UNCHANGED <<arrays, crev, cpubs, cat>> BY <1>2 DEF Synchronize
<1>4. /\ kind \in {"synchronize", "replace", "commit"} /\ s \in 1..2 /\ ops \in Seq(EditType) /\ revision \in Nat
      /\ coll.status \in PriorOf(kind) /\ (kind = "replace" <=> s # coll.src) /\ kind # "commit"
  BY <1>1, <1>2, CollTyped DEF CollGood, PriorOf
<1> QED BY <1>3, <1>4, BeginGoesOn

LEMMA ReplaceSourceGoesOn ==
  ASSUME CollGood, frames = <<>>, NEW s \in DOMAIN arrays, ReplaceSource(s)
  PROVE CollGood'
<1>1. coll.status \in {"ready", "failed"} BY DEF CollGood, ControlInv, ReplaceSource, Usable
<1>2. PICK kind, ops, revision : kind = "replace" /\ ops = <<>> /\ revision = 0 OBVIOUS
<1>3. Begin(Frame(kind, s, ops, revision)) /\ UNCHANGED <<arrays, crev, cpubs, cat>> BY <1>2 DEF ReplaceSource
<1>4. s \in 1..2 /\ s # coll.src BY DEF CollGood, CollTypes, ReplaceSource
<1>5. /\ kind \in {"synchronize", "replace", "commit"} /\ ops \in Seq(EditType) /\ revision \in Nat
      /\ coll.status \in PriorOf(kind) /\ (kind = "replace" <=> s # coll.src) /\ kind # "commit"
  BY <1>1, <1>2, <1>4 DEF PriorOf
<1> QED BY <1>3, <1>4, <1>5, BeginGoesOn

(* A reflector under construction. *)
LEMMA CollStarts ==
  ASSUME CollectionInit
  PROVE CollInv
<1> USE DEF CollectionInit
<1>1. FirstItems \in [1..2 -> Seq(Item)] BY CollectionAssumption DEF CollectionAssumption, Item
<1>2. CollTypes
  <2>1. coll \in CollType
    <3>1. {} \in SUBSET Reasons /\ 0 \in Nat /\ 1 \in 1..2 /\ <<>> \in Seq(Nat) OBVIOUS
    <3> QED BY <3>1 DEF CollType, CollStatus
  <2>2. crev \in [1..2 -> Nat] OBVIOUS
  <2>3. Frame("initial", 1, <<>>, 0) \in FrameType
    <3>1. arrays[1] \in Seq(Item) /\ coll.records \in Seq(Nat) /\ coll.status \in CollStatus
          /\ <<>> \in Seq(Nat) /\ <<>> \in Seq(Nat \X Nat) /\ {} \in SUBSET Nat /\ 1 \in Position
          /\ (cpubs # <<>>) \in BOOLEAN /\ <<>> \in Seq(EditType) /\ 0 \in Nat /\ 1 \in 1..2
      BY <1>1, <2>1 DEF CollType, Position
    <3> QED BY <3>1 DEF Frame, FrameType
  <2>4. frames \in Seq(FrameType) BY <2>3
  <2> QED BY <1>1, <2>1, <2>2, <2>4 DEF CollTypes
<1>3. PICK f : f = Frame("initial", 1, <<>>, 0) OBVIOUS
<1>4. /\ f.kind = "initial" /\ f.src = 1 /\ f.ops = <<>> /\ f.within = (cpubs # <<>>) /\ f.desired = arrays[1]
      /\ f.ids = <<>> /\ f.staged = {} /\ f.phase = "create" /\ f.i = 1 /\ f.old = coll.records /\ f.prior = coll.status
  BY <1>3 DEF Frame
<1>5. frames = <<f>> /\ frames[1] = f /\ frames # <<>> /\ Len(frames) = 1 BY <1>3
<1>6. ControlInv
  <2>1. crev[1] = 0 /\ coll.status = "initializing" OBVIOUS
  <2>2. ControlOf(f) BY <2>1, <1>4 DEF ControlOf, PriorOf
  <2> QED BY <2>1, <2>2, <1>5 DEF ControlInv
<1>7. HostInv
  <2>1. Range(<<>>) = {} /\ IsInjective(<<>>) /\ DOMAIN <<>> = {} BY DEF Range, IsInjective
  <2>2. Staged = {} BY <1>4, <1>5 DEF Staged
  <2> QED BY <2>1, <2>2 DEF HostInv
<1>8. FrameInv
  <2>1. IsInjective(KeysOf(f.desired)) BY <1>4, CollectionAssumption DEF CollectionAssumption, KeysOf
  <2>2. f.i <= Len(f.desired) + 1 /\ Len(f.ids) = f.i - 1 /\ DOMAIN f.ids = {} /\ f.staged \subseteq Range(f.ids)
    <3>1. Len(arrays[1]) \in Nat BY <1>1
    <3> QED BY <3>1, <1>4
  <2>3. \A j : Agree(f.desired, arrays[f.src], j) BY <1>4 DEF Agree
  <2>4. BranchesOf(f) BY <1>4, <2>1, <2>2, <2>3 DEF BranchesOf
  <2> QED BY <2>4, <1>4, <1>5 DEF FrameInv
<1>9. MirrorInv BY <1>4, <1>5 DEF MirrorInv, Committing
<1>10. RevisionInv BY DEF RevisionInv
<1>11. CauseInv BY DEF CauseInv
<1> QED BY <1>2, <1>6, <1>7, <1>8, <1>9, <1>10, <1>11 DEF CollGood, CollInv

LEMMA CollGoesOn ==
  ASSUME CollInv, [CollectionNext]_collVars
  PROVE CollInv'
<1>1. "why" \in DOMAIN coll' /\ (Undisturbed' => Undisturbed) BY StaysDisturbed DEF CollInv
<1>2. SUFFICES ASSUME Undisturbed' PROVE CollGood' BY <1>1 DEF CollInv
<1>3. CollGood BY <1>1, <1>2 DEF CollInv
<1>4. CollTypes /\ ControlInv BY <1>3 DEF CollGood
<1>5. CASE UNCHANGED collVars
  <2>1. UNCHANGED <<arrays, crev, cpubs, cat, coll, recs, host, frames>> BY <1>5 DEF collVars
  <2>2. Ahead' = Ahead /\ (\A t, j : Dirty(t, j)' <=> Dirty(t, j)) BY <2>1, SameAhead
  <2>3. Committing' = Committing /\ Staged' = Staged BY <2>1 DEF Committing, Staged
  <2>4. CollTypes' BY <2>1, <1>4 DEF CollTypes
  <2>5. ControlInv' BY <2>1, <1>4 DEF ControlInv, ControlOf
  <2>6. HostInv' BY <2>1, <2>3, <1>3 DEF CollGood, HostInv
  <2>7. FrameInv'
    <3>1. \A f, j : Fresh(f, j)' <=> Fresh(f, j) BY <2>1 DEF Fresh
    <3>2. \A f : BranchesOf(f)' <=> BranchesOf(f)
      <4>1. SUFFICES ASSUME NEW f PROVE BranchesOf(f)' <=> BranchesOf(f) OBVIOUS
      <4> QED BY <2>1, <2>2, <3>1 DEF BranchesOf
    <3>3. \A f : NestedOf(f)' <=> NestedOf(f)
      <4>1. SUFFICES ASSUME NEW f PROVE NestedOf(f)' <=> NestedOf(f) OBVIOUS
      <4> QED BY <2>1, <2>2 DEF NestedOf
    <3> QED BY <3>2, <3>3, <2>1, <1>3 DEF CollGood, FrameInv
  <2>8. MirrorInv' /\ RevisionInv' /\ CauseInv'
    BY <2>1, <2>2, <2>3, <1>3 DEF CollGood, MirrorInv, Mirrored, RevisionInv, CauseInv
  <2> QED BY <2>4, <2>5, <2>6, <2>7, <2>8 DEF CollGood
<1>6. CASE CollectionNext /\ frames = <<>>
  <2>1. ~Running /\ ~AtHook BY <1>4, <1>6, OneFrame DEF AtHook
  <2>2. \/ CommitArray \/ Synchronize \/ (\E s \in DOMAIN arrays : ReplaceSource(s))
        \/ Dispose \/ OnCommit \/ EndDelivery
    BY <1>6, <2>1 DEF CollectionNext, Reuse, Render, BeginUpdates, Update, PassOver, Attach, EndNested,
                      HookThrows, HookWrites, HookDisposes
  <2>3. CASE CommitArray BY <2>3, <1>3, <1>6, CommitArrayGoesOn
  <2>4. CASE Synchronize BY <2>4, <1>3, <1>6, SynchronizeGoesOn
  <2>5. CASE \E s \in DOMAIN arrays : ReplaceSource(s) BY <2>5, <1>3, <1>6, ReplaceSourceGoesOn
  <2>6. CASE Dispose BY <2>6, <1>3, <1>6, DisposeGoesOn
  <2>7. CASE OnCommit BY <2>7, <1>3, <1>6, OnCommitGoesOn
  <2>8. CASE EndDelivery BY <2>8, <1>3, <1>6, EndDeliveryGoesOn
  <2> QED BY <2>2, <2>3, <2>4, <2>5, <2>6, <2>7, <2>8
<1>7. CASE CollectionNext /\ frames # <<>>
  <2>1. ~FromOutside /\ ~Delivering BY <1>4, <1>7, OneFrame
  <2>2. PICK f \in FrameType : frames = <<f>> BY <1>4, <1>7, OneFrame
  <2>3. \/ Reuse \/ Render \/ BeginUpdates \/ Update \/ PassOver \/ Attach \/ EndNested
        \/ HookThrows \/ HookWrites \/ HookDisposes
    BY <1>7, <2>1 DEF CollectionNext, CommitArray, Synchronize, ReplaceSource, Dispose, OnCommit, EndDelivery
  <2>4. CASE Reuse BY <2>4, <2>2, <1>3, ReuseGoesOn
  <2>5. CASE Render BY <2>5, <2>2, <1>3, RenderGoesOn
  <2>6. CASE BeginUpdates BY <2>6, <2>2, <1>3, BeginUpdatesGoesOn
  <2>7. CASE Update
    <3>1. Top = f BY <2>2, TheFrame
    <3>2. f.phase \in {"update", "nested"} BY <2>7, <3>1 DEF Update, FrameType
    <3> QED BY <2>7, <3>2, <2>2, <1>3, UpdateGoesOn, NestedUpdateGoesOn
  <2>8. CASE PassOver BY <2>8, <2>2, <1>3, PassOverGoesOn
  <2>9. CASE Attach BY <2>9, <2>2, <1>3, AttachGoesOn
  <2>10. CASE EndNested BY <2>10, <2>2, <1>3, EndNestedGoesOn
  <2>11. CASE HookThrows BY <2>11, <2>2, <1>3, HookThrowsGoesOn
  <2>12. CASE HookWrites BY <2>12, <2>2, <1>2, <1>3, HookWritesGoesOn
  <2>13. CASE HookDisposes
    <3>1. coll' = [coll EXCEPT !.status = "disposed", !.subscribed = FALSE, !.records = <<>>,
                               !.why = @ \union {"disposed in a hook"}]
      BY <2>13, <1>7 DEF HookDisposes, Disposed, NoUpdate
    <3>2. "disposed in a hook" \in coll'.why BY <3>1, <1>4, CollTyped
    <3> QED BY <3>2, <1>2 DEF Undisturbed
  <2> QED BY <2>3, <2>4, <2>5, <2>6, <2>7, <2>8, <2>9, <2>10, <2>11, <2>12, <2>13
<1> QED BY <1>5, <1>6, <1>7

(* Between updates, and with nothing left to publish, the branches are those  *)
(* of the items.                                                              *)
LEMMA CollShows ==
  ASSUME CollInv
  PROVE CollectionExact
<1>1. Undisturbed => CollGood BY DEF CollInv
<1>2. CollectionMirrors
  <2>1. SUFFICES ASSUME AtRest, coll.status = "ready"
                 PROVE /\ [i \in DOMAIN coll.records |->
                             [key |-> recs[coll.records[i]].key, val |-> recs[coll.records[i]].shown]] = arrays[coll.src]
                       /\ "foreign" \notin coll.why => coll.last = crev[coll.src]
    BY DEF CollectionMirrors
  <2>2. CollGood /\ frames = <<>> /\ cpubs = <<>> BY <2>1, <1>1 DEF AtRest, NoUpdate
  <2>3. Ahead = {} /\ (\A s, j : ~Dirty(s, j)) /\ ~Committing BY <2>2 DEF Ahead, Dirty, Committing
  <2>4. \A j \in Position : Mirrored(j) BY <2>1, <2>2, <2>3 DEF CollGood, MirrorInv
  <2>5. PICK array : array = arrays[coll.src] OBVIOUS
  <2>6. PICK records : records = coll.records OBVIOUS
  <2>7. array \in Seq(Item) /\ records \in Seq(Nat)
    <3>1. coll.src \in 1..2 /\ coll.records \in Seq(Nat) BY <2>2, CollTyped DEF CollGood
    <3> QED BY <3>1, <2>2, <2>5, <2>6 DEF CollGood, CollTypes
  <2>8. \A j \in DOMAIN array \cup DOMAIN records :
          /\ j \in DOMAIN records /\ j \in DOMAIN array
          /\ recs[records[j]].key = array[j].key /\ recs[records[j]].shown = array[j].val
    <3>1. SUFFICES ASSUME NEW j \in DOMAIN array \cup DOMAIN records
                   PROVE /\ j \in DOMAIN records /\ j \in DOMAIN array
                         /\ recs[records[j]].key = array[j].key /\ recs[records[j]].shown = array[j].val
      OBVIOUS
    <3>2. j \in Position BY <2>7 DEF Position
    <3> QED BY <3>1, <3>2, <2>4, <2>5, <2>6 DEF Mirrored, Shows
  <2>9. DOMAIN array = DOMAIN records BY <2>8
  <2>10. \A j \in DOMAIN records :
           [key |-> recs[records[j]].key, val |-> recs[records[j]].shown] = array[j]
    <3>1. SUFFICES ASSUME NEW j \in DOMAIN records
                   PROVE [key |-> recs[records[j]].key, val |-> recs[records[j]].shown] = array[j]
      OBVIOUS
    <3>2. array[j] \in Item BY <2>7, <2>9
    <3>3. array[j] = [key |-> array[j].key, val |-> array[j].val] BY <3>2 DEF Item
    <3> QED BY <3>3, <2>8
  <2>11. array = [j \in DOMAIN array |-> array[j]] BY <2>7
  <2>12. [j \in DOMAIN records |-> [key |-> recs[records[j]].key, val |-> recs[records[j]].shown]] = array
    BY <2>9, <2>10, <2>11
  <2>13. "foreign" \notin coll.why => coll.last = crev[coll.src]
    BY <2>1, <2>2, <2>3 DEF CollGood, RevisionInv
  <2> QED BY <2>5, <2>6, <2>12, <2>13
<1>3. HostHoldsTheRecords
  <2>1. SUFFICES ASSUME NoUpdate, Undisturbed
                 PROVE host = coll.records /\ { i \in DOMAIN recs : recs[i].alive } = Range(coll.records)
    BY DEF HostHoldsTheRecords
  <2>2. Staged = {} BY <2>1 DEF Staged, NoUpdate
  <2> QED BY <2>1, <2>2, <1>1 DEF CollGood, HostInv
<1>4. FailsForCause BY <1>1 DEF CollGood, CauseInv, FailsForCause
<1> QED BY <1>2, <1>3, <1>4 DEF CollectionExact

(* Only an attachment and a disposal change which branches there are. *)
LEMMA BranchesStay ==
  ASSUME "records" \in DOMAIN coll, [CollectionNext]_collVars, ~Attach, ~Dispose, ~HookDisposes
  PROVE coll'.records = coll.records
<1> DEFINE Keeps == coll'.records = coll.records
<1>1. ASSUME NEW f, coll' = Settle(f) PROVE Keeps
  <2> DEFINE base == [coll EXCEPT !.status = "ready",
                           !.last = CASE f.kind = "commit" -> f.rev
                                      [] f.kind = "initial" -> @
                                      [] OTHER -> crev[f.src]]
  <2>1. base.records = coll.records /\ "records" \in DOMAIN base OBVIOUS
  <2> HIDE DEF base
  <2>2. Settle(f) \in { [base EXCEPT !.subscribed = TRUE],
           [base EXCEPT !.src = f.src, !.subscribed = TRUE, !.why = @ \union (IF f.within THEN {"foreign"} ELSE {})],
           [base EXCEPT !.why = @ \intersect Lasting], base }
    BY DEF Settle, base
  <2>3. Settle(f).records = base.records
    <3>1. CASE Settle(f) = [base EXCEPT !.subscribed = TRUE] BY <2>1, <3>1
    <3>2. CASE Settle(f) = [base EXCEPT !.src = f.src, !.subscribed = TRUE,
                                        !.why = @ \union (IF f.within THEN {"foreign"} ELSE {})]
      BY <2>1, <3>2
    <3>3. CASE Settle(f) = [base EXCEPT !.why = @ \intersect Lasting] BY <2>1, <3>3
    <3>4. CASE Settle(f) = base BY <3>4
    <3> QED BY <2>2, <3>1, <3>2, <3>3, <3>4
  <2> QED BY <1>1, <2>1, <2>3
<1>2. ASSUME NEW f, NEW cause, coll' = Fails(f, cause) PROVE Keeps
  <2>1. Fails(f, cause) \in { [coll EXCEPT !.status = "disposed"], coll, [coll EXCEPT !.status = f.prior],
                              [coll EXCEPT !.status = "failed", !.why = @ \union {cause}] }
    BY DEF Fails
  <2> QED BY <1>2, <2>1
<1>3. ASSUME NEW f, Begin(f) PROVE Keeps
  <2>1. CASE coll' = Fails(f, "duplicate key") BY <2>1, <1>2
  <2>2. CASE coll' = coll BY <2>2
  <2> QED BY <1>3, <2>1, <2>2 DEF Begin
<1>4. CASE UNCHANGED collVars BY <1>4 DEF collVars
<1>5. CASE Reuse \/ Render \/ Update \/ PassOver BY <1>5 DEF Reuse, Render, Update, PassOver
<1>6. CASE BeginUpdates BY <1>6 DEF BeginUpdates
<1>7. CASE EndNested BY <1>7, <1>1 DEF EndNested
<1>8. CASE HookThrows BY <1>8, <1>2 DEF HookThrows
<1>9. CASE HookWrites BY <1>9 DEF HookWrites
<1>10. CASE CommitArray BY <1>10 DEF CommitArray
<1>11. CASE Synchronize BY <1>11, <1>3 DEF Synchronize
<1>12. ASSUME NEW s \in DOMAIN arrays, ReplaceSource(s) PROVE Keeps BY <1>12, <1>3 DEF ReplaceSource
<1>13. CASE OnCommit
  <2>1. CASE OnNested(cpubs[1])
    <3>1. \/ \E cause : coll' = Fails([kind |-> "commit"], cause)
          \/ \E f : Begin(f)
          \/ coll' = [coll EXCEPT !.status = "updating"]
      BY <2>1 DEF OnNested
    <3> QED BY <3>1, <1>2, <1>3
  <2> QED BY <1>13, <1>3, <2>1 DEF OnCommit
<1>14. CASE EndDelivery BY <1>14 DEF EndDelivery
<1> QED BY <1>4, <1>5, <1>6, <1>7, <1>8, <1>9, <1>10, <1>11, <1>12, <1>13, <1>14 DEF CollectionNext

LEMMA SameItemSameBranch ==
  ASSUME CollInv, [CollectionNext]_collVars, Undisturbed, Undisturbed',
         NEW i \in Range(coll.records), NEW j \in Range(coll'.records), recs'[i].key = recs'[j].key
  PROVE i = j
<1>1. CollGood /\ CollGood' BY CollGoesOn DEF CollInv
<1>2. "records" \in DOMAIN coll /\ CollTypes /\ ControlInv BY <1>1, CollTyped DEF CollGood
<1>3. CASE coll'.records = coll.records BY <1>1, <1>3 DEF CollGood, HostInv
<1>4. CASE Attach
  <2>1. frames # <<>> BY <1>2, <1>4, OneFrame DEF Attach
  <2>2. PICK f \in FrameType : frames = <<f>> BY <1>2, <2>1, OneFrame
  <2>3. coll'.records = f.ids /\ BranchesOf(f) /\ \A x \in DOMAIN recs : recs'[x].key = recs[x].key
    BY <1>1, <1>4, <2>2, AttachGoesOn
  <2>4. j \in Range(coll.records) \cup f.staged BY <2>3 DEF BranchesOf, Range
  <2>5. /\ Staged = f.staged /\ Range(coll.records) \subseteq DOMAIN recs /\ f.staged \subseteq DOMAIN recs
        /\ \A a, b \in Range(coll.records) : recs[a].key = recs[b].key => a = b
        /\ \A s \in f.staged, r \in Range(coll.records) : recs[s].key # recs[r].key
    BY <1>1, <2>2 DEF CollGood, HostInv, Staged
  <2>6. recs[i].key = recs[j].key BY <2>3, <2>4, <2>5
  <2> QED BY <2>4, <2>5, <2>6
<1>5. CASE Dispose
  <2>1. frames = <<>> BY <1>2, <1>5, OneFrame DEF Dispose
  <2>2. coll'.records = <<>> BY <1>1, <1>5, <2>1, DisposeGoesOn
  <2> QED BY <2>2 DEF Range
<1>6. CASE HookDisposes
  <2>1. frames # <<>> BY <1>2, <1>6, OneFrame DEF HookDisposes, AtHook
  <2>2. coll' = [coll EXCEPT !.status = "disposed", !.subscribed = FALSE, !.records = <<>>,
                             !.why = @ \union {"disposed in a hook"}]
    BY <1>6, <2>1 DEF HookDisposes, Disposed, NoUpdate
  <2>3. "disposed in a hook" \in coll'.why BY <2>2, <1>2, CollTyped
  <2> QED BY <2>3 DEF Undisturbed
<1> QED BY <1>2, <1>3, <1>4, <1>5, <1>6, BranchesStay

\* However updates, hooks that throw or write, commits, replacements of the
\* source and disposals follow one another, a ready collection at rest shows
\* the items of its source in order, the host holds exactly the live branches
\* of the records, and a collection that failed was given a reason to.
THEOREM CollectionStaysExact == CollectionInit /\ [][CollectionNext]_collVars => []CollectionExact
<1>1. CollectionInit => CollInv BY CollStarts
<1>2. CollInv /\ [CollectionNext]_collVars => CollInv' BY CollGoesOn
<1>3. CollInv => CollectionExact BY CollShows
<1> QED BY <1>1, <1>2, <1>3, PTL

\* An item that stays in the array, moved or changed, keeps its branch.
THEOREM ItemsKeepTheirBranches == CollectionInit /\ [][CollectionNext]_collVars => ItemKeepsBranch
<1>1. CollectionInit => CollInv BY CollStarts
<1>2. CollInv /\ [CollectionNext]_collVars => CollInv' BY CollGoesOn
<1>3. CollInv /\ [CollectionNext]_collVars
        => [Undisturbed /\ Undisturbed' =>
              \A i \in Range(coll.records), j \in Range(coll'.records) :
                recs'[i].key = recs'[j].key => i = j]_collVars
  BY SameItemSameBranch
<1> QED BY <1>1, <1>2, <1>3, PTL DEF ItemKeepsBranch
================================================================================
