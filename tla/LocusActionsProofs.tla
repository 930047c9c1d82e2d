------------------------- MODULE LocusActionsProofs -------------------------
(***************************************************************************)
(* ActionsOnce, for any attempts, requests, connections and limits of the  *)
(* store: a request runs once, everybody who is told an outcome is told    *)
(* the same one, and what the store remembers stays bounded.               *)
(*                                                                         *)
(* The store knows a request as long as it has a record or a tombstone.    *)
(* What it does not know ran as often as it was forgotten, so a run that   *)
(* starts on an unknown request is at most one more (RunsInv); and nobody  *)
(* can be told of a request that was never forgotten but what its one run  *)
(* left in its record (ToldInv).                                           *)
(***************************************************************************)
EXTENDS LocusActions, SequenceTheorems, TLAPS

Kinds == {"none"} \cup Delivered \cup Refused
Verdicts == [kind : Kinds, run : Nat, ok : BOOLEAN]
Early == {"unsent", "sent", "dropped", "thrown", "authorizing"}
Late == {"resolved", "answered", "suppressed"}

HasOutcome(a) == stage[a] \in Late /\ verdict[a].kind \in Delivered
Known(r) == record[r] # "none" \/ r \in SeqRange(tombs)

DataInv ==
  /\ scenario \in Scenario
  /\ via \in [Attempt -> Conn \cup {NoConn}]
  /\ stage \in [Attempt -> Early \cup {"waiting"} \cup Late]
  /\ verdict \in [Attempt -> Verdicts]
  /\ promise \in [Attempt -> {"none", "pending", "settled", "rejected"}]
  /\ storeGone \in BOOLEAN
  /\ record \in [Request -> {"none", "pending", "terminal"}]
  /\ content \in [Request -> Nat] /\ outcome \in [Request -> Verdicts]
  /\ terminals \in Seq(Request) /\ tombs \in Seq(Request)
  /\ running \in SUBSET Request
  /\ runs \in [Request -> Nat] /\ effects \in [Request -> Nat] /\ forgotten \in [Request -> Nat]

Distinct(q) == \A i, j \in 1..Len(q) : q[i] = q[j] => i = j

\* The lists of the store.
ListsInv == StoreBounded /\ Distinct(terminals)

\* What a request did, and what the store knows of it.
RunsInv == \A r \in Request :
  /\ effects[r] <= runs[r] /\ (r \in running => effects[r] < runs[r])
  /\ runs[r] <= 1 + forgotten[r]
  /\ ~storeGone => (record[r] = "pending" <=> r \in running)
  /\ ~storeGone /\ ~Known(r) => runs[r] <= forgotten[r]
  /\ storeGone => record[r] = "none"
  /\ record[r] # "none" => runs[r] > 0
  /\ record[r] = "terminal" =>
       outcome[r].kind = "executed" /\ outcome[r].run = runs[r] /\ (outcome[r].ok => effects[r] > 0)

\* What an attempt waits for, or was told.
WaitInv == \A a \in Attempt :
  /\ stage[a] \in Early => verdict[a].kind = "none"
  /\ stage[a] = "waiting" =>
       /\ verdict[a].kind \in {"executed", "joined"} /\ verdict[a].run = runs[ReqOf(a)]
       /\ record[ReqOf(a)] = "pending" /\ content[ReqOf(a)] = ContentOf(a)

ToldInv == \A a \in Attempt : HasOutcome(a) =>
  LET r == ReqOf(a)
  IN  /\ verdict[a].run > 0 /\ verdict[a].run <= runs[r]
      /\ verdict[a].ok => effects[r] > 0
      /\ forgotten[r] = 0 =>
           /\ record[r] # "pending"
           /\ record[r] = "terminal" => outcome[r].ok = verdict[a].ok /\ content[r] = ContentOf(a)

AgreeInv == \A a, b \in Attempt :
  HasOutcome(a) /\ HasOutcome(b) /\ ReqOf(a) = ReqOf(b) /\ forgotten[ReqOf(a)] = 0 =>
    verdict[a].ok = verdict[b].ok /\ ContentOf(a) = ContentOf(b)

ActionInv == DataInv /\ ListsInv /\ RunsInv /\ WaitInv /\ ToldInv /\ AgreeInv

-----------------------------------------------------------------------------
(* Sequences *)

LEMMA RangeIs ==
  ASSUME NEW q \in Seq(Request)
  PROVE  SeqRange(q) \subseteq Request /\ \A x : x \in SeqRange(q) <=> \E i \in 1..Len(q) : q[i] = x
BY DEF SeqRange

LEMMA Appended ==
  ASSUME NEW q \in Seq(Request), NEW r \in Request, NEW t, t = Append(q, r)
  PROVE  /\ t \in Seq(Request) /\ t # << >> /\ Len(t) = Len(q) + 1 /\ Len(q) \in Nat
         /\ SeqRange(t) = SeqRange(q) \cup {r}
         /\ Distinct(q) /\ r \notin SeqRange(q) => Distinct(t)
<1>1. /\ t \in Seq(Request) /\ t # << >> /\ Len(t) = Len(q) + 1 /\ Len(q) \in Nat
      /\ \A i \in 1..Len(q) : t[i] = q[i]
      /\ t[Len(q) + 1] = r
  BY AppendProperties
<1>2. /\ \A i \in 1..Len(t) : i \in 1..Len(q) \/ i = Len(q) + 1
      /\ \A i \in 1..Len(q) : i \in 1..Len(t)
      /\ Len(q) + 1 \in 1..Len(t)
  BY <1>1
<1>0. /\ \A x : x \in SeqRange(q) <=> \E i \in 1..Len(q) : q[i] = x
      /\ \A x : x \in SeqRange(t) <=> \E i \in 1..Len(t) : t[i] = x
  BY <1>1, RangeIs
<1>3. \A x : x \in SeqRange(t) <=> x \in SeqRange(q) \/ x = r
  BY <1>0, <1>1, <1>2
<1>4. ASSUME Distinct(q), r \notin SeqRange(q), NEW i \in 1..Len(t), NEW j \in 1..Len(t), t[i] = t[j]
      PROVE  i = j
  <2>1. \A k \in 1..Len(q) : q[k] # r
    BY <1>4, RangeIs
  <2>. QED
    BY <1>1, <1>2, <1>4, <2>1 DEF Distinct
<1>. QED
  BY <1>1, <1>3, <1>4 DEF Distinct

LEMMA Shifted ==
  ASSUME NEW q \in Seq(Request), q # << >>, NEW t, t = Tail(q)
  PROVE  /\ t \in Seq(Request) /\ Len(t) = Len(q) - 1 /\ Len(q) \in Nat \ {0} /\ Head(q) \in Request
         /\ SeqRange(t) \subseteq SeqRange(q) /\ SeqRange(q) = SeqRange(t) \cup {Head(q)}
         /\ Distinct(q) => Distinct(t) /\ Head(q) \notin SeqRange(t)
<1>1. /\ t \in Seq(Request) /\ Len(t) = Len(q) - 1 /\ Len(q) \in Nat \ {0} /\ Head(q) \in Request
      /\ \A i \in 1..Len(t) : t[i] = q[i + 1]
      /\ Head(q) = q[1]
  BY HeadTailProperties, EmptySeq
<1>2. /\ \A i \in 1..Len(t) : i + 1 \in 1..Len(q) /\ i + 1 # 1
      /\ \A i \in 1..Len(q) : i = 1 \/ (i - 1 \in 1..Len(t) /\ (i - 1) + 1 = i)
      /\ 1 \in 1..Len(q)
  BY <1>1
<1>0. /\ \A x : x \in SeqRange(q) <=> \E i \in 1..Len(q) : q[i] = x
      /\ \A x : x \in SeqRange(t) <=> \E i \in 1..Len(t) : t[i] = x
  BY <1>1, RangeIs
<1>3. \A x : x \in SeqRange(t) => x \in SeqRange(q)
  BY <1>0, <1>1, <1>2
<1>4. \A x : x \in SeqRange(q) => x = Head(q) \/ x \in SeqRange(t)
  <2>. SUFFICES ASSUME NEW i \in 1..Len(q) PROVE q[i] = Head(q) \/ q[i] \in SeqRange(t)
    BY <1>0
  <2>1. CASE i = 1
    BY <1>1, <2>1
  <2>2. CASE i # 1
    <3>1. i - 1 \in 1..Len(t) /\ t[i - 1] = q[i]
      BY <1>1, <1>2, <2>2
    <3>. QED
      BY <1>0, <3>1
  <2>. QED
    BY <2>1, <2>2
<1>5. Head(q) \in SeqRange(q)
  BY <1>0, <1>1, <1>2
<1>6. ASSUME Distinct(q) PROVE Distinct(t) /\ Head(q) \notin SeqRange(t)
  <2>1. ASSUME NEW i \in 1..Len(t), NEW j \in 1..Len(t), t[i] = t[j] PROVE i = j
    <3>1. i + 1 = j + 1
      BY <1>1, <1>2, <1>6, <2>1 DEF Distinct
    <3>. QED
      BY <3>1
  <2>2. \A i \in 1..Len(t) : t[i] # q[1]
    BY <1>1, <1>2, <1>6 DEF Distinct
  <2>. QED
    BY <1>0, <1>1, <2>1, <2>2 DEF Distinct
<1>. QED
  BY <1>1, <1>3, <1>4, <1>5, <1>6

LEMMA Removed ==
  ASSUME NEW q \in Seq(Request), Distinct(q), NEW r \in SeqRange(q), NEW t, t = Without(q, r)
  PROVE  /\ t \in Seq(Request) /\ Len(t) = Len(q) - 1 /\ Len(q) \in Nat
         /\ SeqRange(t) = SeqRange(q) \ {r} /\ Distinct(t)
<1>1. PICK i : i \in 1..Len(q) /\ q[i] = r /\ t = RemoveFrom(q, i)
  <2>1. \E k \in DOMAIN q : q[k] = r
    BY DEF SeqRange
  <2>2. PICK i : i = CHOOSE k \in DOMAIN q : q[k] = r
    OBVIOUS
  <2>3. i \in DOMAIN q /\ q[i] = r
    BY <2>1, <2>2
  <2>4. t = RemoveFrom(q, i)
    BY <2>2 DEF Without
  <2>5. DOMAIN q = 1..Len(q)
    BY LenProperties
  <2>. QED
    BY <2>3, <2>4, <2>5
<1>2. PICK n : n = Len(q) /\ n \in Nat /\ i \in 1..n /\ \A k \in 1..n : q[k] \in Request
  BY <1>1
<1>3. PICK a : a = SubSeq(q, 1, i - 1)
  OBVIOUS
<1>4. PICK b : b = SubSeq(q, i + 1, n)
  OBVIOUS
<1>5. a \in Seq(Request) /\ Len(a) = i - 1 /\ \A k \in 1..(i - 1) : a[k] = q[k]
  <2>1. 1 \in Int /\ i - 1 \in Int /\ \A k \in 1..(i - 1) : q[k] \in Request
    BY <1>2
  <2>2. /\ SubSeq(q, 1, i - 1) \in Seq(Request)
        /\ Len(SubSeq(q, 1, i - 1)) = IF 1 <= i - 1 THEN (i - 1) - 1 + 1 ELSE 0
        /\ \A k \in 1..((i - 1) - 1 + 1) : SubSeq(q, 1, i - 1)[k] = q[1 + k - 1]
    BY <2>1, SubSeqProperties
  <2>3. /\ (IF 1 <= i - 1 THEN (i - 1) - 1 + 1 ELSE 0) = i - 1 /\ (i - 1) - 1 + 1 = i - 1
        /\ \A k \in 1..(i - 1) : 1 + k - 1 = k
    BY <1>2
  <2>. QED
    BY <1>3, <2>2, <2>3
<1>6. b \in Seq(Request) /\ Len(b) = n - i /\ \A k \in 1..(n - i) : b[k] = q[i + k]
  <2>1. i + 1 \in Int /\ n \in Int /\ \A k \in (i + 1)..n : q[k] \in Request
    BY <1>2
  <2>2. /\ SubSeq(q, i + 1, n) \in Seq(Request)
        /\ Len(SubSeq(q, i + 1, n)) = IF i + 1 <= n THEN n - (i + 1) + 1 ELSE 0
        /\ \A k \in 1..(n - (i + 1) + 1) : SubSeq(q, i + 1, n)[k] = q[(i + 1) + k - 1]
    BY <2>1, SubSeqProperties
  <2>3. /\ (IF i + 1 <= n THEN n - (i + 1) + 1 ELSE 0) = n - i /\ n - (i + 1) + 1 = n - i
        /\ \A k \in 1..(n - i) : (i + 1) + k - 1 = i + k
    BY <1>2
  <2>. QED
    BY <1>4, <2>2, <2>3
<1>7. /\ t \in Seq(Request) /\ Len(t) = n - 1
      /\ \A k \in 1..(n - 1) : t[k] = IF k < i THEN q[k] ELSE q[k + 1]
  <2>1. t = a \o b
    BY <1>1, <1>2, <1>3, <1>4 DEF RemoveFrom
  <2>2. /\ t \in Seq(Request) /\ Len(t) = Len(a) + Len(b)
        /\ \A k \in 1..(Len(a) + Len(b)) : t[k] = IF k <= Len(a) THEN a[k] ELSE b[k - Len(a)]
    BY <1>5, <1>6, <2>1, ConcatProperties
  <2>3. Len(a) + Len(b) = n - 1
    BY <1>2, <1>5, <1>6
  <2>4. ASSUME NEW k \in 1..(n - 1) PROVE t[k] = IF k < i THEN q[k] ELSE q[k + 1]
    <3>1. t[k] = IF k <= i - 1 THEN a[k] ELSE b[k - (i - 1)]
      BY <1>5, <2>2, <2>3
    <3>2. CASE k < i
      <4>1. k <= i - 1 /\ k \in 1..(i - 1)
        BY <1>2, <3>2
      <4>. QED
        BY <1>5, <3>1, <3>2, <4>1
    <3>3. CASE ~(k < i)
      <4>1. ~(k <= i - 1) /\ k - (i - 1) \in 1..(n - i) /\ i + (k - (i - 1)) = k + 1
        BY <1>2, <3>3
      <4>. QED
        BY <1>6, <3>1, <3>3, <4>1
    <3>. QED
      BY <3>2, <3>3
  <2>. QED
    BY <2>2, <2>3, <2>4
<1>8. ASSUME NEW j \in 1..Len(t), NEW k \in 1..Len(t), t[j] = t[k] PROVE j = k
  <2>1. PICK x : x = IF j < i THEN j ELSE j + 1
    OBVIOUS
  <2>2. PICK y : y = IF k < i THEN k ELSE k + 1
    OBVIOUS
  <2>3. x \in 1..n /\ y \in 1..n /\ (x = y => j = k)
    BY <1>2, <1>7, <2>1, <2>2
  <2>4. t[j] = q[x] /\ t[k] = q[y]
    BY <1>7, <2>1, <2>2
  <2>. QED
    BY <1>2, <1>8, <2>3, <2>4 DEF Distinct
<1>9. \A x : x \in SeqRange(t) <=> x \in SeqRange(q) /\ x # r
  <2>1. ASSUME NEW k \in 1..Len(t) PROVE t[k] \in SeqRange(q) /\ t[k] # r
    <3>1. PICK y : y = IF k < i THEN k ELSE k + 1
      OBVIOUS
    <3>2. y \in 1..n /\ y # i
      BY <1>2, <1>7, <3>1
    <3>3. t[k] = q[y]
      BY <1>7, <3>1
    <3>. QED
      BY <1>1, <1>2, <3>2, <3>3, RangeIs DEF Distinct
  <2>2. ASSUME NEW k \in 1..n, q[k] # r PROVE q[k] \in SeqRange(t)
    <3>1. k # i
      BY <1>1, <2>2
    <3>2. PICK y : y = IF k < i THEN k ELSE k - 1
      OBVIOUS
    <3>3. y \in 1..(n - 1) /\ k = IF y < i THEN y ELSE y + 1
      BY <1>2, <3>1, <3>2
    <3>4. t[y] = q[k] /\ y \in 1..Len(t)
      BY <1>7, <3>3
    <3>. QED
      BY <1>7, <3>4, RangeIs
  <2>. QED
    BY <1>2, <1>7, <2>1, <2>2, RangeIs
<1>. QED
  BY <1>2, <1>7, <1>8, <1>9 DEF Distinct

\* A tombstone is added: who leaves the list, or is not let in, is forgotten.
LEMMA TombstoneAdded ==
  ASSUME tombs \in Seq(Request), forgotten \in [Request -> Nat], scenario.maxTombs \in Nat,
         Len(tombs) <= scenario.maxTombs, NEW r \in Request, AddTombstone(r)
  PROVE  /\ tombs' \in Seq(Request) /\ Len(tombs') <= scenario.maxTombs
         /\ forgotten' \in [Request -> Nat]
         /\ SeqRange(tombs') \subseteq SeqRange(tombs) \cup {r}
         /\ \A q \in Request : /\ forgotten'[q] >= forgotten[q] /\ forgotten'[q] <= forgotten[q] + 1
                               /\ q \in SeqRange(tombs) \cup {r} =>
                                    q \in SeqRange(tombs') \/ forgotten'[q] = forgotten[q] + 1
<1>1. PICK all : all = Append(tombs, r)
  OBVIOUS
<1>2. /\ all \in Seq(Request) /\ all # << >> /\ Len(all) = Len(tombs) + 1 /\ Len(tombs) \in Nat
      /\ SeqRange(all) = SeqRange(tombs) \cup {r}
  BY <1>1, Appended
<1>3. /\ Tail(all) \in Seq(Request) /\ Len(Tail(all)) = Len(all) - 1
      /\ SeqRange(Tail(all)) \subseteq SeqRange(all)
  BY <1>2, Shifted
<1>4. PICK kept : kept = IF scenario.maxTombs = 0 \/ r \in SeqRange(tombs) THEN tombs
                         ELSE IF Len(all) > scenario.maxTombs THEN Tail(all) ELSE all
  OBVIOUS
<1>5. /\ kept \in Seq(Request) /\ Len(kept) <= scenario.maxTombs
      /\ SeqRange(kept) \subseteq SeqRange(tombs) \cup {r}
  BY <1>2, <1>3, <1>4
<1>6. /\ tombs' = kept
      /\ forgotten' = [q \in Request |-> IF q \in SeqRange(all) /\ q \notin SeqRange(tombs')
                                         THEN forgotten[q] + 1 ELSE forgotten[q]]
  BY <1>1, <1>4 DEF AddTombstone
<1>7. SeqRange(tombs') = SeqRange(kept)
  BY <1>6 DEF SeqRange
<1>8. \A q \in Request : forgotten'[q] = IF q \in SeqRange(all) /\ q \notin SeqRange(kept)
                                         THEN forgotten[q] + 1 ELSE forgotten[q]
  BY <1>6, <1>7
<1>. QED
  BY <1>2, <1>5, <1>6, <1>7, <1>8

LEMMA ScenarioFits ==
  ASSUME DataInv
  PROVE  /\ scenario.maxTombs \in Nat /\ MaxTerminal \in Nat
         /\ \A a \in Attempt : ReqOf(a) \in Request /\ ContentOf(a) \in Nat /\ RetryOf(a) \in BOOLEAN
BY ActionAssumption DEF DataInv, ReqOf, ContentOf, RetryOf

-----------------------------------------------------------------------------
(* The steps *)

LEMMA ActionInit == AInit => ActionInv
<1>. SUFFICES ASSUME AInit PROVE ActionInv
  OBVIOUS
<1>1. NoVerdict \in Verdicts
  BY DEF NoVerdict, Verdicts, Kinds
<1>2. << >> \in Seq(Request) /\ Len(<< >>) = 0 /\ SeqRange(<< >>) = {}
  BY EmptySeq DEF SeqRange
<1>3. DataInv
  BY <1>1, <1>2 DEF AInit, DataInv, Early
<1>4. ListsInv
  BY <1>2, <1>3, ScenarioFits DEF AInit, ListsInv, StoreBounded, Distinct
<1>5. RunsInv
  BY DEF AInit, RunsInv
<1>6. WaitInv /\ \A a \in Attempt : ~HasOutcome(a)
  BY DEF AInit, WaitInv, Early, NoVerdict, HasOutcome, Late
<1>. QED
  BY <1>3, <1>4, <1>5, <1>6 DEF ActionInv, ToldInv, AgreeInv

\* Steps of connections and clients, messages that travel, answers that are
\* sent or not: nobody comes to wait, and nobody is told anything new.
LEMMA Quiet ==
  ASSUME ActionInv, UNCHANGED <<scenario, verdict, storeVars, runVars>>,
         via' \in [Attempt -> Conn \cup {NoConn}],
         stage' \in [Attempt -> Early \cup {"waiting"} \cup Late],
         promise' \in [Attempt -> {"none", "pending", "settled", "rejected"}],
         \A a \in Attempt : \/ stage'[a] = stage[a]
                            \/ stage[a] \in Early /\ stage'[a] \in Early
                            \/ stage[a] \in Late /\ stage'[a] \in Late
  PROVE  ActionInv'
<1>1. \A a \in Attempt : /\ HasOutcome(a)' <=> HasOutcome(a)
                         /\ stage'[a] \in Early <=> stage[a] \in Early
                         /\ stage'[a] = "waiting" <=> stage[a] = "waiting"
  BY DEF HasOutcome, Early, Late
<1>2. \A a \in Attempt : ReqOf(a)' = ReqOf(a) /\ ContentOf(a)' = ContentOf(a)
  BY DEF ReqOf, ContentOf
<1>3. UNCHANGED <<storeGone, record, content, outcome, terminals, tombs, forgotten, running, runs, effects>>
  BY DEF storeVars, runVars
<1>4. DataInv'
  BY <1>3 DEF ActionInv, DataInv
<1>5. ListsInv' /\ RunsInv'
  BY <1>3 DEF ActionInv, ListsInv, StoreBounded, Distinct, SeqRange, RunsInv, Known
<1>6. WaitInv'
  BY <1>1, <1>2, <1>3 DEF ActionInv, WaitInv
<1>7. ToldInv' /\ AgreeInv'
  BY <1>1, <1>2, <1>3 DEF ActionInv, ToldInv, AgreeInv
<1>. QED
  BY <1>4, <1>5, <1>6, <1>7 DEF ActionInv

\* An attempt is answered at once: it is refused, or told what the record of its
\* request holds.
LEMMA Answered ==
  ASSUME ActionInv, NEW a \in Attempt, stage[a] \in Early, NEW v \in Verdicts, Answer(a, v),
         UNCHANGED <<scenario, via, promise>>,
         \/ v.kind \in Refused
         \/ /\ v.kind \in Delivered /\ record[ReqOf(a)] = "terminal" /\ content[ReqOf(a)] = ContentOf(a)
            /\ v.run = outcome[ReqOf(a)].run /\ v.ok = outcome[ReqOf(a)].ok
  PROVE  ActionInv'
<1>1. /\ stage' = [stage EXCEPT ![a] = "resolved"] /\ verdict' = [verdict EXCEPT ![a] = v]
      /\ UNCHANGED <<storeVars, runVars>>
  BY DEF Answer, Resolve
<1>2. /\ \A b \in Attempt : stage'[b] = IF b = a THEN "resolved" ELSE stage[b]
      /\ \A b \in Attempt : verdict'[b] = IF b = a THEN v ELSE verdict[b]
  BY <1>1 DEF ActionInv, DataInv
<1>3. UNCHANGED <<storeGone, record, content, outcome, terminals, tombs, forgotten, running, runs, effects>>
  BY <1>1 DEF storeVars, runVars
<1>4. \A b \in Attempt : /\ ReqOf(b)' = ReqOf(b) /\ ContentOf(b)' = ContentOf(b)
                         /\ ReqOf(b) \in Request
  BY ScenarioFits DEF ReqOf, ContentOf, ActionInv
<1>5. /\ \A b \in Attempt \ {a} : HasOutcome(b)' <=> HasOutcome(b)
      /\ HasOutcome(a)' => v.kind \in Delivered
      /\ ~HasOutcome(a)
  BY <1>2 DEF HasOutcome, Early, Late
<1>6. v.kind \in Refused => v.kind \notin Delivered
  BY DEF Refused, Delivered
<1>7. DataInv'
  BY <1>1, <1>3 DEF ActionInv, DataInv, Late
<1>8. ListsInv' /\ RunsInv'
  BY <1>3 DEF ActionInv, ListsInv, StoreBounded, Distinct, SeqRange, RunsInv, Known
<1>9. WaitInv'
  BY <1>2, <1>3, <1>4 DEF ActionInv, WaitInv, Early
<1>. DEFINE r == ReqOf(a)
<1>10. v.kind \in Delivered =>
         /\ r \in Request /\ record[r] = "terminal" /\ content[r] = ContentOf(a)
         /\ v.run = runs[r] /\ runs[r] > 0 /\ v.ok = outcome[r].ok /\ (v.ok => effects[r] > 0)
  BY <1>4, <1>6 DEF ActionInv, RunsInv
<1>. HIDE DEF r
<1>11. ToldInv'
  <2>1. runs \in [Request -> Nat]
    BY DEF ActionInv, DataInv
  <2>2. ASSUME NEW b \in Attempt \ {a}, HasOutcome(b)'
        PROVE  /\ verdict'[b].run > 0 /\ verdict'[b].run <= runs'[ReqOf(b)']
               /\ verdict'[b].ok => effects'[ReqOf(b)'] > 0
               /\ forgotten'[ReqOf(b)'] = 0 =>
                    /\ record'[ReqOf(b)'] # "pending"
                    /\ record'[ReqOf(b)'] = "terminal" =>
                         outcome'[ReqOf(b)'].ok = verdict'[b].ok /\ content'[ReqOf(b)'] = ContentOf(b)'
    BY <1>2, <1>3, <1>4, <1>5, <2>2 DEF ActionInv, ToldInv
  <2>3. ASSUME HasOutcome(a)'
        PROVE  /\ verdict'[a].run > 0 /\ verdict'[a].run <= runs'[ReqOf(a)']
               /\ verdict'[a].ok => effects'[ReqOf(a)'] > 0
               /\ forgotten'[ReqOf(a)'] = 0 =>
                    /\ record'[ReqOf(a)'] # "pending"
                    /\ record'[ReqOf(a)'] = "terminal" =>
                         outcome'[ReqOf(a)'].ok = verdict'[a].ok /\ content'[ReqOf(a)'] = ContentOf(a)'
    BY <1>2, <1>3, <1>4, <1>5, <1>10, <2>1, <2>3 DEF r
  <2>. QED
    BY <2>2, <2>3 DEF ToldInv
<1>12. AgreeInv'
  <2>1. ASSUME NEW b \in Attempt \ {a}, HasOutcome(b)', HasOutcome(a)', ReqOf(a) = ReqOf(b),
               forgotten[ReqOf(a)] = 0
        PROVE  verdict'[b].ok = verdict'[a].ok /\ ContentOf(b) = ContentOf(a)
    BY <1>2, <1>5, <1>10, <2>1 DEF ActionInv, ToldInv, r
  <2>2. ASSUME NEW b \in Attempt \ {a}, NEW c \in Attempt \ {a},
               HasOutcome(b)', HasOutcome(c)', ReqOf(b) = ReqOf(c), forgotten[ReqOf(b)] = 0
        PROVE  verdict'[b].ok = verdict'[c].ok /\ ContentOf(b) = ContentOf(c)
    BY <1>2, <1>5, <2>2 DEF ActionInv, AgreeInv
  <2>3. ASSUME NEW b \in Attempt, NEW c \in Attempt,
               HasOutcome(b)', HasOutcome(c)', ReqOf(b) = ReqOf(c), forgotten[ReqOf(b)] = 0
        PROVE  verdict'[b].ok = verdict'[c].ok /\ ContentOf(b) = ContentOf(c)
    BY <2>1, <2>2, <2>3
  <2>. QED
    BY <1>3, <1>4, <2>3 DEF AgreeInv
<1>. QED
  BY <1>7, <1>8, <1>9, <1>11, <1>12 DEF ActionInv

\* An attempt waits for the execution of its request that is under way.
LEMMA Joined ==
  ASSUME ActionInv, NEW a \in Attempt, stage[a] \in Early, UNCHANGED <<scenario, via, promise>>,
         Join(a, ReqOf(a)), record[ReqOf(a)] = "pending", content[ReqOf(a)] = ContentOf(a)
  PROVE  ActionInv'
<1>0. PICK r : r = ReqOf(a) /\ r \in Request
  BY ScenarioFits DEF ActionInv
<1>1. PICK v : v = [kind |-> "joined", run |-> runs[r], ok |-> FALSE]
  OBVIOUS
<1>2. v \in Verdicts /\ v.kind = "joined" /\ v.run = runs[r]
  BY <1>0, <1>1 DEF Verdicts, Kinds, Delivered, ActionInv, DataInv
<1>3. /\ stage' = [stage EXCEPT ![a] = "waiting"] /\ verdict' = [verdict EXCEPT ![a] = v]
      /\ UNCHANGED <<storeGone, record, content, outcome, terminals, tombs, forgotten, running, runs, effects>>
  BY <1>0, <1>1 DEF Join, storeVars, runVars
<1>4. /\ \A b \in Attempt : stage'[b] = IF b = a THEN "waiting" ELSE stage[b]
      /\ \A b \in Attempt : verdict'[b] = IF b = a THEN v ELSE verdict[b]
  BY <1>3 DEF ActionInv, DataInv
<1>5. \A b \in Attempt : ReqOf(b)' = ReqOf(b) /\ ContentOf(b)' = ContentOf(b)
  BY DEF ReqOf, ContentOf
<1>6. \A b \in Attempt : HasOutcome(b)' => HasOutcome(b) /\ b # a
  BY <1>4 DEF HasOutcome, Late
<1>7. DataInv'
  BY <1>2, <1>3 DEF ActionInv, DataInv
<1>8. ListsInv' /\ RunsInv'
  BY <1>3 DEF ActionInv, ListsInv, StoreBounded, Distinct, SeqRange, RunsInv, Known
<1>9. WaitInv'
  BY <1>0, <1>2, <1>3, <1>4, <1>5 DEF ActionInv, WaitInv, Early
<1>10. ToldInv' /\ AgreeInv'
  BY <1>3, <1>4, <1>5, <1>6 DEF ActionInv, ToldInv, AgreeInv
<1>. QED
  BY <1>7, <1>8, <1>9, <1>10 DEF ActionInv

\* The handler of an unknown request is called.
LEMMA Started ==
  ASSUME ActionInv, NEW a \in Attempt, stage[a] \in Early, UNCHANGED <<scenario, via, promise>>,
         Start(a, ReqOf(a)), ~storeGone, ~Known(ReqOf(a))
  PROVE  ActionInv'
<1>0. PICK r : r = ReqOf(a) /\ r \in Request /\ ContentOf(a) \in Nat
  BY ScenarioFits DEF ActionInv
<1>1. PICK v : v = [kind |-> "executed", run |-> runs[r] + 1, ok |-> FALSE]
  OBVIOUS
<1>2. /\ v \in Verdicts /\ v.kind = "executed" /\ v.run = runs[r] + 1
      /\ \A q \in Request : runs[q] \in Nat /\ effects[q] \in Nat /\ forgotten[q] \in Nat
  BY <1>0, <1>1 DEF Verdicts, Kinds, Delivered, ActionInv, DataInv
<1>3. /\ stage' = [stage EXCEPT ![a] = "waiting"] /\ verdict' = [verdict EXCEPT ![a] = v]
      /\ record' = [record EXCEPT ![r] = "pending"]
      /\ content' = [content EXCEPT ![r] = ContentOf(a)]
      /\ running' = running \cup {r}
      /\ runs' = [runs EXCEPT ![r] = runs[r] + 1]
      /\ UNCHANGED <<storeGone, outcome, terminals, tombs, forgotten, effects>>
  BY <1>0, <1>1 DEF Start
<1>4. /\ \A b \in Attempt : stage'[b] = IF b = a THEN "waiting" ELSE stage[b]
      /\ \A b \in Attempt : verdict'[b] = IF b = a THEN v ELSE verdict[b]
      /\ \A q \in Request : record'[q] = IF q = r THEN "pending" ELSE record[q]
      /\ \A q \in Request : content'[q] = IF q = r THEN ContentOf(a) ELSE content[q]
      /\ \A q \in Request : runs'[q] = IF q = r THEN runs[r] + 1 ELSE runs[q]
  BY <1>3 DEF ActionInv, DataInv
<1>5. \A b \in Attempt : ReqOf(b)' = ReqOf(b) /\ ContentOf(b)' = ContentOf(b) /\ ReqOf(b) \in Request
  BY ScenarioFits DEF ReqOf, ContentOf, ActionInv
<1>6. \A b \in Attempt : HasOutcome(b)' => HasOutcome(b) /\ b # a
  BY <1>4 DEF HasOutcome, Late
<1>7. record[r] = "none" /\ r \notin SeqRange(tombs) /\ runs[r] <= forgotten[r]
  BY <1>0 DEF Known, ActionInv, RunsInv
<1>8. DataInv'
  BY <1>0, <1>2, <1>3 DEF ActionInv, DataInv
<1>9. ListsInv'
  <2>1. StoreBounded /\ Distinct(terminals)
    BY DEF ActionInv, ListsInv
  <2>2. {q \in Request : record'[q] = "terminal"} = {q \in Request : record[q] = "terminal"}
    BY <1>4, <1>7
  <2>3. \A q \in SeqRange(tombs) : q \in Request
    BY RangeIs DEF ActionInv, DataInv
  <2>4. SeqRange(tombs)' = SeqRange(tombs) /\ SeqRange(terminals)' = SeqRange(terminals)
    BY <1>3 DEF SeqRange
  <2>. QED
    BY <1>3, <1>4, <1>7, <2>1, <2>2, <2>3, <2>4 DEF ListsInv, StoreBounded, Distinct
<1>10. RunsInv'
  <2>1. SeqRange(tombs)' = SeqRange(tombs)
    BY <1>3 DEF SeqRange
  <2>. QED
    BY <1>2, <1>3, <1>4, <1>7, <2>1 DEF ActionInv, RunsInv, Known
<1>11. WaitInv'
  <2>1. \A b \in Attempt : stage[b] = "waiting" => ReqOf(b) # r
    BY <1>7 DEF ActionInv, WaitInv
  <2>. QED
    BY <1>0, <1>2, <1>4, <1>5, <2>1 DEF ActionInv, WaitInv, Early
<1>12. \A b \in Attempt : HasOutcome(b) => ReqOf(b) # r \/ forgotten[r] # 0
  BY <1>2, <1>5, <1>7 DEF ActionInv, ToldInv, DataInv, Verdicts
<1>13. ToldInv'
  <2>1. \A b \in Attempt : verdict[b].run \in Nat
    BY DEF ActionInv, DataInv, Verdicts
  <2>. QED
    BY <1>2, <1>3, <1>4, <1>5, <1>6, <1>12, <2>1 DEF ActionInv, ToldInv
<1>14. AgreeInv'
  BY <1>3, <1>4, <1>5, <1>6 DEF ActionInv, AgreeInv
<1>. QED
  BY <1>8, <1>9, <1>10, <1>11, <1>13, <1>14 DEF ActionInv

\* execute(), whatever it finds.
LEMMA Executed ==
  ASSUME ActionInv, NEW a \in Attempt, stage[a] \in Early, UNCHANGED <<scenario, via, promise>>, Execute(a)
  PROVE  ActionInv'
<1>0. PICK r : r = ReqOf(a) /\ r \in Request
  BY ScenarioFits DEF ActionInv
<1>1. ASSUME NEW code \in Refused, Answer(a, Refusal(code)) PROVE ActionInv'
  <2>1. Refusal(code) \in Verdicts /\ Refusal(code).kind \in Refused
    BY DEF Refusal, Verdicts, Kinds
  <2>. QED
    BY <1>1, <2>1, Answered
<1>2. CASE record[r] = "pending" /\ content[r] = ContentOf(a) /\ Join(a, r)
  BY <1>0, <1>2, Joined
<1>3. CASE record[r] = "terminal" /\ content[r] = ContentOf(a) /\ Answer(a, [outcome[r] EXCEPT !.kind = "cached"])
  <2>1. PICK v : v = [outcome[r] EXCEPT !.kind = "cached"]
    OBVIOUS
  <2>2. outcome[r] \in Verdicts
    BY <1>0 DEF ActionInv, DataInv
  <2>3. v \in Verdicts /\ v.kind \in Delivered /\ v.run = outcome[r].run /\ v.ok = outcome[r].ok
    BY <2>1, <2>2 DEF Verdicts, Kinds, Delivered
  <2>. QED
    BY <1>0, <1>3, <2>1, <2>3, Answered
<1>4. CASE ~storeGone /\ record[r] = "none" /\ r \notin SeqRange(tombs) /\ Start(a, r)
  BY <1>0, <1>4, Started DEF Known
<1>. QED
  BY <1>0, <1>1, <1>2, <1>3, <1>4 DEF Execute, Refused

\* A run that settles into its record: the record becomes terminal, at most one
\* makes place, and those who waited for the run have its outcome.
LEMMA SettledOnce ==
  ASSUME ActionInv, NEW r \in Request, NEW ok \in BOOLEAN, HandlerSettles(r, ok), record[r] = "pending"
  PROVE  ActionInv'
<1>0. /\ r \in running /\ running' = running \ {r} /\ ~storeGone
      /\ effects' = (IF ok THEN [effects EXCEPT ![r] = @ + 1] ELSE effects)
      /\ UNCHANGED <<scenario, via, promise, runs>> /\ Settle(r, ok)
  BY DEF HandlerSettles, ActionInv, RunsInv
<1>1. /\ terminals \in Seq(Request) /\ tombs \in Seq(Request) /\ scenario.maxTombs \in Nat /\ MaxTerminal \in Nat
      /\ \A q \in Request : /\ runs[q] \in Nat /\ effects[q] \in Nat /\ forgotten[q] \in Nat
                            /\ record[q] \in {"none", "pending", "terminal"} /\ outcome[q] \in Verdicts
  BY ScenarioFits DEF ActionInv, DataInv
<1>2. /\ Len(terminals) <= MaxTerminal /\ Len(tombs) <= scenario.maxTombs /\ Distinct(terminals)
      /\ \A q \in Request : q \in SeqRange(terminals) <=> record[q] = "terminal"
      /\ \A q \in SeqRange(tombs) : q \in Request /\ record[q] = "none"
  BY <1>1, RangeIs DEF ActionInv, ListsInv, StoreBounded
<1>3. PICK order : order = Append(terminals, r)
  OBVIOUS
<1>4. PICK full : full = (Len(order) > MaxTerminal)
  OBVIOUS
<1>5. PICK old : old = Head(order)
  OBVIOUS
<1>6. PICK out : out = [kind |-> "executed", run |-> runs[r], ok |-> ok]
  OBVIOUS
<1>7. /\ terminals' = (IF full THEN Tail(order) ELSE order)
      /\ record' = [q \in Request |-> IF full /\ q = old THEN "none"
                                      ELSE IF q = r THEN "terminal" ELSE record[q]]
      /\ outcome' = [q \in Request |-> IF full /\ q = old THEN NoVerdict
                                       ELSE IF q = r THEN out ELSE outcome[q]]
      /\ IF full THEN AddTombstone(old) ELSE UNCHANGED <<tombs, forgotten>>
      /\ verdict' = [a \in Attempt |->
            IF stage[a] = "waiting" /\ ReqOf(a) = r THEN [verdict[a] EXCEPT !.ok = ok] ELSE verdict[a]]
      /\ stage' = [a \in Attempt |->
            IF stage[a] = "waiting" /\ ReqOf(a) = r THEN "resolved" ELSE stage[a]]
      /\ UNCHANGED <<storeGone, content>>
  BY <1>0, <1>3, <1>4, <1>5, <1>6 DEF Settle
<1>8. /\ order \in Seq(Request) /\ order # << >> /\ Len(order) = Len(terminals) + 1 /\ Len(terminals) \in Nat
      /\ SeqRange(order) = SeqRange(terminals) \cup {r} /\ Distinct(order)
  BY <1>1, <1>2, <1>3, Appended
<1>9. /\ Tail(order) \in Seq(Request) /\ Len(Tail(order)) = Len(order) - 1 /\ old \in Request
      /\ SeqRange(order) = SeqRange(Tail(order)) \cup {old} /\ old \notin SeqRange(Tail(order))
      /\ Distinct(Tail(order))
  BY <1>5, <1>8, Shifted
<1>10. old = r \/ record[old] = "terminal"
  BY <1>2, <1>8, <1>9
<1>11. /\ tombs' \in Seq(Request) /\ Len(tombs') <= scenario.maxTombs
       /\ forgotten' \in [Request -> Nat]
       /\ \A q \in SeqRange(tombs') : q \in SeqRange(tombs) \/ (full /\ q = old)
       /\ \A q \in Request : /\ forgotten'[q] >= forgotten[q]
                             /\ q \in SeqRange(tombs) \/ (full /\ q = old) =>
                                  q \in SeqRange(tombs') \/ forgotten'[q] = forgotten[q] + 1
  <2>0. forgotten \in [Request -> Nat]
    BY DEF ActionInv, DataInv
  <2>1. CASE full
    <3>1. /\ tombs' \in Seq(Request) /\ Len(tombs') <= scenario.maxTombs
          /\ forgotten' \in [Request -> Nat]
          /\ SeqRange(tombs') \subseteq SeqRange(tombs) \cup {old}
          /\ \A q \in Request : /\ forgotten'[q] >= forgotten[q] /\ forgotten'[q] <= forgotten[q] + 1
                                /\ q \in SeqRange(tombs) \cup {old} =>
                                     q \in SeqRange(tombs') \/ forgotten'[q] = forgotten[q] + 1
      BY <1>1, <1>2, <1>7, <1>9, <2>0, <2>1, TombstoneAdded
    <3>. QED
      BY <2>1, <3>1
  <2>2. CASE ~full
    <3>1. tombs' = tombs /\ forgotten' = forgotten
      BY <1>7, <2>2
    <3>. QED
      BY <1>1, <1>2, <2>0, <2>2, <3>1
  <2>. QED
    BY <2>1, <2>2, <1>4
<1>12. /\ terminals' \in Seq(Request) /\ Len(terminals') <= MaxTerminal /\ Distinct(terminals')
       /\ \A q \in Request : q \in SeqRange(terminals') <=>
            (q \in SeqRange(terminals) \/ q = r) /\ ~(full /\ q = old)
  <2>1. CASE full
    <3>1. terminals' = Tail(order)
      BY <1>7, <2>1
    <3>. QED
      BY <1>1, <1>2, <1>8, <1>9, <2>1, <3>1
  <2>2. CASE ~full
    <3>1. terminals' = order
      BY <1>7, <2>2
    <3>2. ~(Len(order) > MaxTerminal)
      BY <1>4, <2>2
    <3>3. Len(order) <= MaxTerminal
      BY <1>1, <1>8, <3>2
    <3>. QED
      BY <1>8, <2>2, <3>1, <3>3
  <2>. QED
    BY <2>1, <2>2, <1>4
<1>13. /\ \A q \in Request : record'[q] = IF full /\ q = old THEN "none" ELSE IF q = r THEN "terminal" ELSE record[q]
       /\ \A q \in Request : outcome'[q] = IF full /\ q = old THEN NoVerdict ELSE IF q = r THEN out ELSE outcome[q]
       /\ \A a \in Attempt : stage'[a] = IF stage[a] = "waiting" /\ ReqOf(a) = r THEN "resolved" ELSE stage[a]
       /\ \A a \in Attempt : verdict'[a] = IF stage[a] = "waiting" /\ ReqOf(a) = r
                                           THEN [verdict[a] EXCEPT !.ok = ok] ELSE verdict[a]
       /\ \A q \in Request : effects'[q] = IF ok /\ q = r THEN effects[r] + 1 ELSE effects[q]
  BY <1>0, <1>7 DEF ActionInv, DataInv
<1>14. /\ out \in Verdicts /\ NoVerdict \in Verdicts /\ out.kind = "executed" /\ out.run = runs[r] /\ out.ok = ok
       /\ \A v \in Verdicts : /\ [v EXCEPT !.ok = ok] \in Verdicts
                              /\ [v EXCEPT !.ok = ok].kind = v.kind /\ [v EXCEPT !.ok = ok].run = v.run
                              /\ [v EXCEPT !.ok = ok].ok = ok
  <2>1. runs[r] \in Nat
    BY <1>1
  <2>. QED
    BY <1>6, <2>1 DEF Verdicts, Kinds, Delivered, NoVerdict
<1>15. DataInv'
  <2>1. record' \in [Request -> {"none", "pending", "terminal"}] /\ outcome' \in [Request -> Verdicts]
    BY <1>1, <1>7, <1>14
  <2>2. verdict' \in [Attempt -> Verdicts]
    BY <1>7, <1>14 DEF ActionInv, DataInv
  <2>3. stage' \in [Attempt -> Early \cup {"waiting"} \cup Late]
    BY <1>7 DEF ActionInv, DataInv, Late
  <2>4. effects' \in [Request -> Nat] /\ running' \in SUBSET Request
    BY <1>0, <1>1 DEF ActionInv, DataInv
  <2>. QED
    BY <1>0, <1>7, <1>11, <1>12, <2>1, <2>2, <2>3, <2>4 DEF ActionInv, DataInv
<1>16. ListsInv'
  <2>1. SeqRange(terminals)' = SeqRange(terminals') /\ SeqRange(tombs)' = SeqRange(tombs')
    BY DEF SeqRange
  <2>2. \A q \in Request : q \in SeqRange(terminals') <=> record'[q] = "terminal"
    BY <1>2, <1>12, <1>13
  <2>3. SeqRange(terminals') \subseteq Request
    BY <1>12, RangeIs
  <2>4. \A q \in SeqRange(tombs') : record'[q] = "none"
    BY <1>2, <1>9, <1>11, <1>13
  <2>. QED
    BY <1>0, <1>11, <1>12, <2>1, <2>2, <2>3, <2>4 DEF ListsInv, StoreBounded, Distinct
<1>17. RunsInv'
  <2>1. SeqRange(tombs)' = SeqRange(tombs')
    BY DEF SeqRange
  <2>2. ASSUME NEW q \in Request
        PROVE  /\ effects'[q] <= runs[q] /\ (q \in running' => effects'[q] < runs[q])
               /\ runs[q] <= 1 + forgotten'[q]
               /\ record'[q] = "pending" <=> q \in running'
               /\ record'[q] = "none" /\ q \notin SeqRange(tombs') => runs[q] <= forgotten'[q]
               /\ record'[q] # "none" => runs[q] > 0
               /\ record'[q] = "terminal" =>
                    outcome'[q].kind = "executed" /\ outcome'[q].run = runs[q] /\ (outcome'[q].ok => effects'[q] > 0)
    <3>1. /\ effects[q] <= runs[q] /\ (q \in running => effects[q] < runs[q])
          /\ runs[q] <= 1 + forgotten[q]
          /\ record[q] = "pending" <=> q \in running
          /\ record[q] = "none" /\ q \notin SeqRange(tombs) => runs[q] <= forgotten[q]
          /\ record[q] # "none" => runs[q] > 0
          /\ record[q] = "terminal" =>
               outcome[q].kind = "executed" /\ outcome[q].run = runs[q] /\ (outcome[q].ok => effects[q] > 0)
      BY <1>0 DEF ActionInv, RunsInv, Known
    <3>2. /\ runs[q] \in Nat /\ effects[q] \in Nat /\ forgotten[q] \in Nat /\ forgotten'[q] \in Nat
          /\ forgotten'[q] >= forgotten[q]
          /\ q \in SeqRange(tombs) \/ (full /\ q = old) =>
               q \in SeqRange(tombs') \/ forgotten'[q] = forgotten[q] + 1
          /\ effects'[q] = IF ok /\ q = r THEN effects[r] + 1 ELSE effects[q]
      BY <1>1, <1>11, <1>13
    <3>3. effects'[q] <= runs[q] /\ (q \in running' => effects'[q] < runs[q]) /\ runs[q] <= 1 + forgotten'[q]
      BY <1>0, <3>1, <3>2
    <3>4. record'[q] = "pending" <=> q \in running'
      BY <1>0, <1>10, <1>13, <3>1
    <3>5. record'[q] = "none" /\ q \notin SeqRange(tombs') => runs[q] <= forgotten'[q]
      BY <1>13, <3>1, <3>2
    <3>6. record'[q] # "none" => runs[q] > 0
      BY <1>0, <1>13, <3>1, <3>2
    <3>7. record'[q] = "terminal" =>
            outcome'[q].kind = "executed" /\ outcome'[q].run = runs[q] /\ (outcome'[q].ok => effects'[q] > 0)
      <4>1. CASE q = r
        BY <1>13, <1>14, <3>2, <4>1
      <4>2. CASE q # r
        BY <1>13, <3>1, <3>2, <4>2
      <4>. QED
        BY <4>1, <4>2
    <3>. QED
      BY <3>3, <3>4, <3>5, <3>6, <3>7
  <2>. QED
    BY <1>0, <1>7, <2>1, <2>2 DEF RunsInv, Known
<1>18. \A b \in Attempt : /\ ReqOf(b)' = ReqOf(b) /\ ContentOf(b)' = ContentOf(b) /\ ReqOf(b) \in Request
                          /\ verdict[b] \in Verdicts
  BY <1>0, ScenarioFits DEF ReqOf, ContentOf, ActionInv, DataInv
<1>19. WaitInv'
  <2>1. ASSUME NEW b \in Attempt, stage'[b] = "waiting"
        PROVE  stage[b] = "waiting" /\ ReqOf(b) # r /\ record'[ReqOf(b)] = "pending" /\ verdict'[b] = verdict[b]
    <3>1. stage[b] = "waiting" /\ ReqOf(b) # r /\ verdict'[b] = verdict[b]
      BY <1>13, <2>1
    <3>2. record[ReqOf(b)] = "pending"
      BY <3>1 DEF ActionInv, WaitInv
    <3>. QED
      BY <1>10, <1>13, <1>18, <3>1, <3>2
  <2>2. ASSUME NEW b \in Attempt, stage'[b] \in Early PROVE verdict'[b].kind = "none"
    BY <1>13, <2>2 DEF ActionInv, WaitInv, Early
  <2>3. ASSUME NEW b \in Attempt, stage'[b] = "waiting"
        PROVE  /\ verdict'[b].kind \in {"executed", "joined"} /\ verdict'[b].run = runs[ReqOf(b)]
               /\ record'[ReqOf(b)] = "pending" /\ content[ReqOf(b)] = ContentOf(b)
    BY <2>1, <2>3 DEF ActionInv, WaitInv
  <2>4. runs' = runs /\ content' = content
    BY <1>0, <1>7
  <2>. QED
    BY <1>18, <2>2, <2>3, <2>4 DEF WaitInv
<1>20. ASSUME NEW b \in Attempt, HasOutcome(b)'
       PROVE  \/ HasOutcome(b) /\ verdict'[b] = verdict[b]
              \/ /\ ReqOf(b) = r /\ verdict'[b].run = runs[r] /\ verdict'[b].ok = ok
                 /\ content[r] = ContentOf(b)
  <2>1. CASE stage[b] = "waiting" /\ ReqOf(b) = r
    <3>1. verdict'[b] = [verdict[b] EXCEPT !.ok = ok]
      BY <1>13, <2>1
    <3>2. verdict[b].run = runs[r] /\ content[r] = ContentOf(b)
      BY <2>1 DEF ActionInv, WaitInv
    <3>. QED
      BY <1>14, <1>18, <2>1, <3>1, <3>2
  <2>2. CASE ~(stage[b] = "waiting" /\ ReqOf(b) = r)
    BY <1>13, <1>20, <2>2 DEF HasOutcome
  <2>. QED
    BY <2>1, <2>2
<1>21. \A b \in Attempt : HasOutcome(b) => ReqOf(b) # r \/ forgotten[r] # 0
  BY DEF ActionInv, ToldInv
<1>22. ToldInv'
  <2>1. ASSUME NEW b \in Attempt, HasOutcome(b)', NEW q, q = ReqOf(b)
        PROVE  /\ verdict'[b].run > 0 /\ verdict'[b].run <= runs[q]
               /\ verdict'[b].ok => effects'[q] > 0
               /\ forgotten'[q] = 0 =>
                    /\ record'[q] # "pending"
                    /\ record'[q] = "terminal" => outcome'[q].ok = verdict'[b].ok /\ content[q] = ContentOf(b)
    <3>0. q \in Request
      BY <1>18, <2>1
    <3>1. /\ runs[q] \in Nat /\ effects[q] \in Nat /\ forgotten[q] \in Nat /\ forgotten'[q] \in Nat
          /\ forgotten'[q] >= forgotten[q]
          /\ effects'[q] = IF ok /\ q = r THEN effects[r] + 1 ELSE effects[q]
      BY <1>1, <1>11, <1>13, <3>0
    <3>2. CASE HasOutcome(b) /\ verdict'[b] = verdict[b]
      <4>1. /\ verdict[b].run > 0 /\ verdict[b].run <= runs[q]
            /\ verdict[b].ok => effects[q] > 0
            /\ forgotten[q] = 0 =>
                 /\ record[q] # "pending"
                 /\ record[q] = "terminal" => outcome[q].ok = verdict[b].ok /\ content[q] = ContentOf(b)
        BY <2>1, <3>2 DEF ActionInv, ToldInv
      <4>2. verdict'[b].ok => effects'[q] > 0
        BY <3>1, <3>2, <4>1
      <4>3. ASSUME forgotten'[q] = 0
            PROVE  /\ record'[q] # "pending"
                   /\ record'[q] = "terminal" => outcome'[q].ok = verdict'[b].ok /\ content[q] = ContentOf(b)
        <5>1. forgotten[q] = 0
          BY <3>1, <4>3
        <5>2. q # r
          BY <1>21, <2>1, <3>2, <5>1
        <5>. QED
          BY <1>13, <3>0, <3>2, <4>1, <5>1, <5>2
      <4>. QED
        BY <3>2, <4>1, <4>2, <4>3
    <3>3. CASE q = r /\ verdict'[b].run = runs[r] /\ verdict'[b].ok = ok /\ content[r] = ContentOf(b)
      <4>1. runs[r] > 0
        BY <1>1 DEF ActionInv, RunsInv
      <4>2. record'[r] # "pending" /\ (record'[r] = "terminal" => outcome'[r].ok = ok)
        BY <1>13, <1>14
      <4>3. ok => effects'[r] > 0
        BY <3>1, <3>3
      <4>. QED
        BY <3>1, <3>3, <4>1, <4>2, <4>3
    <3>. QED
      BY <1>20, <2>1, <3>2, <3>3
  <2>. QED
    BY <1>0, <1>7, <1>18, <2>1 DEF ToldInv
<1>23. AgreeInv'
  <2>1. ASSUME NEW a \in Attempt, NEW b \in Attempt, HasOutcome(a)', HasOutcome(b)',
               ReqOf(a) = ReqOf(b), forgotten'[ReqOf(a)] = 0
        PROVE  verdict'[a].ok = verdict'[b].ok /\ ContentOf(a) = ContentOf(b)
    <3>1. forgotten[ReqOf(a)] = 0
      BY <1>1, <1>11, <1>18, <2>1
    <3>2. CASE ReqOf(a) = r
      BY <1>20, <1>21, <2>1, <3>1, <3>2
    <3>3. CASE ReqOf(a) # r
      BY <1>20, <2>1, <3>1, <3>3 DEF ActionInv, AgreeInv
    <3>. QED
      BY <3>2, <3>3
  <2>. QED
    BY <1>18, <2>1 DEF AgreeInv
<1>. QED
  BY <1>15, <1>16, <1>17, <1>19, <1>22, <1>23 DEF ActionInv

\* A run that settles when the store has been disposed leaves no record.
LEMMA SettledLate ==
  ASSUME ActionInv, NEW r \in Request, NEW ok \in BOOLEAN, HandlerSettles(r, ok), record[r] # "pending"
  PROVE  ActionInv'
<1>1. /\ r \in running /\ running' = running \ {r}
      /\ effects' = (IF ok THEN [effects EXCEPT ![r] = @ + 1] ELSE effects)
      /\ UNCHANGED <<scenario, via, promise, runs, stage, verdict>>
      /\ UNCHANGED <<storeGone, record, content, outcome, terminals, tombs, forgotten>>
  BY DEF HandlerSettles, storeVars
<1>2. storeGone
  BY <1>1 DEF ActionInv, RunsInv
<1>3. /\ \A q \in Request : runs[q] \in Nat /\ effects[q] \in Nat
      /\ \A q \in Request : effects'[q] = IF ok /\ q = r THEN effects[r] + 1 ELSE effects[q]
  BY <1>1 DEF ActionInv, DataInv
<1>4. DataInv'
  BY <1>1, <1>3 DEF ActionInv, DataInv
<1>5. ListsInv'
  BY <1>1 DEF ActionInv, ListsInv, StoreBounded, Distinct, SeqRange
<1>6. RunsInv'
  <2>1. \A q \in Request : record[q] = "none"
    BY <1>2 DEF ActionInv, RunsInv
  <2>. QED
    BY <1>1, <1>2, <1>3, <2>1 DEF ActionInv, RunsInv, Known
<1>7. \A b \in Attempt : ReqOf(b)' = ReqOf(b) /\ ContentOf(b)' = ContentOf(b) /\ ReqOf(b) \in Request
  BY <1>1, ScenarioFits DEF ReqOf, ContentOf, ActionInv
<1>8. \A b \in Attempt : HasOutcome(b)' <=> HasOutcome(b)
  BY <1>1 DEF HasOutcome
<1>9. WaitInv'
  BY <1>1, <1>7 DEF ActionInv, WaitInv
<1>10. \A q \in Request : effects[q] > 0 => effects'[q] > 0
  BY <1>3
<1>11. ToldInv' /\ AgreeInv'
  BY <1>1, <1>7, <1>8, <1>10 DEF ActionInv, ToldInv, AgreeInv
<1>. QED
  BY <1>4, <1>5, <1>6, <1>9, <1>11 DEF ActionInv

\* The retention of an outcome ends: a tombstone is left.
LEMMA Forgotten ==
  ASSUME ActionInv, NEW r \in Request, ForgetOutcome(r)
  PROVE  ActionInv'
<1>1. /\ record[r] = "terminal" /\ record' = [record EXCEPT ![r] = "none"]
      /\ terminals' = Without(terminals, r) /\ AddTombstone(r)
      /\ UNCHANGED <<scenario, via, promise, stage, verdict, storeGone, content, outcome, running, runs, effects>>
  BY DEF ForgetOutcome, attemptVars, runVars
<1>2. /\ terminals \in Seq(Request) /\ tombs \in Seq(Request) /\ scenario.maxTombs \in Nat
      /\ forgotten \in [Request -> Nat] /\ MaxTerminal \in Nat
      /\ \A q \in Request : runs[q] \in Nat /\ forgotten[q] \in Nat
  BY ScenarioFits DEF ActionInv, DataInv
<1>3. /\ Len(terminals) <= MaxTerminal /\ Len(tombs) <= scenario.maxTombs /\ Distinct(terminals)
      /\ \A q \in Request : q \in SeqRange(terminals) <=> record[q] = "terminal"
      /\ \A q \in SeqRange(tombs) : q \in Request /\ record[q] = "none"
  BY <1>2, RangeIs DEF ActionInv, ListsInv, StoreBounded
<1>4. /\ terminals' \in Seq(Request) /\ Len(terminals') = Len(terminals) - 1 /\ Len(terminals) \in Nat
      /\ SeqRange(terminals') = SeqRange(terminals) \ {r} /\ Distinct(terminals')
  BY <1>1, <1>2, <1>3, Removed
<1>5. /\ tombs' \in Seq(Request) /\ Len(tombs') <= scenario.maxTombs
      /\ forgotten' \in [Request -> Nat]
      /\ SeqRange(tombs') \subseteq SeqRange(tombs) \cup {r}
      /\ \A q \in Request : /\ forgotten'[q] >= forgotten[q] /\ forgotten'[q] <= forgotten[q] + 1
                            /\ q \in SeqRange(tombs) \cup {r} =>
                                 q \in SeqRange(tombs') \/ forgotten'[q] = forgotten[q] + 1
  BY <1>1, <1>2, <1>3, TombstoneAdded
<1>6. \A q \in Request : record'[q] = IF q = r THEN "none" ELSE record[q]
  BY <1>1 DEF ActionInv, DataInv
<1>7. SeqRange(tombs)' = SeqRange(tombs') /\ SeqRange(terminals)' = SeqRange(terminals')
  BY DEF SeqRange
<1>8. DataInv'
  BY <1>1, <1>4, <1>5 DEF ActionInv, DataInv
<1>9. ListsInv'
  <2>1. Len(terminals') <= MaxTerminal
    BY <1>2, <1>3, <1>4
  <2>2. SeqRange(terminals') = {q \in Request : record'[q] = "terminal"}
    <3>1. SeqRange(terminals') \subseteq Request
      BY <1>4, RangeIs
    <3>. QED
      BY <1>3, <1>4, <1>6, <3>1
  <2>3. \A q \in SeqRange(tombs') : record'[q] = "none"
    BY <1>3, <1>5, <1>6
  <2>. QED
    BY <1>1, <1>4, <1>5, <1>7, <2>1, <2>2, <2>3 DEF ListsInv, StoreBounded, Distinct
<1>10. ~storeGone
  BY <1>1 DEF ActionInv, RunsInv
<1>11. RunsInv'
  <2>1. ASSUME NEW q \in Request
        PROVE  /\ runs[q] <= 1 + forgotten'[q]
               /\ record'[q] = "pending" <=> q \in running
               /\ record'[q] = "none" /\ q \notin SeqRange(tombs') => runs[q] <= forgotten'[q]
               /\ record'[q] # "none" => record'[q] = record[q]
    <3>1. /\ runs[q] <= 1 + forgotten[q] /\ (record[q] = "pending" <=> q \in running)
          /\ record[q] = "none" /\ q \notin SeqRange(tombs) => runs[q] <= forgotten[q]
      BY <1>10 DEF ActionInv, RunsInv, Known
    <3>2. /\ runs[q] \in Nat /\ forgotten[q] \in Nat /\ forgotten'[q] \in Nat /\ forgotten'[q] >= forgotten[q]
          /\ q \in SeqRange(tombs) \cup {r} => q \in SeqRange(tombs') \/ forgotten'[q] = forgotten[q] + 1
      BY <1>2, <1>5
    <3>3. record'[q] = "pending" <=> q \in running
      BY <1>1, <1>6, <3>1
    <3>4. record'[q] = "none" /\ q \notin SeqRange(tombs') => runs[q] <= forgotten'[q]
      BY <1>6, <3>1, <3>2
    <3>. QED
      BY <1>6, <3>1, <3>2, <3>3, <3>4
  <2>. QED
    BY <1>1, <1>7, <1>10, <2>1 DEF ActionInv, RunsInv, Known
<1>12. \A b \in Attempt : ReqOf(b)' = ReqOf(b) /\ ContentOf(b)' = ContentOf(b) /\ ReqOf(b) \in Request
  BY <1>1, ScenarioFits DEF ReqOf, ContentOf, ActionInv
<1>13. \A b \in Attempt : HasOutcome(b)' <=> HasOutcome(b)
  BY <1>1 DEF HasOutcome
<1>14. WaitInv'
  BY <1>1, <1>6, <1>12 DEF ActionInv, WaitInv
<1>15. \A q \in Request : forgotten'[q] = 0 => forgotten[q] = 0
  BY <1>2, <1>5
<1>16. ToldInv' /\ AgreeInv'
  BY <1>1, <1>6, <1>12, <1>13, <1>15 DEF ActionInv, ToldInv, AgreeInv
<1>. QED
  BY <1>8, <1>9, <1>11, <1>14, <1>16 DEF ActionInv

\* The store is disposed: who waits is refused, runs go on.
LEMMA StoreDisposed ==
  ASSUME ActionInv, Dispose
  PROVE  ActionInv'
<1>1. /\ storeGone' = TRUE /\ record' = [q \in Request |-> "none"] /\ terminals' = << >> /\ tombs' = << >>
      /\ stage' = [a \in Attempt |-> IF stage[a] = "waiting" THEN "resolved" ELSE stage[a]]
      /\ verdict' = [a \in Attempt |-> IF stage[a] = "waiting" THEN Refusal("unavailable") ELSE verdict[a]]
      /\ UNCHANGED <<content, outcome, forgotten, running, runs, effects, scenario, via, promise>>
  BY DEF Dispose, runVars
<1>2. Refusal("unavailable") \in Verdicts /\ Refusal("unavailable").kind \notin Delivered
  BY DEF Refusal, Verdicts, Kinds, Refused, Delivered
<1>3. << >> \in Seq(Request) /\ Len(<< >>) = 0
  BY EmptySeq
<1>4. DataInv'
  BY <1>1, <1>2, <1>3 DEF ActionInv, DataInv, Late
<1>5. ListsInv'
  <2>1. SeqRange(terminals)' = {} /\ SeqRange(tombs)' = {}
    BY <1>1 DEF SeqRange
  <2>2. scenario'.maxTombs \in Nat /\ MaxTerminal \in Nat
    BY <1>1, ScenarioFits DEF ActionInv
  <2>. QED
    BY <1>1, <1>3, <2>1, <2>2 DEF ListsInv, StoreBounded, Distinct
<1>6. RunsInv'
  BY <1>1 DEF ActionInv, RunsInv
<1>7. \A b \in Attempt : ReqOf(b)' = ReqOf(b) /\ ContentOf(b)' = ContentOf(b) /\ ReqOf(b) \in Request
  BY <1>1, ScenarioFits DEF ReqOf, ContentOf, ActionInv
<1>8. \A b \in Attempt : HasOutcome(b)' => HasOutcome(b) /\ verdict'[b] = verdict[b]
  BY <1>1, <1>2 DEF HasOutcome
<1>9. WaitInv'
  BY <1>1 DEF ActionInv, WaitInv, Early
<1>10. ToldInv' /\ AgreeInv'
  BY <1>1, <1>7, <1>8 DEF ActionInv, ToldInv, AgreeInv
<1>. QED
  BY <1>4, <1>5, <1>6, <1>9, <1>10 DEF ActionInv

-----------------------------------------------------------------------------

\* A connection stays in one of its standings.
StandingsInv == standing \in [Conn -> Standing]

LEMMA StandingsStep ==
  ASSUME StandingsInv, [ANext]_aVars
  PROVE  StandingsInv'
<1>1. CASE UNCHANGED authorityVars
  BY <1>1 DEF StandingsInv, authorityVars
<1>2. ASSUME NEW c \in Conn, COpen(c) \/ CEnd(c) \/ CClose(c) PROVE StandingsInv'
  BY <1>2 DEF COpen, CEnd, CClose, Bereft, Standing, StandingsInv
<1>3. ASSUME NEW c, NEW s, CSpeak(c, s) PROVE StandingsInv'
  BY <1>3 DEF CSpeak, Bereft, Standing, StandingsInv
<1>4. CASE CStopSessions \/ CStopAll
  BY <1>4 DEF CStopSessions, CStopAll, Bereft, Standing, StandingsInv
<1>5. CASE Connections
  BY <1>2, <1>3, <1>4, <1>5 DEF Connections, Resume
<1>6. ASSUME NEW a \in Attempt, Arrive(a) PROVE StandingsInv'
  BY <1>1, <1>3, <1>6 DEF Arrive
<1>7. ASSUME NEW a \in Attempt, (\E c \in Conn : Send(a, c)) \/ Authorize(a) \/ Respond(a)
      PROVE  UNCHANGED authorityVars
  BY <1>7 DEF Send, Authorize, Respond, RespondIf
<1>8. ASSUME NEW c \in Conn, ClientLeaves(c) PROVE UNCHANGED authorityVars
  BY <1>8 DEF ClientLeaves
<1>9. ASSUME NEW r \in Request, ForgetOutcome(r) \/ \E ok \in BOOLEAN : HandlerSettles(r, ok)
      PROVE  UNCHANGED authorityVars
  BY <1>9 DEF ForgetOutcome, HandlerSettles
<1>10. Dispose => CStopAll
  BY DEF Dispose
<1>11. UNCHANGED aVars => UNCHANGED authorityVars
  BY DEF aVars
<1>. QED
  BY <1>1, <1>4, <1>5, <1>6, <1>7, <1>8, <1>9, <1>10, <1>11 DEF ANext

LEMMA ActionStep ==
  ASSUME ActionInv, [ANext]_aVars
  PROVE  ActionInv'
<1>0. /\ via \in [Attempt -> Conn \cup {NoConn}]
      /\ stage \in [Attempt -> Early \cup {"waiting"} \cup Late]
      /\ promise \in [Attempt -> {"none", "pending", "settled", "rejected"}]
  BY DEF ActionInv, DataInv
<1>1. CASE Connections \/ UNCHANGED aVars
  <2>1. UNCHANGED <<attemptVars, storeVars, runVars>>
    BY <1>1 DEF Connections, aVars
  <2>. QED
    BY <1>0, <2>1, Quiet DEF attemptVars
<1>2. ASSUME NEW a \in Attempt, NEW c \in Conn, Send(a, c) PROVE ActionInv'
  <2>1. /\ UNCHANGED <<scenario, verdict, storeVars, runVars>>
        /\ stage[a] = "unsent" /\ stage' = [stage EXCEPT ![a] = "sent"]
        /\ via' = [via EXCEPT ![a] = c] /\ promise' = [promise EXCEPT ![a] = "pending"]
    BY <1>2 DEF Send
  <2>2. \A b \in Attempt : stage'[b] = stage[b] \/ (stage[b] \in Early /\ stage'[b] \in Early)
    BY <1>0, <2>1 DEF Early
  <2>. QED
    BY <1>0, <2>1, <2>2, Quiet DEF Early
<1>3. ASSUME NEW c \in Conn, ClientLeaves(c) PROVE ActionInv'
  BY <1>0, <1>3, Quiet DEF ClientLeaves
<1>4. ASSUME NEW a \in Attempt, Respond(a) PROVE ActionInv'
  <2>1. /\ UNCHANGED <<scenario, via, verdict, storeVars, runVars>> /\ stage[a] = "resolved"
        /\ \E to \in {"answered", "suppressed"} : stage' = [stage EXCEPT ![a] = to]
        /\ promise' \in [Attempt -> {"none", "pending", "settled", "rejected"}]
    BY <1>0, <1>4 DEF Respond, RespondIf
  <2>2. \A b \in Attempt : stage'[b] = stage[b] \/ (stage[b] \in Late /\ stage'[b] \in Late)
    BY <1>0, <2>1 DEF Late
  <2>3. stage' \in [Attempt -> Early \cup {"waiting"} \cup Late]
    BY <1>0, <2>1 DEF Late
  <2>. QED
    BY <1>0, <2>1, <2>2, <2>3, Quiet
<1>5. ASSUME NEW a \in Attempt, stage[a] \in Early, UNCHANGED <<scenario, via, promise>>,
             Answer(a, Refusal("rejected"))
      PROVE  ActionInv'
  <2>1. Refusal("rejected") \in Verdicts /\ Refusal("rejected").kind \in Refused
    BY DEF Refusal, Verdicts, Kinds, Refused
  <2>. QED
    BY <1>5, <2>1, Answered
<1>6. ASSUME NEW a \in Attempt, stage[a] \in Early, UNCHANGED <<scenario, via, promise>>,
             NEW to \in {"authorizing", "dropped", "thrown"}, stage' = [stage EXCEPT ![a] = to],
             UNCHANGED <<verdict, storeVars, runVars>>
      PROVE  ActionInv'
  <2>1. \A b \in Attempt : stage'[b] = stage[b] \/ (stage[b] \in Early /\ stage'[b] \in Early)
    BY <1>0, <1>6 DEF Early
  <2>2. stage' \in [Attempt -> Early \cup {"waiting"} \cup Late]
    BY <1>0, <1>6 DEF Early
  <2>. QED
    BY <1>0, <1>6, <2>1, <2>2, Quiet
<1>7. ASSUME NEW a \in Attempt, Arrive(a) PROVE ActionInv'
  <2>1. stage[a] \in Early /\ UNCHANGED <<scenario, via, promise>>
    BY <1>7 DEF Arrive, Early
  <2>2. CASE Accept(a)
    BY <1>5, <1>6, <2>1, <2>2, Executed DEF Accept
  <2>3. CASE stage' = [stage EXCEPT ![a] = "dropped"] /\ UNCHANGED <<verdict, storeVars, runVars>>
    BY <1>6, <2>1, <2>3
  <2>. QED
    BY <1>7, <2>2, <2>3 DEF Arrive
<1>8. ASSUME NEW a \in Attempt, Authorize(a) PROVE ActionInv'
  <2>1. stage[a] \in Early /\ UNCHANGED <<scenario, via, promise>>
    BY <1>8 DEF Authorize, Early
  <2>. QED
    BY <1>5, <1>8, <2>1, Executed DEF Authorize
<1>9. ASSUME NEW r \in Request, NEW ok \in BOOLEAN, HandlerSettles(r, ok) PROVE ActionInv'
  BY <1>9, SettledOnce, SettledLate
<1>. QED
  BY <1>1, <1>2, <1>3, <1>4, <1>7, <1>8, <1>9, Forgotten, StoreDisposed DEF ANext

\* A request of a client runs at most once, as long as its tombstone is kept, and
\* has one outcome, whoever asks again; what execute(), settle() and
\* remove_terminal() keep of it is bounded and consistent.
THEOREM RequestsRunOnce == ASpec => []ActionsOnce
<1>1. ActionInv /\ StandingsInv /\ [ANext]_aVars => ActionInv' /\ StandingsInv'
  BY ActionStep, StandingsStep
<1>2. AInit => ActionInv /\ StandingsInv
  <2>1. AInit => StandingsInv
    BY DEF AInit, CInit, StandingsInv, Standing
  <2>. QED
    BY <2>1, ActionInit
<1>3. ActionInv /\ StandingsInv => ActionsOnce
  <2>. SUFFICES ASSUME ActionInv, StandingsInv PROVE ActionsOnce
    OBVIOUS
  <2>1. ATypeOK
    <3>1. \A a \in Attempt : verdict[a].kind \in {"none"} \cup Delivered \cup Refused
      BY DEF ActionInv, DataInv, Verdicts, Kinds
    <3>2. \A r \in Request : effects[r] <= runs[r]
      BY DEF ActionInv, RunsInv
    <3>. QED
      BY <3>1, <3>2 DEF ActionInv, DataInv, StandingsInv, ATypeOK, Early, Late
  <2>2. AtMostOnce
    BY DEF ActionInv, RunsInv, AtMostOnce
  <2>3. StoreBounded
    BY DEF ActionInv, ListsInv
  <2>4. ASSUME NEW a \in Attempt, NEW b \in Attempt
        PROVE  /\ HasOutcome(a) /\ verdict[a].ok => effects[ReqOf(a)] > 0
               /\ HasOutcome(a) /\ HasOutcome(b) /\ ReqOf(a) = ReqOf(b) /\ forgotten[ReqOf(a)] = 0
                    => /\ verdict[a].run = verdict[b].run /\ verdict[a].ok = verdict[b].ok
                       /\ ContentOf(a) = ContentOf(b)
    <3>1. ReqOf(a) \in Request
      BY ScenarioFits DEF ActionInv
    <3>2. HasOutcome(a) /\ verdict[a].ok => effects[ReqOf(a)] > 0
      BY DEF ActionInv, ToldInv
    <3>3. ASSUME HasOutcome(a), HasOutcome(b), ReqOf(a) = ReqOf(b), forgotten[ReqOf(a)] = 0
          PROVE  verdict[a].run = verdict[b].run
      <4>1. /\ verdict[a].run > 0 /\ verdict[a].run <= runs[ReqOf(a)]
            /\ verdict[b].run > 0 /\ verdict[b].run <= runs[ReqOf(a)]
        BY <3>3 DEF ActionInv, ToldInv
      <4>2. runs[ReqOf(a)] <= 1
        BY <3>1, <3>3 DEF ActionInv, RunsInv
      <4>3. runs[ReqOf(a)] \in Nat /\ verdict[a].run \in Nat /\ verdict[b].run \in Nat
        BY <3>1 DEF ActionInv, DataInv, Verdicts
      <4>. QED
        BY <4>1, <4>2, <4>3
    <3>. QED
      BY <3>2, <3>3 DEF ActionInv, AgreeInv
  <2>5. OutcomesAgree
    BY <2>4 DEF OutcomesAgree, HasOutcome, Late
  <2>. QED
    BY <2>1, <2>2, <2>3, <2>5 DEF ActionsOnce
<1>. QED
  BY <1>1, <1>2, <1>3, PTL DEF ASpec
=============================================================================
