----------------------- MODULE LocusPersistenceProofs -----------------------
(***************************************************************************)
(* Proofs about LocusAuthority, for any set of calls, with or without a    *)
(* gate, and then about LocusPersistence, whose gate writes to disk, for   *)
(* any contents of the commits and any number of restarts.                 *)
(***************************************************************************)
EXTENDS LocusPersistence, SequenceTheorems, TLAPS

-----------------------------------------------------------------------------
(* The authority                                                            *)

LEMMA EmptyQueue == << >> \in Seq(Entry) /\ << >> \in Seq(Task)
  OBVIOUS

\* What drain() may start: the queue it is given has an entry to shift.
LEMMA BeginType ==
  ASSUME TypeOK,
         NEW q \in Seq(Entry), q # << >>,
         NEW out \in [Task -> Outcome],
         Begin(q, out), called' \in Seq(Task), gated' = gated
  PROVE  TypeOK'
<1>1. Head(q) \in Entry /\ Tail(q) \in Seq(Entry)
  OBVIOUS
<1>2. Head(q).task \in Task /\ Head(q).kind \in Kind
  BY <1>1 DEF Entry
<1>3. Len(mapLog) \in Nat /\ Append(mapLog, Head(q).task) \in Seq(Task)
  BY <1>2 DEF TypeOK
<1>4. Head(q).task # NoTask
  BY <1>2, NoTaskAssumption
<1>5. \A code \in Outcome : [out EXCEPT ![Head(q).task] = code] \in [Task -> Outcome]
  OBVIOUS
<1>6. \A code \in Outcome : \A S : Reject(S, Tail(q), out, code) \in [Task -> Outcome]
  BY DEF Reject
<1>7. {"prepare", "noop", "terminal"} \subseteq Outcome
  BY DEF Outcome, Success, Rejection
<1>8. CASE Head(q).kind = "barrier"
  BY <1>1, <1>2, <1>4, <1>8 DEF TypeOK, Begin
<1>9. CASE Head(q).kind = "mutation"
  <2>1. CASE \E code \in {"prepare", "noop"} : SettleAs(Head(q).task, Tail(q), out, code)
    BY <1>1, <1>2, <1>3, <1>4, <1>5, <1>7, <1>9, <2>1 DEF TypeOK, Begin, SettleAs
  <2>2. CASE gated /\ phase' = "gate" /\ queue' = Tail(q) /\ outcome' = out
             /\ UNCHANGED <<state, mapLog, headRev, serving>>
    BY <1>1, <1>2, <1>3, <1>4, <1>9, <2>2 DEF TypeOK, Begin
  <2>3. CASE ~gated /\ Accept(Head(q).task, Tail(q), out, Len(mapLog))
    <3>1. CASE Terminal(Head(q).task, Tail(q), out, "terminal")
      <4>1. outcome' \in [Task -> Outcome]
        BY <1>6, <1>7, <3>1 DEF Terminal
      <4>2. QED
        BY <1>1, <1>2, <1>3, <1>4, <1>9, <2>3, <3>1, <4>1, EmptyQueue DEF TypeOK, Begin, Terminal
    <3>2. CASE ~Terminal(Head(q).task, Tail(q), out, "terminal")
      BY <1>1, <1>2, <1>3, <1>4, <1>9, <2>3, <3>2 DEF TypeOK, Begin, Accept
    <3>3. QED
      BY <3>1, <3>2
  <2>4. QED
    BY <1>9, <2>1, <2>2, <2>3 DEF Begin
<1>10. QED
  <2>1. Head(q).kind \in {"barrier", "mutation"}
    BY <1>2 DEF Kind
  <2>2. QED
    BY <2>1, <1>8, <1>9

LEMMA TypeInit == Init => TypeOK
<1> SUFFICES ASSUME Init PROVE TypeOK
  OBVIOUS
<1>1. outcome \in [Task -> Outcome]
  BY DEF Init, Outcome
<1>2. QED
  BY <1>1, EmptyQueue DEF Init, TypeOK

LEMMA TypeStep == TypeOK /\ [Next]_vars => TypeOK'
<1> SUFFICES ASSUME TypeOK, [Next]_vars PROVE TypeOK'
  OBVIOUS
<1>g. gated' = gated
  BY DEF Next, Continue, vars
<1>0. {"none", "pending", "done", "completed", "closed", "terminal", "gate",
       "ingestion", "operation"} \subseteq Outcome
  BY DEF Outcome, Success, Rejection
<1>1. ASSUME NEW t \in Task, NEW kind \in Kind, Submit(t, kind) PROVE TypeOK'
  <2>1. CASE state # "open"
    BY <1>g, <1>0, <1>1, <2>1 DEF TypeOK, Submit
  <2>2. CASE state = "open"
    <3> DEFINE q == Enqueue(queue, [task |-> t, kind |-> kind])
               out == [outcome EXCEPT ![t] = "pending"]
    <3>1. q \in Seq(Entry) /\ q # << >>
      <4>1. [task |-> t, kind |-> kind] \in Entry
        BY DEF Entry
      <4>2. queue \in Seq(Entry)
        BY DEF TypeOK
      <4>3. QED
        BY <4>1, <4>2, AppendProperties DEF Enqueue
    <3>2. out \in [Task -> Outcome]
      BY <1>0 DEF TypeOK
    <3>3. called' \in Seq(Task)
      <4>1. called' = Append(called, t)
        BY <1>1, <2>2 DEF Submit
      <4>2. QED
        BY <4>1, AppendProperties DEF TypeOK
    <3>4. CASE active # NoTask
      <4>1. /\ queue' = q /\ outcome' = out
            /\ UNCHANGED <<state, active, phase, base, mapLog, headRev, managed,
                           serving, disposed>>
        BY <1>1, <2>2, <3>4 DEF Submit
      <4> HIDE DEF q, out
      <4>2. QED
        BY <1>g, <3>1, <3>2, <3>3, <4>1 DEF TypeOK
    <3>5. CASE active = NoTask
      <4>1. Begin(q, out)
        BY <1>1, <2>2, <3>5 DEF Submit
      <4> HIDE DEF q, out
      <4>2. QED
        BY <1>g, <3>1, <3>2, <3>3, <4>1, BeginType
    <3>6. QED
      BY <3>4, <3>5
  <2>3. QED
    BY <2>1, <2>2
<1>2. ASSUME NEW t \in Task, DirectWrite(t) PROVE TypeOK'
  BY <1>g, <1>0, <1>2 DEF TypeOK, DirectWrite
<1>3. CASE Dispose
  BY <1>g, <1>0, <1>3, EmptyQueue DEF TypeOK, Dispose, Reject
<1>4. CASE GatePasses
  <2>1. active \in Task
    BY <1>4, NoTaskAssumption DEF TypeOK, GatePasses
  <2>2. Append(mapLog, active) \in Seq(Task)
    BY <2>1 DEF TypeOK
  <2>3. QED
    BY <1>g, <1>0, <1>4, <2>1, <2>2, EmptyQueue DEF TypeOK, GatePasses, Accept, Terminal, Reject
<1>5. CASE GateRejects
  BY <1>g, <1>0, <1>5 DEF TypeOK, GateRejects, SettleAs
<1>6. CASE Ingest
  <2>1. CASE Terminal(active, queue, outcome, "ingestion")
    BY <1>g, <1>0, <1>6, <2>1, EmptyQueue DEF TypeOK, Ingest, Terminal, Reject
  <2>2. CASE ~Terminal(active, queue, outcome, "ingestion")
    BY <1>g, <1>0, <1>6, <2>2 DEF TypeOK, Ingest
  <2>3. QED
    BY <2>1, <2>2
<1>7. CASE BarrierSettles
  BY <1>g, <1>0, <1>7 DEF TypeOK, BarrierSettles, SettleAs
<1>8. CASE Finish
  <2>1. CASE queue # << >> /\ Begin(queue, outcome)
    BY <1>g, <1>8, <2>1, BeginType DEF TypeOK, Finish
  <2>2. CASE ~(queue # << >> /\ Begin(queue, outcome))
    BY <1>g, <1>8, <2>2 DEF TypeOK, Finish, ReleaseIfIdle
  <2>3. QED
    BY <2>1, <2>2
<1>9. CASE UNCHANGED vars
  BY <1>g, <1>9 DEF TypeOK, vars
<1>10. QED
  BY <1>1, <1>2, <1>3, <1>4, <1>5, <1>6, <1>7, <1>8, <1>9 DEF Next, Call, Continue

\* Every variable keeps its type through every call and continuation
\* (make_locus_exclusive_authority).
THEOREM TypeCorrect == Spec => []TypeOK
  BY TypeInit, TypeStep, PTL DEF Spec

-----------------------------------------------------------------------------
(* What the state says of the rest: clients are served exactly while it is  *)
(* "open", the map is owned until it is "closed", only an open authority    *)
(* has tasks waiting, and as long as it is open or a transition is under    *)
(* way the head of the history follows the map, one step behind while       *)
(* observers run.                                                           *)

LifecycleInv ==
  /\ serving <=> (state = "open")
  /\ managed <=> (state # "closed")
  /\ (state = "closed") => (active = NoTask)
  /\ ~disposed => state \in {"open", "failed"}
  /\ (state # "open") => (queue = << >>)

HistoryInv ==
  /\ phase \in {"gate", "notify"} => state \in {"open", "closing"}
  /\ phase = "gate" => base = Len(mapLog)
  /\ state = "open" \/ phase \in {"gate", "notify"} =>
       Len(mapLog) = IF phase = "notify" THEN headRev + 1 ELSE headRev

ControlInv == TypeOK /\ LifecycleInv /\ HistoryInv

\* Starting a task keeps the invariant, from a state with nothing in progress.
LEMMA BeginControl ==
  ASSUME TypeOK, TypeOK', LifecycleInv, HistoryInv,
         phase \notin {"gate", "notify"}, state = "open",
         NEW q \in Seq(Entry), q # << >>, NEW out, Begin(q, out)
  PROVE  LifecycleInv' /\ HistoryInv'
<1>1. Len(mapLog) = headRev /\ Len(mapLog) \in Nat
  BY DEF HistoryInv, TypeOK
<1>2. CASE mapLog' = mapLog /\ headRev' = headRev /\ state' = state /\ serving' = serving
           /\ phase' # "notify" /\ (phase' = "gate" => base' = Len(mapLog))
           /\ managed' = managed /\ disposed' = disposed
  BY <1>1, <1>2 DEF LifecycleInv, HistoryInv
<1>3. CASE mapLog' = mapLog /\ headRev' = headRev /\ state' = "failed" /\ ~serving'
           /\ phase' = "settled" /\ queue' = << >> /\ managed' = managed /\ disposed' = disposed
  BY <1>3 DEF LifecycleInv, HistoryInv
<1>4. CASE /\ \E t \in Task : mapLog' = Append(mapLog, t)
           /\ headRev' = headRev /\ state' = state /\ serving' = serving
           /\ phase' = "notify" /\ managed' = managed /\ disposed' = disposed
  <2>1. Len(mapLog') = Len(mapLog) + 1
    BY <1>4, AppendProperties DEF TypeOK
  <2>2. QED
    BY <1>1, <1>4, <2>1 DEF LifecycleInv, HistoryInv
<1>5. Head(q) \in Entry
  OBVIOUS
<1>6. Head(q).task \in Task
  BY <1>5 DEF Entry
<1>7. CASE Accept(Head(q).task, Tail(q), out, Len(mapLog)) /\ base' = Len(mapLog)
           /\ UNCHANGED <<managed, disposed>>
  BY <1>3, <1>4, <1>6, <1>7 DEF Accept, Terminal
<1>8. CASE ~Accept(Head(q).task, Tail(q), out, Len(mapLog))
  BY <1>2, <1>8 DEF Begin, SettleAs
<1>9. QED
  BY <1>2, <1>7, <1>8 DEF Begin

LEMMA ControlInit == Init => ControlInv
<1> SUFFICES ASSUME Init PROVE ControlInv
  OBVIOUS
<1>1. TypeOK
  BY TypeInit
<1>2. LifecycleInv /\ HistoryInv
  BY DEF Init, LifecycleInv, HistoryInv
<1>3. QED
  BY <1>1, <1>2 DEF ControlInv

LEMMA ControlStep == ControlInv /\ [Next]_vars => ControlInv'
<1> SUFFICES ASSUME TypeOK, LifecycleInv, HistoryInv, [Next]_vars
             PROVE  LifecycleInv' /\ HistoryInv'
  BY TypeStep DEF ControlInv
<1>0. TypeOK'
  BY TypeStep
<1>1. ASSUME NEW t \in Task, NEW kind \in Kind, Submit(t, kind)
      PROVE  LifecycleInv' /\ HistoryInv'
  <2>1. CASE /\ UNCHANGED <<state, active, phase, base, mapLog, headRev, managed,
                            serving, disposed>>
             /\ state = "open" \/ queue' = queue
    BY <2>1 DEF LifecycleInv, HistoryInv
  <2>2. CASE state = "open" /\ active = NoTask
    <3> DEFINE q == Enqueue(queue, [task |-> t, kind |-> kind])
               out == [outcome EXCEPT ![t] = "pending"]
    <3>1. [task |-> t, kind |-> kind] \in Entry /\ queue \in Seq(Entry)
      BY DEF Entry, TypeOK
    <3>2. q \in Seq(Entry) /\ q # << >>
      BY <3>1, AppendProperties DEF Enqueue
    <3>3. Begin(q, out)
      BY <1>1, <2>2 DEF Submit
    <3>4. phase = "idle"
      BY <2>2 DEF TypeOK
    <3> HIDE DEF q, out
    <3>5. QED
      BY <1>0, <2>2, <3>2, <3>3, <3>4, BeginControl
  <2>3. QED
    BY <1>1, <2>1, <2>2 DEF Submit
<1>2. ASSUME NEW t \in Task, DirectWrite(t) PROVE LifecycleInv' /\ HistoryInv'
  <2>1. state = "closed"
    BY <1>2 DEF DirectWrite, LifecycleInv
  <2>2. phase = "idle"
    BY <2>1 DEF LifecycleInv, TypeOK
  <2>3. QED
    BY <1>2, <2>1, <2>2 DEF DirectWrite, LifecycleInv, HistoryInv
<1>3. CASE Dispose
  <2>1. state \in {"open", "failed"}
    BY <1>3 DEF Dispose, LifecycleInv
  <2>2. CASE active = NoTask
    BY <1>3, <2>1, <2>2 DEF Dispose, LifecycleInv, HistoryInv, TypeOK
  <2>3. CASE active # NoTask
    <3>1. state' = "closing" /\ ~serving' /\ managed /\ managed' = managed
      BY <1>3, <2>1, <2>3 DEF Dispose, LifecycleInv
    <3>2. LifecycleInv'
      BY <1>3, <3>1 DEF Dispose, LifecycleInv
    <3>3. HistoryInv'
      BY <1>3, <2>1, <3>1 DEF Dispose, HistoryInv
    <3>4. QED
      BY <3>2, <3>3
  <2>4. QED
    BY <2>2, <2>3
<1>4. CASE GatePasses
  <2>1. state \in {"open", "closing"} /\ Len(mapLog) = headRev /\ active \in Task
    BY <1>4, NoTaskAssumption DEF GatePasses, HistoryInv, TypeOK
  <2>2. Len(Append(mapLog, active)) = Len(mapLog) + 1
    BY <2>1, AppendProperties DEF TypeOK
  <2>3. QED
    BY <1>4, <2>1, <2>2 DEF GatePasses, Accept, Terminal, LifecycleInv, HistoryInv
<1>5. CASE GateRejects
  BY <1>5 DEF GateRejects, SettleAs, LifecycleInv, HistoryInv
<1>6. CASE Ingest
  BY <1>6 DEF Ingest, Terminal, LifecycleInv, HistoryInv
<1>7. CASE BarrierSettles
  BY <1>7 DEF BarrierSettles, SettleAs, LifecycleInv, HistoryInv
<1>8. CASE Finish
  <2>1. CASE queue # << >> /\ Begin(queue, outcome)
    <3>1. state = "open" /\ phase = "settled" /\ queue \in Seq(Entry)
      BY <1>8, <2>1 DEF Finish, LifecycleInv, TypeOK
    <3>2. QED
      BY <1>0, <2>1, <3>1, BeginControl
  <2>2. CASE ~(queue # << >> /\ Begin(queue, outcome))
    <3>1. UNCHANGED <<queue, base, mapLog, headRev, serving, disposed>> /\ active' = NoTask
          /\ phase = "settled" /\ phase' = "idle"
      BY <1>8, <2>2 DEF Finish, ReleaseIfIdle
    <3>2. \/ UNCHANGED <<state, managed>>
          \/ state = "closing" /\ state' = "closed" /\ managed' = FALSE
      BY <1>8, <2>2 DEF Finish, ReleaseIfIdle
    <3>3. QED
      BY <3>1, <3>2 DEF LifecycleInv, HistoryInv
  <2>3. QED
    BY <2>1, <2>2
<1>9. CASE UNCHANGED vars
  BY <1>9 DEF vars, LifecycleInv, HistoryInv
<1>10. QED
  BY <1>1, <1>2, <1>3, <1>4, <1>5, <1>6, <1>7, <1>8, <1>9 DEF Next, Call, Continue

\* The inductive invariant of the authority's control: what its state says of
\* ownership, service and the queue, and where the history stands to the map
\* (make_locus_exclusive_authority).
THEOREM ControlInvariant == Spec => []ControlInv
  BY ControlInit, ControlStep, PTL DEF Spec

\* While clients are served the history head is the map's revision, one behind
\* it only while the map's observers run (accept, ingestAccepted).
THEOREM HistoryCurrent == Spec => []ServedHistoryIsCurrent
<1>1. ControlInv => ServedHistoryIsCurrent
  BY DEF ControlInv, LifecycleInv, HistoryInv, TypeOK, ServedHistoryIsCurrent
<1>2. QED
  BY <1>1, ControlInvariant, PTL

\* A transition that waits for its gate is never found stale: the map is owned
\* and does not move until the gate answers (run_mutation, release_if_idle).
THEOREM PreparedCurrent == Spec => []PreparedStillCurrent
<1>1. ControlInv => PreparedStillCurrent
  BY DEF ControlInv, LifecycleInv, HistoryInv, PreparedStillCurrent
<1>2. QED
  BY <1>1, ControlInvariant, PTL

\* A terminal failure freezes the map and the history (terminal, drain).
THEOREM FailureFreezes == Spec => FailureFreezesHistory
<1>1. ControlInv /\ [Next]_vars => [~serving /\ ~disposed => UNCHANGED <<mapLog, headRev>>]_vars
  <2> SUFFICES ASSUME ControlInv, Next, ~serving, ~disposed
               PROVE  UNCHANGED <<mapLog, headRev>>
    OBVIOUS
  <2>1. state = "failed" /\ managed /\ phase \notin {"gate", "notify"}
    BY DEF ControlInv, LifecycleInv, HistoryInv
  <2>2. QED
    BY <2>1 DEF Next, Call, Continue, Submit, DirectWrite, Dispose, GatePasses,
      GateRejects, SettleAs, Ingest, BarrierSettles, Finish
<1>2. QED
  BY <1>1, ControlInvariant, PTL DEF Spec, FailureFreezesHistory

-----------------------------------------------------------------------------
(* What callers are told.  The calls the queue took are numbered by their   *)
(* place in called; c, out and m stand for called, outcome and mapLog.      *)

TurnCodes == Success \cup {"prepare", "gate", "operation"}
SettledIn(out, t) == out[t] \notin {"none", "pending"}
InstalledIn(m, t) == \E i \in 1..Len(m) : m[i] = t

\* A call is taken once, and has an outcome from then on.
Numbered(c, out) ==
  \A i \in 1..Len(c) : out[c[i]] # "none" /\ \A j \in 1..Len(c) : c[i] = c[j] => i = j

\* Whatever was called before a call that had its turn is settled, and before
\* it in the map.
OrderKept(c, out, m) ==
  \A i, j \in 1..Len(c) : i < j =>
    /\ out[c[j]] \in TurnCodes \/ InstalledIn(m, c[j]) => SettledIn(out, c[i])
    /\ \A k, n \in 1..Len(m) : m[k] = c[j] /\ m[n] = c[i] => n < k

\* The tasks of q are the last calls, in their order.
LastCalls(c, q) ==
  /\ Len(q) <= Len(c)
  /\ \A i \in 1..Len(q) : q[i].task = c[Len(c) - Len(q) + i]

\* t has its turn, with the tasks of rest behind it.
Turn(t, rest, out, c, m) ==
  /\ t \in Task /\ rest \in Seq(Entry) /\ out \in [Task -> Outcome]
  /\ c \in Seq(Task) /\ m \in Seq(Task)
  /\ Numbered(c, out) /\ OrderKept(c, out, m) /\ LastCalls(c, rest)
  /\ \A s \in Task : out[s] = "pending" <=> QueuedIn(rest, s) \/ s = t
  /\ \E k \in 1..(Len(c) - Len(rest)) : c[k] = t

LEMMA TurnNumber ==
  ASSUME NEW t, NEW rest, NEW out, NEW c, NEW m, Turn(t, rest, out, c, m)
  PROVE  /\ ~QueuedIn(rest, t)
         /\ \A i, j \in 1..Len(c) : i < j /\ c[j] = t => SettledIn(out, c[i])
<1>1. PICK k \in 1..(Len(c) - Len(rest)) : c[k] = t
  BY DEF Turn
<1>2. Len(c) \in Nat /\ Len(rest) \in Nat /\ Len(rest) <= Len(c)
  BY DEF Turn, LastCalls
<1>3. ASSUME NEW i \in 1..Len(c), NEW n \in 1..Len(rest), rest[n].task = c[i]
      PROVE  i > Len(c) - Len(rest)
  <2>1. c[Len(c) - Len(rest) + n] = c[i] /\ Len(c) - Len(rest) + n \in 1..Len(c)
    BY <1>2, <1>3 DEF Turn, LastCalls
  <2>2. Len(c) - Len(rest) + n = i
    BY <2>1 DEF Turn, Numbered
  <2>3. QED
    BY <1>2, <2>2
<1>4. k \in 1..Len(c)
  BY <1>2
<1>5. ~QueuedIn(rest, t)
  BY <1>1, <1>2, <1>3, <1>4 DEF QueuedIn
<1>6. ASSUME NEW i \in 1..Len(c), NEW j \in 1..Len(c), i < j, c[j] = t
      PROVE  SettledIn(out, c[i])
  <2>1. j = k
    BY <1>1, <1>4, <1>6 DEF Turn, Numbered
  <2>2. c[i] # t
    BY <1>6 DEF Turn, Numbered
  <2>3. ~QueuedIn(rest, c[i])
    BY <1>2, <1>3, <1>6, <2>1 DEF QueuedIn
  <2>4. c[i] \in Task
    BY DEF Turn
  <2>5. out[c[i]] # "pending" /\ out[c[i]] # "none"
    BY <2>2, <2>3, <2>4 DEF Turn, Numbered
  <2>6. QED
    BY <2>5 DEF SettledIn
<1>7. QED
  BY <1>5, <1>6

\* The task that has its turn settles on its own.
LEMMA TurnSettles ==
  ASSUME NEW t, NEW rest, NEW out, NEW c, NEW m, Turn(t, rest, out, c, m),
         NEW code \in Outcome \ {"none", "pending"}
  PROVE  LET now == [out EXCEPT ![t] = code]
         IN /\ now \in [Task -> Outcome]
            /\ Numbered(c, now) /\ OrderKept(c, now, m)
            /\ \A s \in Task : now[s] = "pending" <=> QueuedIn(rest, s)
<1> DEFINE now == [out EXCEPT ![t] = code]
<1>1. now \in [Task -> Outcome]
  BY DEF Turn
<1>2. \A s \in Task : now[s] = IF s = t THEN code ELSE out[s]
  BY DEF Turn
<1>3. t \in Task /\ \A i \in 1..Len(c) : c[i] \in Task
  BY DEF Turn
<1> HIDE DEF now
<1>4. Numbered(c, now)
  BY <1>2, <1>3 DEF Turn, Numbered
<1>5. ASSUME NEW i \in 1..Len(c), NEW j \in 1..Len(c), i < j,
             now[c[j]] \in TurnCodes \/ InstalledIn(m, c[j])
      PROVE  SettledIn(now, c[i])
  <2>1. CASE c[j] = t
    BY <1>2, <1>3, <1>5, <2>1, TurnNumber DEF SettledIn
  <2>2. CASE c[j] # t
    <3>1. SettledIn(out, c[i])
      BY <1>2, <1>3, <1>5, <2>2 DEF Turn, OrderKept
    <3>2. QED
      BY <1>2, <1>3, <3>1 DEF SettledIn
  <2>3. QED
    BY <2>1, <2>2
<1>6. OrderKept(c, now, m)
  BY <1>5 DEF Turn, OrderKept
<1>7. \A s \in Task : now[s] = "pending" <=> QueuedIn(rest, s)
  <2>1. ~QueuedIn(rest, t)
    BY TurnNumber
  <2>2. \A s \in Task : out[s] = "pending" <=> QueuedIn(rest, s) \/ s = t
    BY DEF Turn
  <2>3. QED
    BY <1>2, <2>1, <2>2
<1>8. QED
  BY <1>1, <1>4, <1>6, <1>7 DEF now

\* Everything that waits is rejected, and S with it.
LEMMA RejectKeepsOrder ==
  ASSUME NEW q \in Seq(Entry), NEW out \in [Task -> Outcome], NEW c \in Seq(Task), NEW m,
         Numbered(c, out), OrderKept(c, out, m), NEW S \in SUBSET Task,
         NEW code \in {"closed", "terminal", "ingestion"}
  PROVE  LET now == Reject(S, q, out, code)
         IN /\ now \in [Task -> Outcome]
            /\ Numbered(c, now) /\ OrderKept(c, now, m)
            /\ \A s \in Task : now[s] = "pending" =>
                  out[s] = "pending" /\ ~QueuedIn(q, s) /\ s \notin S
<1> DEFINE now == Reject(S, q, out, code)
<1>0. code \in Outcome /\ code \notin TurnCodes /\ code \notin {"none", "pending"}
  BY DEF Outcome, Success, Rejection, TurnCodes
<1>1. now \in [Task -> Outcome]
  BY <1>0 DEF Reject
<1>2. \A s \in Task : now[s] = out[s] \/ (now[s] = code /\ (s \in S \/ QueuedIn(q, s)))
  BY DEF Reject
<1>3. \A s \in Task : s \in S \/ QueuedIn(q, s) => now[s] = code
  BY DEF Reject
<1>4. \A i \in 1..Len(c) : c[i] \in Task
  OBVIOUS
<1> HIDE DEF now
<1>5. Numbered(c, now)
  BY <1>0, <1>2, <1>4 DEF Numbered
<1>6. OrderKept(c, now, m)
  <2>1. \A s \in Task : SettledIn(out, s) => SettledIn(now, s)
    BY <1>0, <1>2 DEF SettledIn
  <2>2. \A s \in Task : now[s] \in TurnCodes => out[s] \in TurnCodes
    BY <1>0, <1>2
  <2>3. QED
    BY <1>4, <2>1, <2>2 DEF OrderKept
<1>7. \A s \in Task : now[s] = "pending" => out[s] = "pending" /\ ~QueuedIn(q, s) /\ s \notin S
  BY <1>0, <1>2, <1>3
<1>8. QED
  BY <1>1, <1>5, <1>6, <1>7 DEF now

\* The map takes the commit of the task that has its turn.
LEMMA AcceptKeepsOrder ==
  ASSUME NEW t, NEW rest, NEW out, NEW c, NEW m, Turn(t, rest, out, c, m),
         ~InstalledIn(m, t)
  PROVE  OrderKept(c, out, Append(m, t))
<1> DEFINE now == Append(m, t)
<1>1. m \in Seq(Task) /\ t \in Task /\ out[t] = "pending"
  BY DEF Turn
<1>2. /\ Len(now) = Len(m) + 1 /\ Len(m) \in Nat
      /\ \A k \in 1..Len(now) : now[k] = IF k = Len(m) + 1 THEN t ELSE m[k]
  BY <1>1
<1> HIDE DEF now
<1>3. ASSUME NEW i \in 1..Len(c), NEW j \in 1..Len(c), i < j,
             out[c[j]] \in TurnCodes \/ InstalledIn(now, c[j])
      PROVE  SettledIn(out, c[i])
  <2>1. CASE c[j] = t
    BY <1>3, <2>1, TurnNumber
  <2>2. CASE c[j] # t
    <3>1. out[c[j]] \in TurnCodes \/ InstalledIn(m, c[j])
      BY <1>2, <1>3, <2>2 DEF InstalledIn
    <3>2. QED
      BY <1>3, <3>1 DEF Turn, OrderKept
  <2>3. QED
    BY <2>1, <2>2
<1>4. ASSUME NEW i \in 1..Len(c), NEW j \in 1..Len(c), i < j,
             NEW k \in 1..Len(now), NEW n \in 1..Len(now), now[k] = c[j], now[n] = c[i]
      PROVE  n < k
  <2>1. CASE n = Len(m) + 1
    <3>1. c[i] = t /\ c[j] # t
      BY <1>2, <1>4, <2>1 DEF Turn, Numbered
    <3>2. InstalledIn(m, c[j])
      BY <1>2, <1>4, <3>1 DEF InstalledIn
    <3>3. SettledIn(out, t)
      BY <1>4, <3>1, <3>2 DEF Turn, OrderKept
    <3>4. QED
      BY <1>1, <3>3 DEF SettledIn
  <2>2. CASE n # Len(m) + 1
    <3>1. CASE k = Len(m) + 1
      BY <1>2, <2>2, <3>1
    <3>2. CASE k # Len(m) + 1
      <4>1. m[k] = c[j] /\ m[n] = c[i] /\ k \in 1..Len(m) /\ n \in 1..Len(m)
        BY <1>2, <1>4, <2>2, <3>2
      <4>2. QED
        BY <1>4, <4>1 DEF Turn, OrderKept
    <3>3. QED
      BY <3>1, <3>2
  <2>3. QED
    BY <2>1, <2>2
<1>5. QED
  BY <1>3, <1>4 DEF OrderKept, now

-----------------------------------------------------------------------------
(* The inductive invariant of the calls: CallInv says who waits, who runs    *)
(* and in which order they were called, MapInv who is in the map and what    *)
(* its caller was told.                                                      *)

Underway == {"gate", "notify", "barrier"}

\* The running task of an open authority is the call before the waiting ones.
InTurn(t, rest, c) ==
  state = "open" => Len(rest) < Len(c) /\ t = c[Len(c) - Len(rest)]

\* Whoever is acknowledged is in the canonical part of the map.
Acknowledged(out, c) ==
  \A i \in 1..Len(c) : out[c[i]] = "done" =>
    \E r \in 1..headRev : r <= Len(mapLog) /\ mapLog[r] = c[i]

CallInv ==
  /\ Numbered(called, outcome) /\ OrderKept(called, outcome, mapLog)
  /\ LastCalls(called, queue)
  /\ \A t \in Task : outcome[t] = "pending" <=>
       QueuedIn(queue, t) \/ (t = active /\ phase \in Underway)
  /\ phase \in Underway => \E k \in 1..(Len(called) - Len(queue)) : called[k] = active
  /\ active # NoTask => InTurn(active, queue, called)
  /\ queue # << >> => active # NoTask

MapInv ==
  /\ headRev <= Len(mapLog)
  /\ phase = "notify" => mapLog # << >> /\ mapLog[Len(mapLog)] = active
  /\ \A t \in Task : InstalledIn(mapLog, t) =>
       outcome[t] \in {"done", "ingestion"} \/ (t = active /\ phase = "notify")
  /\ Acknowledged(outcome, called)

TellInv == ControlInv /\ CallInv /\ MapInv

\* t has its turn in the present state.
TurnNow(t, rest, out, c) ==
  /\ Turn(t, rest, out, c, mapLog) /\ InTurn(t, rest, c) /\ Acknowledged(out, c)
  /\ headRev \in Nat /\ headRev <= Len(mapLog)
  /\ \A s \in Task : InstalledIn(mapLog, s) =>
       out[s] \in {"done", "ingestion"} \/ (s = t /\ phase = "notify")

\* The task in turn settles alone, without a commit.
LEMMA SettleKeeps ==
  ASSUME NEW t, NEW rest, NEW out, NEW c, TurnNow(t, rest, out, c), phase # "notify",
         NEW code \in Outcome \ {"none", "pending", "done"}, SettleAs(t, rest, out, code),
         active' = t, called' = c, NoTask # t
  PROVE  CallInv' /\ MapInv'
<1> DEFINE now == [out EXCEPT ![t] = code]
<1>1. /\ now \in [Task -> Outcome] /\ Numbered(c, now) /\ OrderKept(c, now, mapLog)
      /\ \A s \in Task : now[s] = "pending" <=> QueuedIn(rest, s)
  BY TurnSettles DEF TurnNow
<1>2. /\ outcome' = now /\ queue' = rest /\ phase' = "settled"
      /\ state' = state /\ mapLog' = mapLog /\ headRev' = headRev
  BY DEF SettleAs
<1>3. \A s \in Task : now[s] = IF s = t THEN code ELSE out[s]
  BY DEF TurnNow, Turn
<1>4. c \in Seq(Task) /\ \A i \in 1..Len(c) : c[i] \in Task
  BY DEF TurnNow, Turn
<1> HIDE DEF now
<1>5. CallInv'
  BY <1>1, <1>2 DEF CallInv, TurnNow, Turn, InTurn, Underway
<1>6. \A s \in Task : InstalledIn(mapLog, s) => now[s] \in {"done", "ingestion"}
  <2>1. ~InstalledIn(mapLog, t)
    BY DEF TurnNow, Turn
  <2>2. QED
    BY <1>3, <2>1 DEF TurnNow
<1>7. Acknowledged(now, c)
  BY <1>3, <1>4 DEF TurnNow, Acknowledged
<1>8. MapInv'
  BY <1>2, <1>6, <1>7 DEF MapInv, TurnNow, Acknowledged
<1>9. QED
  BY <1>5, <1>8

\* The task in turn goes on to wait: for its gate or for its operation.
LEMMA WaitKeeps ==
  ASSUME NEW t, NEW rest, NEW out, NEW c, TurnNow(t, rest, out, c), phase # "notify",
         outcome' = out, queue' = rest, phase' \in {"gate", "barrier"},
         UNCHANGED <<state, mapLog, headRev>>,
         active' = t, called' = c, NoTask # t
  PROVE  CallInv' /\ MapInv'
<1>1. CallInv'
  BY DEF CallInv, TurnNow, Turn, InTurn, Underway
<1>2. MapInv'
  BY DEF MapInv, TurnNow, Acknowledged
<1>3. QED
  BY <1>1, <1>2

\* The task in turn takes everything that waits down with it.
LEMMA TerminalKeeps ==
  ASSUME NEW t, NEW rest, NEW out, NEW c, TurnNow(t, rest, out, c),
         NEW code \in {"terminal", "ingestion"}, phase = "notify" => code = "ingestion",
         Terminal(t, rest, out, code), active' = t, called' = c, NoTask # t
  PROVE  CallInv' /\ MapInv'
<1> DEFINE now == Reject({t}, rest, out, code)
<1>1. t \in Task /\ c \in Seq(Task) /\ out \in [Task -> Outcome] /\ rest \in Seq(Entry)
      /\ Numbered(c, out) /\ OrderKept(c, out, mapLog)
  BY DEF TurnNow, Turn
<1>2. /\ now \in [Task -> Outcome] /\ Numbered(c, now) /\ OrderKept(c, now, mapLog)
      /\ \A s \in Task : now[s] = "pending" =>
           out[s] = "pending" /\ ~QueuedIn(rest, s) /\ s \notin {t}
  BY <1>1, RejectKeepsOrder
<1>3. /\ outcome' = now /\ queue' = << >> /\ phase' = "settled" /\ state' = "failed"
      /\ mapLog' = mapLog /\ headRev' = headRev
  BY DEF Terminal
<1>4. \A s \in Task : now[s] = IF s = t \/ QueuedIn(rest, s) THEN code ELSE out[s]
  BY DEF Reject
<1>5. \A i \in 1..Len(c) : c[i] \in Task
  BY <1>1
<1>6. \A s \in Task : out[s] = "pending" <=> QueuedIn(rest, s) \/ s = t
  BY DEF TurnNow, Turn
<1> HIDE DEF now
<1>7. \A s \in Task : now[s] # "pending"
  BY <1>2, <1>6
<1>8. CallInv'
  <2>1. LastCalls(c, << >>) /\ \A s \in Task : ~QueuedIn(<< >>, s)
    BY <1>1 DEF LastCalls, QueuedIn
  <2>2. QED
    BY <1>2, <1>3, <1>7, <2>1 DEF CallInv, InTurn, Underway
<1>9. \A s \in Task : InstalledIn(mapLog, s) => now[s] \in {"done", "ingestion"}
  BY <1>4, <1>6 DEF TurnNow
<1>10. Acknowledged(now, c)
  BY <1>4, <1>5 DEF TurnNow, Acknowledged
<1>11. MapInv'
  BY <1>3, <1>9, <1>10 DEF MapInv, TurnNow, Acknowledged
<1>12. QED
  BY <1>8, <1>11

\* The map takes the commit of the task in turn, or the authority fails.
LEMMA AcceptKeeps ==
  ASSUME NEW t, NEW rest, NEW out, NEW c, NEW b, TurnNow(t, rest, out, c), phase # "notify",
         Accept(t, rest, out, b), active' = t, called' = c, NoTask # t
  PROVE  CallInv' /\ MapInv'
<1>1. CASE Terminal(t, rest, out, "terminal")
  BY <1>1, TerminalKeeps
<1>2. CASE /\ mapLog' = Append(mapLog, t) /\ queue' = rest /\ outcome' = out
           /\ phase' = "notify" /\ UNCHANGED <<state, headRev, serving>>
  <2>1. t \in Task /\ mapLog \in Seq(Task) /\ out[t] = "pending" /\ Len(mapLog) \in Nat
    BY DEF TurnNow, Turn
  <2>2. ~InstalledIn(mapLog, t)
    BY <2>1 DEF TurnNow
  <2>3. OrderKept(c, out, mapLog')
    BY <1>2, <2>2, AcceptKeepsOrder DEF TurnNow
  <2>4. /\ Len(mapLog') = Len(mapLog) + 1
        /\ \A k \in 1..Len(mapLog') : mapLog'[k] = IF k = Len(mapLog) + 1 THEN t ELSE mapLog[k]
    BY <1>2, <2>1
  <2>5. CallInv'
    BY <1>2, <2>3 DEF CallInv, TurnNow, Turn, InTurn, Underway
  <2>6. \A s \in Task : InstalledIn(mapLog', s) => InstalledIn(mapLog, s) \/ s = t
    BY <2>1, <2>4 DEF InstalledIn
  <2>7. Acknowledged(out, c)'
    BY <1>2, <2>1, <2>4 DEF TurnNow, Acknowledged
  <2>8. mapLog' # << >> /\ mapLog'[Len(mapLog')] = t
    BY <2>1, <2>4
  <2>9. MapInv'
    BY <1>2, <2>1, <2>4, <2>6, <2>7, <2>8 DEF MapInv, TurnNow, Acknowledged
  <2>10. QED
    BY <2>5, <2>9
<1>3. QED
  BY <1>1, <1>2 DEF Accept

\* drain() starts the oldest of the tasks in q: whichever way it goes on, the
\* order holds.
LEMMA BeginKeeps ==
  ASSUME TypeOK, MapInv, phase # "notify",
         NEW q \in Seq(Entry), q # << >>, NEW out \in [Task -> Outcome],
         NEW c \in Seq(Task), Begin(q, out), called' = c, state = "open",
         Numbered(c, out), OrderKept(c, out, mapLog), LastCalls(c, q), Acknowledged(out, c),
         \A s \in Task : out[s] = "pending" <=> QueuedIn(q, s),
         \A s \in Task : InstalledIn(mapLog, s) => out[s] \in {"done", "ingestion"}
  PROVE  CallInv' /\ MapInv'
<1> DEFINE t == Head(q).task
           rest == Tail(q)
<1>1. /\ Head(q) = q[1] /\ Len(rest) = Len(q) - 1 /\ rest \in Seq(Entry)
      /\ Len(q) \in Nat \ {0} /\ Len(c) \in Nat
      /\ \A i \in 1..Len(rest) : rest[i] = q[i + 1]
  BY HeadTailProperties
<1>2. t \in Task /\ t # NoTask /\ Head(q).kind \in Kind
  <2>1. q[1] \in Entry
    BY <1>1
  <2>2. QED
    BY <1>1, <2>1, NoTaskAssumption DEF Entry
<1>3. /\ Len(rest) < Len(c) /\ t = c[Len(c) - Len(rest)]
      /\ LastCalls(c, rest)
  <2>1. q[1].task = c[Len(c) - Len(q) + 1] /\ Len(q) <= Len(c)
    BY <1>1 DEF LastCalls
  <2>2. Len(c) - Len(q) + 1 = Len(c) - Len(rest)
    BY <1>1
  <2>3. ASSUME NEW i \in 1..Len(rest) PROVE rest[i].task = c[Len(c) - Len(rest) + i]
    <3>1. i + 1 \in 1..Len(q) /\ Len(c) - Len(q) + (i + 1) = Len(c) - Len(rest) + i
      BY <1>1
    <3>2. QED
      BY <1>1, <3>1 DEF LastCalls
  <2>4. QED
    BY <1>1, <2>1, <2>2, <2>3 DEF LastCalls
<1>4. \A s \in Task : QueuedIn(q, s) <=> QueuedIn(rest, s) \/ s = t
  <2> TAKE s \in Task
  <2>1. QueuedIn(q, s) => QueuedIn(rest, s) \/ s = t
    <3>1. ASSUME NEW i \in 1..Len(q), q[i].task = s, i # 1 PROVE QueuedIn(rest, s)
      <4>1. i - 1 \in 1..Len(rest) /\ rest[i - 1] = q[(i - 1) + 1] /\ (i - 1) + 1 = i
        BY <1>1, <3>1
      <4>2. QED
        BY <3>1, <4>1 DEF QueuedIn
    <3>2. QED
      BY <1>1, <3>1 DEF QueuedIn
  <2>2. QueuedIn(rest, s) \/ s = t => QueuedIn(q, s)
    <3>1. ASSUME NEW i \in 1..Len(rest), rest[i].task = s PROVE QueuedIn(q, s)
      <4>1. i + 1 \in 1..Len(q)
        BY <1>1
      <4>2. QED
        BY <1>1, <3>1, <4>1 DEF QueuedIn
    <3>2. 1 \in 1..Len(q)
      BY <1>1
    <3>3. QED
      BY <1>1, <3>1, <3>2 DEF QueuedIn
  <2>3. QED
    BY <2>1, <2>2
<1> HIDE DEF t, rest
<1>5. TurnNow(t, rest, out, c)
  <2>1. \E k \in 1..(Len(c) - Len(rest)) : c[k] = t
    BY <1>1, <1>3
  <2>2. Turn(t, rest, out, c, mapLog)
    BY <1>1, <1>2, <1>3, <1>4, <2>1 DEF Turn, TypeOK
  <2>3. QED
    BY <1>3, <2>2 DEF TurnNow, InTurn, TypeOK, MapInv
<1>6. active' = t
  BY DEF Begin, t
<1>7. CASE Head(q).kind = "barrier"
  BY <1>2, <1>5, <1>6, <1>7, WaitKeeps DEF Begin, t, rest
<1>8. CASE Head(q).kind = "mutation"
  <2>1. CASE \E code \in {"prepare", "noop"} : SettleAs(t, rest, out, code)
    <3>1. PICK code \in {"prepare", "noop"} : SettleAs(t, rest, out, code)
      BY <2>1
    <3>2. code \in Outcome \ {"none", "pending", "done"}
      BY DEF Outcome, Success, Rejection
    <3>3. QED
      BY <1>2, <1>5, <1>6, <3>1, <3>2, SettleKeeps
  <2>2. CASE /\ queue' = rest /\ outcome' = out /\ phase' = "gate"
             /\ UNCHANGED <<state, mapLog, headRev, serving>>
    BY <1>2, <1>5, <1>6, <2>2, WaitKeeps
  <2>3. CASE Accept(t, rest, out, Len(mapLog))
    BY <1>2, <1>5, <1>6, <2>3, AcceptKeeps
  <2>4. QED
    BY <1>8, <2>1, <2>2, <2>3 DEF Begin, t, rest
<1>9. QED
  BY <1>2, <1>7, <1>8 DEF Kind

\* While a task is under way it has its turn.
LEMMA UnderwayInTurn ==
  ASSUME TellInv, phase \in Underway
  PROVE  TurnNow(active, queue, outcome, called) /\ active # NoTask
<1>1. active # NoTask /\ active \in Task
  BY DEF TellInv, ControlInv, TypeOK, Underway
<1>2. QED
  BY <1>1 DEF TellInv, ControlInv, TypeOK, CallInv, MapInv, TurnNow, Turn

LEMMA TellInit == Init => TellInv
<1> SUFFICES ASSUME Init PROVE TellInv
  OBVIOUS
<1>1. CallInv
  BY DEF Init, CallInv, Numbered, OrderKept, LastCalls, QueuedIn, Underway
<1>2. MapInv
  BY DEF Init, MapInv, InstalledIn, Acknowledged
<1>3. QED
  BY <1>1, <1>2, ControlInit DEF TellInv

\* A call is refused, or written past the released map: it was never taken.
LEMMA UntakenKeeps ==
  ASSUME TellInv, NEW t \in Task, outcome[t] = "none",
         NEW code \in Outcome \ {"none", "pending"}, outcome' = [outcome EXCEPT ![t] = code],
         \/ mapLog' = mapLog
         \/ mapLog' = Append(mapLog, t) /\ code = "done" /\ phase # "notify",
         UNCHANGED <<state, queue, active, phase, headRev, called>>
  PROVE  CallInv' /\ MapInv'
<1>1. /\ \A s \in Task : outcome'[s] = IF s = t THEN code ELSE outcome[s]
      /\ mapLog \in Seq(Task) /\ called \in Seq(Task)
      /\ \A i \in 1..Len(called) : called[i] \in Task
  BY DEF TellInv, ControlInv, TypeOK
<1>2. \A i \in 1..Len(called) : called[i] # t /\ outcome'[called[i]] = outcome[called[i]]
  BY <1>1 DEF TellInv, CallInv, Numbered
<1>3. /\ Len(mapLog) \in Nat /\ Len(mapLog) <= Len(mapLog')
      /\ \A k \in 1..Len(mapLog') :
           \/ k \in 1..Len(mapLog) /\ mapLog'[k] = mapLog[k]
           \/ mapLog'[k] = t /\ mapLog' # mapLog
      /\ \A k \in 1..Len(mapLog) : mapLog'[k] = mapLog[k] /\ k \in 1..Len(mapLog')
  BY <1>1
<1>4. \A s \in Task : s # t => (InstalledIn(mapLog', s) <=> InstalledIn(mapLog, s))
  BY <1>3 DEF InstalledIn
<1>5. CallInv'
  <2>1. Numbered(called, outcome')
    BY <1>2 DEF TellInv, CallInv, Numbered
  <2>2. OrderKept(called, outcome', mapLog')
    <3>1. ASSUME NEW i \in 1..Len(called), NEW j \in 1..Len(called), i < j,
                 outcome'[called[j]] \in TurnCodes \/ InstalledIn(mapLog', called[j])
          PROVE  SettledIn(outcome', called[i])
      <4>1. outcome[called[j]] \in TurnCodes \/ InstalledIn(mapLog, called[j])
        BY <1>1, <1>2, <1>4, <3>1
      <4>2. SettledIn(outcome, called[i])
        BY <3>1, <4>1 DEF TellInv, CallInv, OrderKept
      <4>3. QED
        BY <1>2, <4>2 DEF SettledIn
    <3>2. ASSUME NEW i \in 1..Len(called), NEW j \in 1..Len(called), i < j,
                 NEW k \in 1..Len(mapLog'), NEW n \in 1..Len(mapLog'),
                 mapLog'[k] = called[j], mapLog'[n] = called[i]
          PROVE  n < k
      <4>1. k \in 1..Len(mapLog) /\ mapLog[k] = called[j]
        BY <1>2, <1>3, <3>2
      <4>2. n \in 1..Len(mapLog) /\ mapLog[n] = called[i]
        BY <1>2, <1>3, <3>2
      <4>3. QED
        BY <3>2, <4>1, <4>2 DEF TellInv, CallInv, OrderKept
    <3>3. QED
      BY <3>1, <3>2 DEF OrderKept
  <2>3. QED
    BY <1>1, <2>1, <2>2 DEF TellInv, CallInv, InTurn
<1>6. MapInv'
  <2>1. \A s \in Task : InstalledIn(mapLog', s) =>
          outcome'[s] \in {"done", "ingestion"} \/ (s = active /\ phase = "notify")
    <3>1. ~InstalledIn(mapLog, t) \/ (t = active /\ phase = "notify")
      BY DEF TellInv, MapInv
    <3>2. ~(t = active /\ phase = "notify")
      BY DEF TellInv, CallInv, Underway
    <3>3. mapLog' = mapLog => ~InstalledIn(mapLog', t)
      BY <3>1, <3>2
    <3>4. QED
      BY <1>1, <1>4, <3>3 DEF TellInv, MapInv
  <2>2. Acknowledged(outcome, called)'
    BY <1>2, <1>3 DEF TellInv, ControlInv, TypeOK, MapInv, Acknowledged
  <2>3. QED
    BY <1>3, <2>1, <2>2 DEF TellInv, ControlInv, TypeOK, MapInv
<1>7. QED
  BY <1>5, <1>6

\* An open authority takes a call: it waits behind the others, or begins.
LEMMA TakenKeeps ==
  ASSUME TellInv, NEW t \in Task, NEW kind \in Kind, Submit(t, kind), state = "open"
  PROVE  CallInv' /\ MapInv'
<1> DEFINE e == [task |-> t, kind |-> kind]
           q == Enqueue(queue, e)
           out == [outcome EXCEPT ![t] = "pending"]
           c == Append(called, t)
<1>1. /\ TypeOK /\ CallInv /\ MapInv /\ outcome[t] = "none" /\ called' = c
      /\ queue \in Seq(Entry) /\ called \in Seq(Task) /\ e \in Entry /\ e.task = t
  BY DEF TellInv, ControlInv, TypeOK, Submit, Entry
<1>2. /\ out \in [Task -> Outcome]
      /\ \A s \in Task : out[s] = IF s = t THEN "pending" ELSE outcome[s]
  BY <1>1 DEF TypeOK, Outcome
<1>3. /\ q \in Seq(Entry) /\ q # << >> /\ Len(q) = Len(queue) + 1 /\ Len(queue) \in Nat
      /\ \A i \in 1..Len(q) : q[i] = IF i = Len(queue) + 1 THEN e ELSE queue[i]
  BY <1>1, AppendProperties DEF Enqueue
<1>4. /\ c \in Seq(Task) /\ Len(c) = Len(called) + 1 /\ Len(called) \in Nat
      /\ \A i \in 1..Len(c) : c[i] = IF i = Len(called) + 1 THEN t ELSE called[i]
      /\ \A i \in 1..Len(called) : called[i] # t /\ called[i] \in Task
  BY <1>1, AppendProperties DEF CallInv, Numbered
<1> HIDE DEF q, out, c, e
<1>5. Numbered(called, outcome)
  BY <1>1 DEF CallInv
<1>6. Numbered(c, out)
  <2>1. ASSUME NEW i \in 1..Len(c) PROVE out[c[i]] # "none"
    BY <1>2, <1>4, <1>5, <2>1 DEF Numbered
  <2>2. ASSUME NEW i \in 1..Len(c), NEW j \in 1..Len(c), c[i] = c[j] PROVE i = j
    BY <1>4, <1>5, <2>2 DEF Numbered
  <2>3. QED
    BY <2>1, <2>2 DEF Numbered
<1>7. ~InstalledIn(mapLog, t)
  <2>1. ~(t = active /\ phase = "notify")
    BY <1>1 DEF CallInv, Underway
  <2>2. QED
    BY <1>1, <2>1 DEF MapInv
<1>8. OrderKept(c, out, mapLog)
  <2>1. ASSUME NEW i \in 1..Len(c), NEW j \in 1..Len(c), i < j,
               out[c[j]] \in TurnCodes \/ InstalledIn(mapLog, c[j])
        PROVE  SettledIn(out, c[i])
    <3>1. c[j] # t
      BY <1>2, <1>7, <2>1 DEF TurnCodes, Success
    <3>2. i \in 1..Len(called) /\ j \in 1..Len(called) /\ c[i] = called[i] /\ c[j] = called[j]
      BY <1>4, <2>1, <3>1
    <3>3. SettledIn(outcome, called[i])
      BY <1>1, <1>2, <1>4, <2>1, <3>1, <3>2 DEF CallInv, OrderKept
    <3>4. QED
      BY <1>2, <1>4, <3>2, <3>3 DEF SettledIn
  <2>2. ASSUME NEW i \in 1..Len(c), NEW j \in 1..Len(c), i < j,
               NEW k \in 1..Len(mapLog), NEW n \in 1..Len(mapLog),
               mapLog[k] = c[j], mapLog[n] = c[i]
        PROVE  n < k
    <3>1. c[j] # t
      BY <1>7, <2>2 DEF InstalledIn
    <3>2. i \in 1..Len(called) /\ j \in 1..Len(called) /\ c[i] = called[i] /\ c[j] = called[j]
      BY <1>4, <2>2, <3>1
    <3>3. QED
      BY <1>1, <2>2, <3>2 DEF CallInv, OrderKept
  <2>3. QED
    BY <2>1, <2>2 DEF OrderKept
<1>9. LastCalls(c, q)
  <2>1. Len(queue) <= Len(called)
    BY <1>1 DEF CallInv, LastCalls
  <2>2. ASSUME NEW i \in 1..Len(q) PROVE q[i].task = c[Len(c) - Len(q) + i]
    <3>1. Len(c) - Len(q) + i = Len(called) - Len(queue) + i
      BY <1>3, <1>4
    <3>2. CASE i = Len(queue) + 1
      BY <1>1, <1>3, <1>4, <2>1, <3>1, <3>2
    <3>3. CASE i # Len(queue) + 1
      <4>1. i \in 1..Len(queue) /\ Len(called) - Len(queue) + i \in 1..Len(called)
        BY <1>3, <1>4, <2>1, <2>2, <3>3
      <4>2. queue[i].task = called[Len(called) - Len(queue) + i]
        BY <1>1, <4>1 DEF CallInv, LastCalls
      <4>3. QED
        BY <1>3, <1>4, <3>1, <3>3, <4>1, <4>2
    <3>4. QED
      BY <3>2, <3>3
  <2>3. QED
    BY <1>3, <1>4, <2>1, <2>2 DEF LastCalls
<1>10. Acknowledged(out, c)
  BY <1>1, <1>2, <1>4 DEF MapInv, Acknowledged
<1>11. \A s \in Task : QueuedIn(q, s) <=> QueuedIn(queue, s) \/ s = t
  <2> TAKE s \in Task
  <2>1. QueuedIn(q, s) => QueuedIn(queue, s) \/ s = t
    BY <1>1, <1>3 DEF QueuedIn
  <2>2. QueuedIn(queue, s) => QueuedIn(q, s)
    BY <1>3 DEF QueuedIn
  <2>3. s = t => QueuedIn(q, s)
    <3>1. Len(queue) + 1 \in 1..Len(q)
      BY <1>3
    <3>2. QED
      BY <1>1, <1>3, <3>1 DEF QueuedIn
  <2>4. QED
    BY <2>1, <2>2, <2>3
<1>12. CASE active # NoTask
  <2>1. /\ queue' = q /\ outcome' = out
        /\ UNCHANGED <<state, active, phase, base, mapLog, headRev, managed, serving, disposed>>
    BY <1>1, <1>12 DEF Submit, q, out, e
  <2>2. t # active \/ phase \notin Underway
    BY <1>1 DEF CallInv
  <2>3. \A s \in Task : out[s] = "pending" <=> QueuedIn(q, s) \/ (s = active /\ phase \in Underway)
    BY <1>1, <1>2, <1>11 DEF CallInv
  <2>4. InTurn(active, q, c)
    <3>1. Len(queue) < Len(called) /\ active = called[Len(called) - Len(queue)]
      BY <1>1, <1>12 DEF CallInv, InTurn
    <3>2. /\ Len(c) - Len(q) = Len(called) - Len(queue) /\ Len(q) < Len(c)
          /\ Len(called) - Len(queue) \in 1..Len(called)
      BY <1>3, <1>4, <3>1
    <3>3. QED
      BY <1>4, <3>1, <3>2 DEF InTurn
  <2>5. phase \in Underway => \E k \in 1..(Len(c) - Len(q)) : c[k] = active
    <3>1. Len(queue) < Len(called) /\ active = called[Len(called) - Len(queue)]
      BY <1>1, <1>12 DEF CallInv, InTurn
    <3>2. /\ Len(c) - Len(q) = Len(called) - Len(queue)
          /\ Len(called) - Len(queue) \in 1..Len(called)
      BY <1>3, <1>4, <3>1
    <3>3. c[Len(called) - Len(queue)] = active
      BY <1>4, <3>1, <3>2
    <3>4. Len(called) - Len(queue) \in 1..(Len(c) - Len(q))
      BY <3>2
    <3>5. QED
      BY <3>3, <3>4
  <2>6. CallInv'
    BY <1>1, <1>6, <1>8, <1>9, <1>12, <2>1, <2>3, <2>4, <2>5 DEF CallInv, InTurn
  <2>7. MapInv'
    <3>1. \A s \in Task : InstalledIn(mapLog, s) =>
            out[s] \in {"done", "ingestion"} \/ (s = active /\ phase = "notify")
      BY <1>1, <1>2, <1>7 DEF MapInv
    <3>2. QED
      BY <1>1, <1>10, <2>1, <3>1 DEF MapInv, Acknowledged
  <2>8. QED
    BY <2>6, <2>7
<1>13. CASE active = NoTask
  <2>1. Begin(q, out)
    BY <1>1, <1>13 DEF Submit, q, out, e
  <2>2. phase = "idle"
    BY <1>1, <1>13 DEF TypeOK
  <2>3. \A s \in Task : out[s] = "pending" <=> QueuedIn(q, s)
    BY <1>1, <1>2, <1>11, <2>2 DEF CallInv, Underway
  <2>4. \A s \in Task : InstalledIn(mapLog, s) => out[s] \in {"done", "ingestion"}
    BY <1>1, <1>2, <1>7, <2>2 DEF MapInv
  <2>5. QED
    BY <1>1, <1>2, <1>3, <1>4, <1>6, <1>8, <1>9, <1>10, <2>1, <2>2, <2>3, <2>4, BeginKeeps
<1>14. QED
  BY <1>12, <1>13

LEMMA TellStep == TellInv /\ [Next]_vars => TellInv'
<1> SUFFICES ASSUME TellInv, [Next]_vars PROVE CallInv' /\ MapInv'
  BY ControlStep DEF TellInv
<1>0. TypeOK /\ LifecycleInv /\ HistoryInv /\ CallInv /\ MapInv
  BY DEF TellInv, ControlInv
<1>1. ASSUME NEW t \in Task, NEW kind \in Kind, Submit(t, kind) PROVE CallInv' /\ MapInv'
  <2>1. CASE state = "open"
    BY <1>1, <2>1, TakenKeeps
  <2>2. CASE state # "open"
    <3>1. PICK code \in {"closed", "terminal"} : outcome' = [outcome EXCEPT ![t] = code]
      BY <1>1, <2>2 DEF Submit
    <3>2. code \in Outcome \ {"none", "pending"}
      BY DEF Outcome, Rejection
    <3>3. outcome[t] = "none" /\ UNCHANGED <<state, queue, active, phase, mapLog, headRev, called>>
      BY <1>1, <2>2 DEF Submit
    <3>4. QED
      BY <3>1, <3>2, <3>3, UntakenKeeps
  <2>3. QED
    BY <2>1, <2>2
<1>2. ASSUME NEW t \in Task, DirectWrite(t) PROVE CallInv' /\ MapInv'
  <2>1. phase # "notify"
    BY <1>0, <1>2 DEF DirectWrite, LifecycleInv, TypeOK
  <2>2. "done" \in Outcome \ {"none", "pending"}
    BY DEF Outcome, Success
  <2>3. QED
    BY <1>2, <2>1, <2>2, UntakenKeeps DEF DirectWrite
<1>3. CASE Dispose
  <2> DEFINE now == Reject({}, queue, outcome, "closed")
  <2>1. /\ outcome' = now /\ queue' = << >> /\ state' # "open"
        /\ UNCHANGED <<active, phase, mapLog, headRev, called>>
    BY <1>3 DEF Dispose
  <2>2. /\ queue \in Seq(Entry) /\ outcome \in [Task -> Outcome] /\ called \in Seq(Task)
        /\ Numbered(called, outcome) /\ OrderKept(called, outcome, mapLog)
        /\ \A i \in 1..Len(called) : called[i] \in Task
    BY <1>0 DEF TypeOK, CallInv
  <2>3. /\ Numbered(called, now) /\ OrderKept(called, now, mapLog)
        /\ \A s \in Task : now[s] = "pending" => outcome[s] = "pending" /\ ~QueuedIn(queue, s)
    BY <2>2, RejectKeepsOrder
  <2>4. \A s \in Task : now[s] = IF QueuedIn(queue, s) THEN "closed" ELSE outcome[s]
    BY DEF Reject
  <2> HIDE DEF now
  <2>5. /\ LastCalls(called, << >>) /\ \A s \in Task : ~QueuedIn(<< >>, s)
        /\ Len(queue) \in Nat /\ Len(called) \in Nat
    BY <2>2 DEF LastCalls, QueuedIn
  <2>6. \A s \in Task : QueuedIn(queue, s) => outcome[s] = "pending"
    BY <1>0 DEF CallInv
  <2>7. phase \in Underway => ~QueuedIn(queue, active)
    <3>1. ASSUME phase \in Underway PROVE Turn(active, queue, outcome, called, mapLog)
      BY <3>1, UnderwayInTurn DEF TurnNow
    <3>2. QED
      BY <3>1, TurnNumber
  <2>8. \A s \in Task : now[s] = "pending" <=> s = active /\ phase \in Underway
    BY <1>0, <2>3, <2>4, <2>7 DEF CallInv
  <2>9. CallInv'
    <3>1. phase \in Underway => \E k \in 1..(Len(called) - 0) : called[k] = active
      BY <1>0, <2>5 DEF CallInv
    <3>2. QED
      BY <2>1, <2>3, <2>5, <2>8, <3>1 DEF CallInv, InTurn, Underway
  <2>10. \A s \in Task : InstalledIn(mapLog, s) =>
           now[s] \in {"done", "ingestion"} \/ (s = active /\ phase = "notify")
    BY <1>0, <2>4, <2>6 DEF MapInv
  <2>11. Acknowledged(now, called)
    BY <1>0, <2>2, <2>4 DEF MapInv, Acknowledged
  <2>12. MapInv'
    BY <1>0, <2>1, <2>10, <2>11 DEF MapInv, Acknowledged
  <2>13. QED
    BY <2>9, <2>12
<1>4. CASE GatePasses
  <2>1. phase = "gate" /\ Accept(active, queue, outcome, base) /\ active' = active /\ called' = called
    BY <1>4 DEF GatePasses
  <2>2. QED
    BY <2>1, UnderwayInTurn, AcceptKeeps DEF Underway
<1>5. CASE GateRejects
  <2>1. phase = "gate" /\ SettleAs(active, queue, outcome, "gate") /\ active' = active /\ called' = called
    BY <1>5 DEF GateRejects
  <2>2. "gate" \in Outcome \ {"none", "pending", "done"}
    BY DEF Outcome, Rejection
  <2>3. QED
    BY <2>1, <2>2, UnderwayInTurn, SettleKeeps DEF Underway
<1>6. CASE Ingest
  <2>1. phase = "notify" /\ active' = active /\ called' = called
    BY <1>6 DEF Ingest
  <2>2. TurnNow(active, queue, outcome, called) /\ active # NoTask
    BY <2>1, UnderwayInTurn DEF Underway
  <2>3. CASE Terminal(active, queue, outcome, "ingestion")
    BY <2>1, <2>2, <2>3, TerminalKeeps
  <2>4. CASE /\ Len(mapLog) = headRev + 1 /\ headRev' = headRev + 1
             /\ outcome' = [outcome EXCEPT ![active] = "done"] /\ phase' = "settled"
             /\ UNCHANGED <<state, queue, mapLog, serving>>
    <3>1. "done" \in Outcome \ {"none", "pending"}
      BY DEF Outcome, Success
    <3>2. Turn(active, queue, outcome, called, mapLog)
      BY <2>2 DEF TurnNow
    <3>3. /\ Numbered(called, outcome') /\ OrderKept(called, outcome', mapLog)
          /\ \A s \in Task : outcome'[s] = "pending" <=> QueuedIn(queue, s)
      BY <2>4, <3>1, <3>2, TurnSettles
    <3>4. /\ \A s \in Task : outcome'[s] = IF s = active THEN "done" ELSE outcome[s]
          /\ \A i \in 1..Len(called) : called[i] \in Task
      BY <1>0, <2>4 DEF TypeOK
    <3>5. CallInv'
      BY <1>0, <2>1, <2>4, <3>3 DEF CallInv, InTurn, Underway
    <3>6. \A s \in Task : InstalledIn(mapLog, s) => outcome'[s] \in {"done", "ingestion"}
      BY <1>0, <3>4 DEF MapInv
    <3>7. Acknowledged(outcome, called)'
      <4>1. mapLog[headRev + 1] = active /\ headRev \in Nat
        BY <1>0, <2>1, <2>4 DEF MapInv, TypeOK
      <4>2. headRev + 1 \in 1..headRev'
        BY <2>4, <4>1
      <4>3. \A r \in 1..headRev : r \in 1..headRev'
        BY <2>4, <4>1
      <4>4. ASSUME NEW i \in 1..Len(called), outcome'[called[i]] = "done"
            PROVE  \E r \in 1..headRev' : r <= Len(mapLog) /\ mapLog[r] = called[i]
        <5>1. CASE called[i] = active
          BY <2>4, <4>1, <4>2, <5>1
        <5>2. CASE called[i] # active
          BY <1>0, <3>4, <4>3, <4>4, <5>2 DEF MapInv, Acknowledged
        <5>3. QED
          BY <5>1, <5>2
      <4>5. QED
        BY <2>1, <2>4, <4>4 DEF Acknowledged
    <3>8. MapInv'
      BY <1>0, <2>1, <2>4, <3>6, <3>7 DEF MapInv, TypeOK
    <3>9. QED
      BY <3>5, <3>8
  <2>5. QED
    BY <1>6, <2>3, <2>4 DEF Ingest
<1>7. CASE BarrierSettles
  <2>1. PICK code \in {"completed", "operation"} : SettleAs(active, queue, outcome, code)
    BY <1>7 DEF BarrierSettles
  <2>2. phase = "barrier" /\ active' = active /\ called' = called
    BY <1>7 DEF BarrierSettles
  <2>3. code \in Outcome \ {"none", "pending", "done"}
    BY DEF Outcome, Success, Rejection
  <2>4. QED
    BY <2>1, <2>2, <2>3, UnderwayInTurn, SettleKeeps DEF Underway
<1>8. CASE Finish
  <2>1. phase = "settled" /\ called' = called
    BY <1>8 DEF Finish
  <2>2. CASE queue # << >> /\ Begin(queue, outcome)
    <3>1. state = "open"
      BY <1>0, <2>2 DEF LifecycleInv
    <3>2. \A s \in Task : outcome[s] = "pending" <=> QueuedIn(queue, s)
      BY <1>0, <2>1 DEF CallInv, Underway
    <3>3. \A s \in Task : InstalledIn(mapLog, s) => outcome[s] \in {"done", "ingestion"}
      BY <1>0, <2>1 DEF MapInv
    <3>4. QED
      BY <1>0, <2>1, <2>2, <3>1, <3>2, <3>3, BeginKeeps DEF TypeOK, CallInv, MapInv
  <2>3. CASE ~(queue # << >> /\ Begin(queue, outcome))
    <3>1. /\ active' = NoTask /\ phase' = "idle" /\ queue = << >>
          /\ UNCHANGED <<queue, mapLog, headRev, outcome, called>>
      BY <1>0, <1>8, <2>3 DEF Finish, ReleaseIfIdle, LifecycleInv
    <3>2. CallInv'
      BY <1>0, <2>1, <3>1 DEF CallInv, Underway
    <3>3. MapInv'
      BY <1>0, <2>1, <3>1 DEF MapInv, Acknowledged
    <3>4. QED
      BY <3>2, <3>3
  <2>4. QED
    BY <2>2, <2>3
<1>9. CASE UNCHANGED vars
  BY <1>0, <1>9 DEF vars, CallInv, MapInv, InTurn, Acknowledged
<1>10. QED
  BY <1>1, <1>2, <1>3, <1>4, <1>5, <1>6, <1>7, <1>8, <1>9 DEF Next, Call, Continue

LEMMA TellTruth == TellInv => CallsServedTruly
<1> SUFFICES ASSUME TellInv PROVE CallsServedTruly
  OBVIOUS
<1>1. TypeOK /\ CallInv /\ MapInv
  BY DEF TellInv, ControlInv
<1>2. ServedInCallOrder
  BY <1>1 DEF CallInv, OrderKept, TurnCodes, SettledIn, ServedInCallOrder, Settled
<1>3. RejectedLeavesNoTrace
  <2>1. ASSUME NEW t \in Task, outcome[t] \in Rejection \ {"ingestion"}, Installed(t) PROVE FALSE
    <3>1. outcome[t] \notin {"done", "ingestion", "pending"}
      BY <2>1 DEF Rejection
    <3>2. t = active /\ phase = "notify"
      BY <1>1, <2>1, <3>1 DEF MapInv, InstalledIn, Installed
    <3>3. QED
      BY <1>1, <3>1, <3>2 DEF CallInv, Underway
  <2>2. QED
    BY <2>1 DEF RejectedLeavesNoTrace
<1>4. AcknowledgedIsCanonical
  BY <1>1 DEF MapInv, Acknowledged, AcknowledgedIsCanonical
<1>5. QED
  BY <1>1, <1>2, <1>3, <1>4 DEF CallsServedTruly

\* What callers are told is true whatever the calls, however they interleave
\* with the gate, the observers and dispose(): served in call order, no trace
\* of a refused mutation, an acknowledged one canonical (mutate, drain,
\* run_mutation, terminal, dispose).
THEOREM CallsTrue == Spec => []CallsServedTruly
<1>1. Spec => []TellInv
  BY TellInit, TellStep, PTL DEF Spec
<1>2. QED
  BY <1>1, TellTruth, PTL

-----------------------------------------------------------------------------
(* The contents of a log.                                                   *)

Commits == {Edit[t] : t \in Task}

\* l holds at least the edits of m, in the same places.
Ahead(m, l) == Len(m) <= Len(l) /\ \A i \in 1..Len(m) : Edit[m[i]] = Edit[l[i]]

LEMMA EditsSequence ==
  ASSUME NEW s \in Seq(Task)
  PROVE  /\ Edits(s) \in Seq(Commits) /\ Len(Edits(s)) = Len(s) /\ Len(s) \in Nat
         /\ \A i \in 1..Len(s) : s[i] \in Task /\ Edits(s)[i] = Edit[s[i]]
<1>1. Len(s) \in Nat /\ \A i \in 1..Len(s) : s[i] \in Task
  OBVIOUS
<1>2. Edits(s) \in [1..Len(s) -> Commits]
  BY <1>1 DEF Edits, Commits
<1>3. Edits(s) \in Seq(Commits)
  BY <1>1, <1>2, SeqDef
<1>4. DOMAIN Edits(s) = 1..Len(Edits(s)) /\ Len(Edits(s)) \in Nat
  BY <1>3, LenProperties
<1>5. Len(Edits(s)) = Len(s)
  BY <1>1, <1>2, <1>4
<1>6. QED
  BY <1>1, <1>3, <1>5 DEF Edits

LEMMA EditsEqual ==
  ASSUME NEW m \in Seq(Task), NEW l \in Seq(Task), Ahead(m, l), Len(l) <= Len(m)
  PROVE  Edits(m) = Edits(l)
<1>1. /\ Edits(m) \in Seq(Commits) /\ Len(Edits(m)) = Len(m) /\ Len(m) \in Nat
      /\ \A i \in 1..Len(m) : Edits(m)[i] = Edit[m[i]]
  BY EditsSequence
<1>2. /\ Edits(l) \in Seq(Commits) /\ Len(Edits(l)) = Len(l) /\ Len(l) \in Nat
      /\ \A i \in 1..Len(l) : Edits(l)[i] = Edit[l[i]]
  BY EditsSequence
<1>3. Len(l) = Len(m)
  BY <1>1, <1>2 DEF Ahead
<1>4. QED
  BY <1>1, <1>2, <1>3, SeqEqual DEF Ahead

LEMMA EditsAppend ==
  ASSUME NEW m \in Seq(Task), NEW t \in Task
  PROVE  Edits(Append(m, t)) = Append(Edits(m), Edit[t])
<1> DEFINE n == Append(m, t)
           e == Append(Edits(m), Edit[t])
<1>1. /\ Edits(m) \in Seq(Commits) /\ Len(Edits(m)) = Len(m) /\ Len(m) \in Nat
      /\ \A i \in 1..Len(m) : Edits(m)[i] = Edit[m[i]]
  BY EditsSequence
<1>2. /\ n \in Seq(Task) /\ Len(n) = Len(m) + 1
      /\ \A i \in 1..Len(n) : n[i] = IF i = Len(m) + 1 THEN t ELSE m[i]
  BY <1>1
<1>3. /\ Edits(n) \in Seq(Commits) /\ Len(Edits(n)) = Len(n)
      /\ \A i \in 1..Len(n) : Edits(n)[i] = Edit[n[i]]
  BY <1>2, EditsSequence
<1>4. Edit[t] \in Commits
  BY DEF Commits
<1>5. /\ e \in Seq(Commits) /\ Len(e) = Len(m) + 1
      /\ \A i \in 1..Len(e) : e[i] = IF i = Len(m) + 1 THEN Edit[t] ELSE Edits(m)[i]
  BY <1>1, <1>4
<1> HIDE DEF n, e
<1>6. Edits(n) = e
  <2>1. ASSUME NEW i \in 1..Len(Edits(n)) PROVE Edits(n)[i] = e[i]
    BY <1>1, <1>2, <1>3, <1>5
  <2>2. Len(Edits(n)) = Len(e)
    BY <1>2, <1>3, <1>5
  <2>3. QED
    BY <1>3, <1>5, <2>1, <2>2, SeqEqual
<1>7. QED
  BY <1>6 DEF n, e

LEMMA PrefixIsAhead ==
  ASSUME NEW m \in Seq(Task), NEW l \in Seq(Task)
  PROVE  IsPrefixOf(Edits(m), Edits(l)) <=> Ahead(m, l)
<1>1. /\ Edits(m) \in Seq(Commits) /\ Len(Edits(m)) = Len(m) /\ Len(m) \in Nat
      /\ \A i \in 1..Len(m) : Edits(m)[i] = Edit[m[i]]
  BY EditsSequence
<1>2. /\ Edits(l) \in Seq(Commits) /\ Len(Edits(l)) = Len(l) /\ Len(l) \in Nat
      /\ \A i \in 1..Len(l) : Edits(l)[i] = Edit[l[i]]
  BY EditsSequence
<1>3. CASE Len(m) <= Len(l)
  <2> DEFINE p == SubSeq(Edits(l), 1, Len(m))
  <2>1. \A i \in 1..Len(m) : Edits(l)[i] \in Commits
    BY <1>1, <1>2, <1>3
  <2>2. /\ p \in Seq(Commits) /\ Len(p) = Len(m)
        /\ \A i \in 1..Len(m) : p[i] = Edits(l)[i]
    BY <1>1, <1>2, <1>3, <2>1, SubSeqProperties
  <2> HIDE DEF p
  <2>3. p = Edits(m) <=> \A i \in 1..Len(m) : Edit[m[i]] = Edit[l[i]]
    <3>1. \A i \in 1..Len(m) : p[i] = Edit[l[i]]
      BY <1>1, <1>2, <1>3, <2>2
    <3>2. ASSUME \A i \in 1..Len(m) : Edit[m[i]] = Edit[l[i]] PROVE p = Edits(m)
      BY <1>1, <2>2, <3>1, <3>2, SeqEqual
    <3>3. QED
      BY <1>1, <3>1, <3>2
  <2>4. QED
    BY <1>1, <1>2, <1>3, <2>3 DEF IsPrefixOf, Ahead, p
<1>4. CASE ~(Len(m) <= Len(l))
  BY <1>1, <1>2, <1>4 DEF IsPrefixOf, Ahead
<1>5. QED
  BY <1>3, <1>4

\* A checkpoint replaces what it covers by the same edits.
LEMMA TrimmedLog ==
  ASSUME PTypeOK, Ahead(mapLog, disk.log)
  PROVE  /\ Trimmed(mapLog) \in [exists : BOOLEAN, ckpt : Nat, log : Seq(Task)]
         /\ Trimmed(mapLog).ckpt = Len(mapLog)
         /\ Len(Trimmed(mapLog).log) = Len(disk.log)
         /\ \A i \in 1..Len(disk.log) :
              Trimmed(mapLog).log[i] = IF i <= Len(mapLog) THEN mapLog[i] ELSE disk.log[i]
<1> DEFINE M == Len(mapLog)
           L == Len(disk.log)
           tail == SubSeq(disk.log, M + 1, L)
           l == mapLog \o tail
<1>1. mapLog \in Seq(Task) /\ disk.log \in Seq(Task) /\ M \in Nat /\ L \in Nat /\ M <= L
  BY DEF PTypeOK, TypeOK, Ahead
<1>2. \A i \in (M + 1)..L : disk.log[i] \in Task
  BY <1>1
<1>3. tail \in Seq(Task) /\ Len(tail) = L - M /\ \A i \in 1..(L - M) : tail[i] = disk.log[M + i]
  <2>1. /\ tail \in Seq(Task) /\ Len(tail) = IF M + 1 <= L THEN L - (M + 1) + 1 ELSE 0
        /\ \A i \in 1..(L - (M + 1) + 1) : tail[i] = disk.log[(M + 1) + i - 1]
    BY <1>1, <1>2, SubSeqProperties
  <2> HIDE DEF tail
  <2>2. QED
    BY <1>1, <2>1
<1> HIDE DEF tail
<1>4. /\ l \in Seq(Task) /\ Len(l) = L
      /\ \A i \in 1..L : l[i] = IF i <= M THEN mapLog[i] ELSE tail[i - M]
  BY <1>1, <1>3, ConcatProperties
<1> HIDE DEF l
<1>5. \A i \in 1..L : l[i] = IF i <= M THEN mapLog[i] ELSE disk.log[i]
  <2> TAKE i \in 1..L
  <2>1. i > M => i - M \in 1..(L - M) /\ M + (i - M) = i
    BY <1>1
  <2>2. QED
    BY <1>1, <1>3, <1>4, <2>1
<1>6. Trimmed(mapLog) = [exists |-> TRUE, ckpt |-> M, log |-> l]
  BY DEF Trimmed, l, tail
<1>7. QED
  BY <1>1, <1>4, <1>5, <1>6
-----------------------------------------------------------------------------
(* The inductive invariant.  WaitInv: each waiting task waits once, and only *)
(* they and the running one are pending.  StorageInv: where the disk stands  *)
(* to the map, and what the adapter's answer to an append says of the disk.  *)

WaitIn(q, out) ==
  /\ \A i, j \in 1..Len(q) : q[i].task = q[j].task => i = j
  /\ \A t \in Task : out[t] = "pending" <=> QueuedIn(q, t)

WaitInv ==
  /\ \A i, j \in 1..Len(queue) : queue[i].task = queue[j].task => i = j
  /\ \A t \in Task : outcome[t] = "pending" <=>
       QueuedIn(queue, t) \/ (t = active /\ phase \in Underway)
  /\ phase \in Underway => ~QueuedIn(queue, active)
  /\ queue # << >> => active # NoTask

StorageInv ==
  /\ gated
  /\ host = "down" => state = "closed"
  /\ verdict # "none" => phase \in {"gate", "barrier"}
  /\ phase = "gate" /\ verdict = "ok" =>
       Len(disk.log) = Len(mapLog) + 1 /\ Edit[disk.log[Len(mapLog) + 1]] = Edit[active]
  /\ phase = "notify" => mapLog # << >> /\ mapLog[Len(mapLog)] = active
  /\ Ahead(mapLog, disk.log) /\ Len(disk.log) <= Len(mapLog) + 1

DurableInv ==
  /\ PTypeOK /\ ControlInv /\ WaitInv /\ StorageInv
  /\ CheckpointCoversAccepted /\ AcknowledgedSurvives

\* What drain() does behind a gate to the task it starts: no commit is
\* installed before the gate has answered.
LEMMA BeginGated ==
  ASSUME gated, NEW q \in Seq(Entry), q # << >>, NEW out \in [Task -> Outcome], Begin(q, out)
  PROVE  /\ active' = Head(q).task /\ queue' = Tail(q)
         /\ UNCHANGED <<state, mapLog, headRev, managed, disposed, serving>>
         /\ phase' \in {"barrier", "gate", "settled"}
         /\ phase' = "gate" => base' = Len(mapLog)
         /\ phase' = "settled" =>
              \E code \in {"prepare", "noop"} : outcome' = [out EXCEPT ![Head(q).task] = code]
         /\ phase' # "settled" => outcome' = out
<1>1. CASE Head(q).kind = "barrier"
  BY <1>1 DEF Begin
<1>2. CASE Head(q).kind = "mutation"
  <2>1. CASE \E code \in {"prepare", "noop"} : SettleAs(Head(q).task, Tail(q), out, code)
    BY <1>2, <2>1 DEF Begin, SettleAs
  <2>2. CASE ~\E code \in {"prepare", "noop"} : SettleAs(Head(q).task, Tail(q), out, code)
    BY <1>2, <2>2 DEF Begin
  <2>3. QED
    BY <2>1, <2>2
<1>3. Head(q).kind \in Kind
  <2>1. Head(q) \in Entry
    OBVIOUS
  <2>2. QED
    BY <2>1 DEF Entry
<1>4. QED
  BY <1>1, <1>2, <1>3 DEF Kind

\* The queue without its head, which is in it once.
LEMMA HeadLeaves ==
  ASSUME NEW q \in Seq(Entry), q # << >>, NEW out, WaitIn(q, out)
  PROVE  /\ Head(q).task \in Task /\ Head(q).task # NoTask /\ Tail(q) \in Seq(Entry)
         /\ \A i, j \in 1..Len(Tail(q)) : Tail(q)[i].task = Tail(q)[j].task => i = j
         /\ ~QueuedIn(Tail(q), Head(q).task)
         /\ \A t \in Task : QueuedIn(q, t) <=> QueuedIn(Tail(q), t) \/ t = Head(q).task
<1> DEFINE h == Head(q)
           r == Tail(q)
<1>1. /\ h \in Entry /\ h = q[1] /\ r \in Seq(Entry) /\ Len(r) = Len(q) - 1 /\ Len(q) \in Nat \ {0}
      /\ \A i \in 1..Len(r) : r[i] = q[i + 1] /\ i + 1 \in 1..Len(q)
      /\ \A i \in 1..Len(q) : i # 1 => i - 1 \in 1..Len(r) /\ r[i - 1] = q[i]
  <2>1. /\ h \in Entry /\ h = q[1] /\ r \in Seq(Entry) /\ Len(r) = Len(q) - 1 /\ Len(q) \in Nat \ {0}
        /\ \A i \in 1..Len(r) : r[i] = q[i + 1]
    BY HeadTailProperties
  <2>2. QED
    BY <2>1
<1>2. h.task \in Task /\ h.task # NoTask
  BY <1>1, NoTaskAssumption DEF Entry
<1> HIDE DEF h, r
<1>3. ASSUME NEW i \in 1..Len(r), NEW j \in 1..Len(r), r[i].task = r[j].task PROVE i = j
  <2>1. i + 1 = j + 1
    BY <1>1, <1>3 DEF WaitIn
  <2>2. QED
    BY <2>1
<1>4. ~QueuedIn(r, h.task)
  <2>1. ASSUME NEW i \in 1..Len(r), r[i].task = h.task PROVE FALSE
    <3>1. i + 1 = 1
      <4>1. 1 \in 1..Len(q)
        BY <1>1
      <4>2. QED
        BY <1>1, <2>1, <4>1 DEF WaitIn
    <3>2. QED
      BY <3>1
  <2>2. QED
    BY <2>1 DEF QueuedIn
<1>5. ASSUME NEW t \in Task PROVE QueuedIn(q, t) <=> QueuedIn(r, t) \/ t = h.task
  <2>1. 1 \in 1..Len(q)
    BY <1>1
  <2>2. QueuedIn(q, t) => QueuedIn(r, t) \/ t = h.task
    BY <1>1 DEF QueuedIn
  <2>3. QueuedIn(r, t) \/ t = h.task => QueuedIn(q, t)
    BY <1>1, <2>1 DEF QueuedIn
  <2>4. QED
    BY <2>2, <2>3
<1>6. QED
  BY <1>1, <1>2, <1>3, <1>4, <1>5 DEF h, r

LEMMA BeginWaits ==
  ASSUME gated, NEW q \in Seq(Entry), q # << >>, NEW out \in [Task -> Outcome],
         Begin(q, out), WaitIn(q, out)
  PROVE  WaitInv'
<1> DEFINE t == Head(q).task
           r == Tail(q)
<1>1. /\ t \in Task /\ t # NoTask /\ r \in Seq(Entry) /\ ~QueuedIn(r, t)
      /\ \A i, j \in 1..Len(r) : r[i].task = r[j].task => i = j
      /\ \A s \in Task : QueuedIn(q, s) <=> QueuedIn(r, s) \/ s = t
  BY HeadLeaves
<1>2. /\ active' = t /\ queue' = r /\ phase' \in {"barrier", "gate", "settled"}
      /\ phase' = "settled" => \E code \in {"prepare", "noop"} : outcome' = [out EXCEPT ![t] = code]
      /\ phase' # "settled" => outcome' = out
  BY BeginGated
<1> HIDE DEF t, r
<1>3. \A s \in Task : outcome'[s] = "pending" <=> QueuedIn(r, s) \/ (s = t /\ phase' # "settled")
  <2>1. CASE phase' = "settled"
    <3>1. PICK code \in {"prepare", "noop"} : outcome' = [out EXCEPT ![t] = code]
      BY <1>2, <2>1
    <3>2. \A s \in Task : outcome'[s] = IF s = t THEN code ELSE out[s]
      BY <3>1
    <3>3. QED
      BY <1>1, <2>1, <3>2 DEF WaitIn
  <2>2. CASE phase' # "settled"
    BY <1>1, <1>2, <2>2 DEF WaitIn
  <2>3. QED
    BY <2>1, <2>2
<1>4. QED
  BY <1>1, <1>2, <1>3 DEF WaitInv, Underway

\* The running task settles alone.
LEMMA SettleWaits ==
  ASSUME TypeOK, WaitInv, phase \in Underway,
         NEW code \in Outcome \ {"none", "pending"},
         outcome' = [outcome EXCEPT ![active] = code], phase' = "settled",
         UNCHANGED <<queue, active>>
  PROVE  WaitInv'
<1>1. active \in Task
  BY DEF TypeOK, Underway
<1>2. \A s \in Task : outcome'[s] = IF s = active THEN code ELSE outcome[s]
  BY DEF TypeOK
<1>3. QED
  BY <1>1, <1>2 DEF WaitInv, Underway

\* Everything waiting is rejected, with the running task if it is in S.
LEMMA RejectWaits ==
  ASSUME TypeOK, WaitInv, NEW S, NEW code \in Outcome \ {"none", "pending"},
         outcome' = Reject(S, queue, outcome, code), queue' = << >>, active' = active,
         \/ S = {active} /\ phase' = "settled"
         \/ S = {} /\ phase' = phase
  PROVE  WaitInv'
<1>1. \A s \in Task : outcome'[s] = IF s \in S \/ QueuedIn(queue, s) THEN code ELSE outcome[s]
  BY DEF Reject
<1>2. ~QueuedIn(<< >>, active) /\ \A s \in Task : ~QueuedIn(<< >>, s)
  BY DEF QueuedIn
<1>3. QED
  BY <1>1, <1>2 DEF WaitInv, Underway
\* A call joins the queue, or is refused.
LEMMA SubmitWaits ==
  ASSUME TypeOK, WaitInv, gated, NEW t \in Task, NEW kind \in Kind, Submit(t, kind)
  PROVE  WaitInv'
<1> DEFINE e == [task |-> t, kind |-> kind]
           q == Enqueue(queue, e)
           out == [outcome EXCEPT ![t] = "pending"]
<1>1. outcome[t] = "none" /\ ~QueuedIn(queue, t) /\ ~(t = active /\ phase \in Underway)
  <2>1. outcome[t] = "none"
    BY DEF Submit
  <2>2. QED
    BY <2>1 DEF WaitInv
<1>2. CASE state # "open"
  <2>1. PICK code \in {"terminal", "closed"} : outcome' = [outcome EXCEPT ![t] = code]
    BY <1>2 DEF Submit
  <2>2. \A s \in Task : outcome'[s] = IF s = t THEN code ELSE outcome[s]
    BY <2>1 DEF TypeOK
  <2>3. UNCHANGED <<queue, active, phase>>
    BY <1>2 DEF Submit
  <2>4. QED
    BY <1>1, <2>2, <2>3 DEF WaitInv
<1>3. CASE state = "open"
  <2>1. e \in Entry /\ e.task = t /\ queue \in Seq(Entry) /\ Len(queue) \in Nat
    BY DEF Entry, TypeOK
  <2>2. /\ q \in Seq(Entry) /\ q # << >> /\ Len(q) = Len(queue) + 1
        /\ \A i \in 1..Len(q) : q[i] = IF i = Len(queue) + 1 THEN e ELSE queue[i]
    BY <2>1, AppendProperties DEF Enqueue
  <2>3. /\ out \in [Task -> Outcome]
        /\ \A s \in Task : out[s] = IF s = t THEN "pending" ELSE outcome[s]
    BY DEF TypeOK, Outcome
  <2>4. \/ active # NoTask /\ queue' = q /\ outcome' = out /\ UNCHANGED <<active, phase>>
        \/ active = NoTask /\ Begin(q, out)
    BY <1>3 DEF Submit
  <2> HIDE DEF e, q, out
  <2>5. \A i, j \in 1..Len(q) : q[i].task = q[j].task => i = j
    <3>1. \A i \in 1..Len(queue) : queue[i].task # t
      BY <1>1 DEF QueuedIn
    <3>2. QED
      BY <2>1, <2>2, <3>1 DEF WaitInv
  <2>6. ASSUME NEW s PROVE QueuedIn(q, s) <=> QueuedIn(queue, s) \/ s = t
    <3>1. Len(queue) + 1 \in 1..Len(q) /\ \A i \in 1..Len(queue) : i \in 1..Len(q) /\ q[i] = queue[i]
      BY <2>1, <2>2
    <3>2. QED
      BY <2>1, <2>2, <3>1 DEF QueuedIn
  <2>7. CASE active # NoTask
    <3>1. queue' = q /\ outcome' = out /\ UNCHANGED <<active, phase>>
      BY <2>4, <2>7
    <3>2. \A s \in Task : out[s] = "pending" <=> QueuedIn(q, s) \/ (s = active /\ phase \in Underway)
      BY <1>1, <2>3, <2>6 DEF WaitInv
    <3>3. phase \in Underway => ~QueuedIn(q, active)
      BY <1>1, <2>6 DEF WaitInv
    <3>4. QED
      BY <2>5, <2>7, <3>1, <3>2, <3>3 DEF WaitInv
  <2>8. CASE active = NoTask
    <3>1. phase = "idle"
      BY <2>8 DEF TypeOK
    <3>2. \A s \in Task : out[s] = "pending" <=> QueuedIn(q, s)
      BY <1>1, <2>3, <2>6, <3>1 DEF WaitInv, Underway
    <3>3. QED
      BY <2>2, <2>3, <2>4, <2>5, <2>8, <3>2, BeginWaits DEF WaitIn
  <2>9. QED
    BY <2>7, <2>8
<1>4. QED
  BY <1>2, <1>3

\* The steps of the authority keep it.
LEMMA AuthorityWaits ==
  ASSUME ControlInv, WaitInv, gated,
         \/ GatePasses \/ GateRejects \/ Ingest \/ BarrierSettles \/ Finish \/ Dispose
  PROVE  WaitInv'
<1>0. /\ TypeOK
      /\ {"gate", "done", "completed", "operation", "terminal", "ingestion", "closed"}
           \subseteq Outcome \ {"none", "pending"}
  BY DEF ControlInv, Outcome, Success, Rejection
<1>1. ASSUME NEW code \in {"terminal", "ingestion"}, active' = active,
             Terminal(active, queue, outcome, code)
      PROVE  WaitInv'
  BY <1>0, <1>1, RejectWaits DEF Terminal
<1>2. CASE GatePasses
  <2>1. CASE Terminal(active, queue, outcome, "terminal")
    BY <1>1, <1>2, <2>1 DEF GatePasses
  <2>2. CASE ~Terminal(active, queue, outcome, "terminal")
    <3>1. phase = "gate" /\ phase' = "notify" /\ UNCHANGED <<queue, outcome, active>>
      BY <1>2, <2>2 DEF GatePasses, Accept
    <3>2. QED
      BY <3>1 DEF WaitInv, Underway
  <2>3. QED
    BY <2>1, <2>2
<1>3. CASE GateRejects
  BY <1>0, <1>3, SettleWaits DEF GateRejects, SettleAs, Underway
<1>4. CASE Ingest
  <2>1. CASE Terminal(active, queue, outcome, "ingestion")
    BY <1>1, <1>4, <2>1 DEF Ingest
  <2>2. CASE ~Terminal(active, queue, outcome, "ingestion")
    BY <1>0, <1>4, <2>2, SettleWaits DEF Ingest, Underway
  <2>3. QED
    BY <2>1, <2>2
<1>5. CASE BarrierSettles
  <2>1. PICK code \in {"completed", "operation"} : SettleAs(active, queue, outcome, code)
    BY <1>5 DEF BarrierSettles
  <2>2. QED
    BY <1>0, <1>5, <2>1, SettleWaits DEF BarrierSettles, SettleAs, Underway
<1>6. CASE Finish
  <2>1. CASE queue # << >> /\ Begin(queue, outcome)
    <3>1. WaitIn(queue, outcome)
      BY <1>6 DEF Finish, WaitInv, WaitIn, Underway
    <3>2. QED
      BY <1>0, <2>1, <3>1, BeginWaits DEF TypeOK
  <2>2. CASE ~(queue # << >> /\ Begin(queue, outcome))
    <3>1. phase' = "idle" /\ phase = "settled" /\ queue = << >> /\ UNCHANGED <<queue, outcome>>
      BY <1>6, <2>2 DEF Finish, ReleaseIfIdle, ControlInv, LifecycleInv
    <3>2. QED
      BY <3>1 DEF WaitInv, Underway
  <2>3. QED
    BY <2>1, <2>2
<1>7. CASE Dispose
  BY <1>0, <1>7, RejectWaits DEF Dispose
<1>8. QED
  BY <1>2, <1>3, <1>4, <1>5, <1>6, <1>7

-----------------------------------------------------------------------------
(* The whole host.                                                          *)

\* The steps of the authority inside the host are steps of the authority.
LEMMA AuthorityStep ==
  ASSUME PNext, ~Crash, ~Restore
  PROVE  [Next]_vars
BY DEF PNext, PCall, PSubmit, PContinue, Steps, PGatePasses, PGateRejects, PIngest, PFinish,
  PBarrierSettles, Adapter, AdapterAppends, AdapterCheckpoints, Lifecycle, InitialCheckpoint,
  Unload, Unloaded, Next, Call, Continue, vars

LEMMA DurableControl ==
  ASSUME DurableInv, [PNext]_allvars
  PROVE  ControlInv' /\ WaitInv'
<1>0. ControlInv /\ TypeOK /\ LifecycleInv /\ HistoryInv /\ WaitInv /\ StorageInv /\ PTypeOK
  BY DEF DurableInv, ControlInv
<1>1. CASE Crash
  <2>1. outcome' \in [Task -> Outcome] /\ \A s \in Task : outcome'[s] # "pending"
    BY <1>0, <1>1 DEF Crash, TypeOK, Outcome
  <2>2. gated' = gated
    BY DEF PNext, allvars, vars
  <2>3. TypeOK'
    BY <1>0, <1>1, <2>1, <2>2, EmptyQueue DEF Crash, TypeOK
  <2>4. LifecycleInv' /\ HistoryInv'
    BY <1>1 DEF Crash, LifecycleInv, HistoryInv
  <2>5. WaitInv'
    BY <1>1, <2>1 DEF Crash, WaitInv, Underway, QueuedIn
  <2>6. QED
    BY <2>3, <2>4, <2>5 DEF ControlInv
<1>2. CASE Restore
  <2>1. state = "closed" /\ active = NoTask /\ phase = "idle" /\ queue = << >>
    BY <1>0, <1>2 DEF Restore, StorageInv, LifecycleInv, TypeOK
  <2>2. disk.log \in Seq(Task) /\ Len(disk.log) \in Nat
    BY <1>0 DEF PTypeOK
  <2>3. gated' = gated
    BY DEF PNext, allvars, vars
  <2>4. TypeOK'
    BY <1>0, <1>2, <2>2, <2>3 DEF Restore, TypeOK
  <2>5. LifecycleInv' /\ HistoryInv'
    BY <1>2, <2>1 DEF Restore, LifecycleInv, HistoryInv
  <2>6. WaitInv'
    BY <1>0, <1>2 DEF Restore, WaitInv
  <2>7. QED
    BY <2>4, <2>5, <2>6 DEF ControlInv
<1>3. CASE ~Crash /\ ~Restore
  <2>1. [Next]_vars
    BY <1>3, AuthorityStep DEF allvars
  <2>2. ControlInv'
    BY <1>0, <2>1, ControlStep
  <2>3. CASE \E t \in Task, kind \in Kind : PSubmit(t, kind)
    BY <1>0, <2>2, <2>3, SubmitWaits DEF PSubmit, StorageInv
  <2>4. CASE GatePasses \/ GateRejects \/ Ingest \/ BarrierSettles \/ Finish \/ Dispose
    BY <1>0, <2>2, <2>4, AuthorityWaits DEF StorageInv
  <2>5. CASE UNCHANGED vars
    BY <1>0, <2>2, <2>5 DEF vars, WaitInv
  <2>6. QED
    BY <1>3, <2>2, <2>3, <2>4, <2>5 DEF PNext, PCall, PContinue, Steps, PGatePasses, PGateRejects,
      PIngest, PFinish, PBarrierSettles, Adapter, AdapterAppends, AdapterCheckpoints, Lifecycle,
      InitialCheckpoint, Unload, Unloaded, allvars
<1>4. QED
  BY <1>1, <1>2, <1>3
\* A step that leaves the map alone and the edits on disk in their places.
LEMMA StorageKeeps ==
  ASSUME DurableInv, TypeOK', gated' = gated, mapLog' = mapLog,
         disk' \in [exists : BOOLEAN, ckpt : Nat, log : Seq(Task)],
         Ahead(disk.log, disk'.log), Len(disk'.log) <= Len(mapLog) + 1,
         disk'.ckpt <= Len(mapLog),
         host' = "down" => state' = "closed",
         verdict' # "none" => phase' \in {"gate", "barrier"},
         phase' = "gate" /\ verdict' = "ok" =>
           Len(disk'.log) = Len(mapLog) + 1 /\ Edit[disk'.log[Len(mapLog) + 1]] = Edit[active'],
         phase' = "notify" => phase = "notify" /\ active' = active,
         \A t \in Task : outcome'[t] = "done" =>
           outcome[t] = "done" \/ (phase = "notify" /\ t = active)
  PROVE  StorageInv' /\ CheckpointCoversAccepted' /\ AcknowledgedSurvives'
<1>0. /\ StorageInv /\ AcknowledgedSurvives /\ mapLog \in Seq(Task) /\ Len(mapLog) \in Nat
      /\ disk.log \in Seq(Task) /\ Len(disk.log) \in Nat /\ Len(disk'.log) \in Nat
  BY DEF DurableInv, PTypeOK, TypeOK
<1>1. Ahead(mapLog, disk'.log)
  BY <1>0 DEF StorageInv, Ahead
<1>2. StorageInv'
  BY <1>0, <1>1 DEF StorageInv, Ahead
<1>3. ASSUME NEW t \in Task, outcome'[t] = "done"
      PROVE  \E r \in 1..Len(disk'.log) : Edit[disk'.log[r]] = Edit[t]
  <2>1. CASE outcome[t] = "done"
    <3>1. PICK r \in 1..Len(disk.log) : Edit[disk.log[r]] = Edit[t]
      BY <1>0, <2>1 DEF AcknowledgedSurvives
    <3>2. r \in 1..Len(disk'.log) /\ Edit[disk'.log[r]] = Edit[disk.log[r]]
      BY <1>0 DEF Ahead
    <3>3. QED
      BY <3>1, <3>2
  <2>2. CASE phase = "notify" /\ t = active
    <3> DEFINE r == Len(mapLog)
    <3>1. r \in 1..Len(mapLog) /\ mapLog[r] = t
      BY <1>0, <2>2, EmptySeq DEF StorageInv
    <3>2. r \in 1..Len(disk'.log) /\ Edit[disk'.log[r]] = Edit[mapLog[r]]
      BY <1>0, <1>1, <3>1 DEF Ahead
    <3>3. QED
      BY <3>1, <3>2
  <2>3. QED
    BY <1>3, <2>1, <2>2
<1>4. AcknowledgedSurvives'
  BY <1>3 DEF AcknowledgedSurvives
<1>5. QED
  BY <1>2, <1>4 DEF CheckpointCoversAccepted

\* The append of the running task reaches the disk.
\* A sequence that grew by an element holds that and what it held.
LEMMA AppendedTo ==
  ASSUME NEW L \in Seq(Task), NEW a \in Task, NEW M, M = Append(L, a)
  PROVE  \A t : (\E r \in 1..Len(M) : M[r] = t) <=> (\E r \in 1..Len(L) : L[r] = t) \/ t = a
<1>1. /\ Len(M) = Len(L) + 1 /\ Len(L) \in Nat
      /\ \A i \in 1..Len(L) : M[i] = L[i]
      /\ M[Len(L) + 1] = a
  BY AppendProperties
<1>2. Len(L) + 1 \in 1..Len(M) /\ \A i \in 1..Len(L) : i \in 1..Len(M)
  BY <1>1
<1>3. \A i \in 1..Len(M) : i \in 1..Len(L) \/ i = Len(L) + 1
  BY <1>1
<1>. QED
  BY <1>1, <1>2, <1>3

LEMMA StoreGrows ==
  ASSUME DurableInv, phase = "gate", Continues, Store
  PROVE  /\ disk' \in [exists : BOOLEAN, ckpt : Nat, log : Seq(Task)] /\ disk'.ckpt = disk.ckpt
         /\ disk'.log = Append(disk.log, active) /\ active \in Task
         /\ Ahead(disk.log, disk'.log)
         /\ Len(disk'.log) = Len(mapLog) + 1 /\ disk'.log[Len(mapLog) + 1] = active
<1>1. /\ disk \in [exists : BOOLEAN, ckpt : Nat, log : Seq(Task)]
      /\ active \in Task /\ base = Len(mapLog)
  BY NoTaskAssumption DEF DurableInv, PTypeOK, ControlInv, TypeOK, HistoryInv
<1>2. disk' = [disk EXCEPT !.log = Append(disk.log, active)]
  BY DEF Store
<1>3. disk'.log = Append(disk.log, active) /\ disk'.ckpt = disk.ckpt /\ disk.log \in Seq(Task)
  BY <1>1, <1>2
<1>4. /\ Append(disk.log, active) \in Seq(Task) /\ Len(disk'.log) = Len(disk.log) + 1
      /\ Len(disk.log) = Len(mapLog) /\ Len(disk.log) \in Nat
      /\ \A i \in 1..Len(disk'.log) :
           disk'.log[i] = IF i = Len(disk.log) + 1 THEN active ELSE disk.log[i]
  BY <1>1, <1>3, AppendProperties DEF Continues
<1>5. disk' \in [exists : BOOLEAN, ckpt : Nat, log : Seq(Task)]
  BY <1>1, <1>2, <1>4
<1>6. Ahead(disk.log, disk'.log)
  BY <1>4 DEF Ahead
<1>7. Len(mapLog) + 1 \in 1..Len(disk'.log)
  BY <1>4
<1>8. QED
  BY <1>1, <1>3, <1>4, <1>5, <1>6, <1>7

\* A checkpoint of the map keeps every edit on the disk in its place.
LEMMA TrimKeeps ==
  ASSUME DurableInv, disk' = Trimmed(mapLog)
  PROVE  /\ disk' \in [exists : BOOLEAN, ckpt : Nat, log : Seq(Task)]
         /\ disk'.ckpt = Len(mapLog) /\ Len(disk'.log) = Len(disk.log)
         /\ Ahead(disk.log, disk'.log)
<1>1. /\ PTypeOK /\ Ahead(mapLog, disk.log) /\ Len(disk.log) \in Nat /\ Len(mapLog) \in Nat
  BY DEF DurableInv, StorageInv, PTypeOK, TypeOK
<1>2. /\ Len(disk'.log) = Len(disk.log)
      /\ \A i \in 1..Len(disk.log) :
           disk'.log[i] = IF i <= Len(mapLog) THEN mapLog[i] ELSE disk.log[i]
  BY <1>1, TrimmedLog
<1>3. Ahead(disk.log, disk'.log)
  BY <1>1, <1>2 DEF Ahead
<1>4. QED
  BY <1>1, <1>3, TrimmedLog
\* What a step of the running task that is no acceptance does to the map and
\* to the promises.
LEMMA AuthorityQuiet ==
  ASSUME TypeOK, gated,
         \/ \E t \in Task, kind \in Kind : Submit(t, kind)
         \/ GateRejects \/ Ingest \/ BarrierSettles \/ Finish \/ Dispose
         \/ GatePasses /\ Terminal(active, queue, outcome, "terminal")
  PROVE  /\ mapLog' = mapLog
         /\ phase' = "notify" => phase = "notify" /\ active' = active
         /\ phase' = "gate" =>
                  (phase = "gate" /\ active' = active) \/ phase \in {"idle", "settled"}
         /\ \A t \in Task : outcome'[t] = "done" =>
              outcome[t] = "done" \/ (phase = "notify" /\ t = active)
<1>0. outcome \in [Task -> Outcome]
  BY DEF TypeOK
<1>1. ASSUME NEW q \in Seq(Entry), q # << >>, NEW out \in [Task -> Outcome], Begin(q, out),
             active = NoTask \/ phase = "settled",
             \A t \in Task : out[t] = "done" => outcome[t] = "done"
      PROVE  /\ mapLog' = mapLog /\ phase' # "notify" /\ phase \in {"idle", "settled"}
             /\ \A t \in Task : outcome'[t] = "done" => outcome[t] = "done"
  <2>1. /\ mapLog' = mapLog /\ phase' \in {"barrier", "gate", "settled"}
        /\ phase' = "settled" =>
             \E code \in {"prepare", "noop"} : outcome' = [out EXCEPT ![Head(q).task] = code]
        /\ phase' # "settled" => outcome' = out
    BY <1>1, BeginGated
  <2>2. ASSUME NEW t \in Task, outcome'[t] = "done" PROVE out[t] = "done"
    <3>1. CASE phase' = "settled"
      <4>1. PICK code \in {"prepare", "noop"} : outcome' = [out EXCEPT ![Head(q).task] = code]
        BY <2>1, <3>1
      <4>2. outcome'[t] = IF t = Head(q).task THEN code ELSE out[t]
        BY <4>1
      <4>3. QED
        BY <2>2, <4>2
    <3>2. QED
      BY <2>1, <2>2, <3>1
  <2>3. QED
    BY <1>1, <2>1, <2>2 DEF TypeOK
<1>2. ASSUME NEW t \in Task, NEW kind \in Kind, Submit(t, kind)
      PROVE  /\ mapLog' = mapLog
             /\ phase' = "notify" => phase = "notify" /\ active' = active
             /\ phase' = "gate" =>
                  (phase = "gate" /\ active' = active) \/ phase \in {"idle", "settled"}
             /\ \A s \in Task : outcome'[s] = "done" => outcome[s] = "done"
  <2> DEFINE e == [task |-> t, kind |-> kind]
             q == Enqueue(queue, e)
             out == [outcome EXCEPT ![t] = "pending"]
  <2>1. CASE state = "open" /\ active = NoTask
    <3>1. e \in Entry /\ queue \in Seq(Entry)
      BY DEF Entry, TypeOK
    <3>2. q \in Seq(Entry) /\ q # << >>
      BY <3>1, AppendProperties DEF Enqueue
    <3>3. out \in [Task -> Outcome] /\ \A s \in Task : out[s] = "done" => outcome[s] = "done"
      BY <1>0 DEF Outcome
    <3>4. Begin(q, out)
      BY <1>2, <2>1 DEF Submit
    <3> HIDE DEF q, out, e
    <3>5. QED
      BY <1>1, <2>1, <3>2, <3>3, <3>4
  <2>2. CASE ~(state = "open" /\ active = NoTask)
    <3>1. UNCHANGED <<mapLog, phase, active>>
      BY <1>2, <2>2 DEF Submit
    <3>2. PICK code \in {"terminal", "closed", "pending"} : outcome' = [outcome EXCEPT ![t] = code]
      BY <1>2, <2>2 DEF Submit
    <3>3. \A s \in Task : outcome'[s] = IF s = t THEN code ELSE outcome[s]
      BY <1>0, <3>2
    <3>4. QED
      BY <3>1, <3>3
  <2>3. QED
    BY <2>1, <2>2
<1>3. CASE GateRejects
  BY <1>0, <1>3 DEF GateRejects, SettleAs
<1>4. CASE Ingest
  <2>1. CASE Terminal(active, queue, outcome, "ingestion")
    BY <1>0, <1>4, <2>1 DEF Ingest, Terminal, Reject
  <2>2. CASE ~Terminal(active, queue, outcome, "ingestion")
    BY <1>0, <1>4, <2>2 DEF Ingest
  <2>3. QED
    BY <2>1, <2>2
<1>5. CASE BarrierSettles
  BY <1>0, <1>5 DEF BarrierSettles, SettleAs
<1>6. CASE Finish
  <2>1. CASE queue # << >> /\ Begin(queue, outcome)
    BY <1>0, <1>1, <1>6, <2>1 DEF Finish, TypeOK
  <2>2. CASE ~(queue # << >> /\ Begin(queue, outcome))
    BY <1>6, <2>2 DEF Finish, ReleaseIfIdle
  <2>3. QED
    BY <2>1, <2>2
<1>7. CASE Dispose
  BY <1>0, <1>7 DEF Dispose, Reject
<1>8. CASE GatePasses /\ Terminal(active, queue, outcome, "terminal")
  BY <1>0, <1>8 DEF GatePasses, Terminal, Reject
<1>9. QED
  BY <1>2, <1>3, <1>4, <1>5, <1>6, <1>7, <1>8
\* The map takes a commit that its gate was told is on disk.
LEMMA AcceptanceKeeps ==
  ASSUME DurableInv, gated' = gated, PGatePasses, mapLog' = Append(mapLog, active),
         queue' = queue, outcome' = outcome, phase' = "notify", state' = state
  PROVE  StorageInv' /\ CheckpointCoversAccepted' /\ AcknowledgedSurvives'
<1>1. /\ phase = "gate" /\ verdict = "ok" /\ verdict' = "none" /\ active' = active
      /\ UNCHANGED <<host, disk>>
  BY DEF PGatePasses, Steps, GatePasses
<1>2. /\ StorageInv /\ mapLog \in Seq(Task) /\ Len(mapLog) \in Nat /\ active \in Task
      /\ disk.ckpt <= Len(mapLog) /\ disk.ckpt \in Nat /\ Len(disk.log) \in Nat
  BY <1>1, NoTaskAssumption DEF DurableInv, PTypeOK, ControlInv, TypeOK, CheckpointCoversAccepted
<1>3. /\ Len(mapLog') = Len(mapLog) + 1
      /\ \A i \in 1..Len(mapLog') : mapLog'[i] = IF i = Len(mapLog) + 1 THEN active ELSE mapLog[i]
  BY <1>2, AppendProperties
<1>4. Len(disk.log) = Len(mapLog) + 1 /\ Edit[disk.log[Len(mapLog) + 1]] = Edit[active]
  BY <1>1, <1>2 DEF StorageInv
<1>5. Ahead(mapLog', disk.log)
  BY <1>2, <1>3, <1>4 DEF StorageInv, Ahead
<1>6. mapLog' # << >> /\ mapLog'[Len(mapLog')] = active
  BY <1>2, <1>3
<1>7. StorageInv'
  BY <1>1, <1>2, <1>3, <1>4, <1>5, <1>6 DEF StorageInv
<1>8. CheckpointCoversAccepted' /\ AcknowledgedSurvives'
  BY <1>1, <1>2, <1>3 DEF DurableInv, CheckpointCoversAccepted, AcknowledgedSurvives
<1>9. QED
  BY <1>7, <1>8

LEMMA DurableStep == DurableInv /\ [PNext]_allvars => DurableInv'
<1> SUFFICES ASSUME DurableInv, [PNext]_allvars PROVE DurableInv'
  OBVIOUS
<1>0. /\ PTypeOK /\ ControlInv /\ WaitInv /\ StorageInv /\ CheckpointCoversAccepted
      /\ AcknowledgedSurvives /\ TypeOK /\ LifecycleInv /\ HistoryInv
  BY DEF DurableInv, ControlInv
<1>1. ControlInv' /\ WaitInv' /\ TypeOK'
  BY DurableControl DEF ControlInv
<1>2. gated' = gated
  BY DEF PNext, allvars, vars
<1>3. /\ disk \in [exists : BOOLEAN, ckpt : Nat, log : Seq(Task)]
      /\ Ahead(disk.log, disk.log) /\ Len(disk.log) <= Len(mapLog) + 1 /\ disk.ckpt <= Len(mapLog)
      /\ mapLog \in Seq(Task) /\ Len(mapLog) \in Nat /\ Len(disk.log) \in Nat
  BY <1>0 DEF PTypeOK, TypeOK, StorageInv, CheckpointCoversAccepted, Ahead
<1> DEFINE Held == StorageInv' /\ CheckpointCoversAccepted' /\ AcknowledgedSurvives'
           Typed == /\ host' \in {"creating", "up", "unloading", "down"}
                    /\ disk' \in [exists : BOOLEAN, ckpt : Nat, log : Seq(Task)]
                    /\ verdict' \in {"none", "ok", "failed", "lost"}
                    /\ restarts' \in 0..MaxRestarts
<1>4. SUFFICES Held /\ Typed
  <2>1. Typed => PTypeOK'
    BY <1>1 DEF PTypeOK
  <2>2. QED
    BY <1>1, <2>1 DEF DurableInv
<1>5. ASSUME \/ \E t \in Task, kind \in Kind : PSubmit(t, kind)
             \/ PGateRejects \/ PIngest \/ PFinish \/ PBarrierSettles
             \/ PGatePasses /\ Terminal(active, queue, outcome, "terminal")
      PROVE  Held /\ Typed
  <2>1. UNCHANGED <<host, disk, restarts>> /\ verdict' \in {verdict, "none"}
    BY <1>5 DEF PSubmit, Steps, PGateRejects, PIngest, PFinish, PBarrierSettles, PGatePasses
  <2>2. /\ mapLog' = mapLog
        /\ phase' = "notify" => phase = "notify" /\ active' = active
        /\ \A t \in Task : outcome'[t] = "done" =>
             outcome[t] = "done" \/ (phase = "notify" /\ t = active)
    BY <1>0, <1>5, AuthorityQuiet DEF StorageInv, PSubmit, Steps, PGateRejects, PIngest,
      PFinish, PBarrierSettles, PGatePasses
  <2>3. verdict' # "none" =>
          verdict' = verdict /\ phase \in {"gate", "barrier"} /\ phase' = phase /\ active' = active
    <3>1. ASSUME NEW t \in Task, NEW kind \in Kind, PSubmit(t, kind), verdict # "none"
          PROVE  phase \in {"gate", "barrier"} /\ phase' = phase /\ active' = active
      <4>1. active # NoTask /\ phase \in {"gate", "barrier"}
        BY <1>0, <3>1 DEF StorageInv, TypeOK
      <4>2. QED
        BY <3>1, <4>1 DEF PSubmit, Submit
    <3>2. QED
      BY <1>5, <3>1 DEF PSubmit, Steps, PGateRejects, PIngest, PFinish, PBarrierSettles, PGatePasses
  <2>4. host' = "down" => state' = "closed"
    <3>1. host = "down" => active = NoTask /\ phase = "idle" /\ state = "closed"
      BY <1>0 DEF StorageInv, LifecycleInv, TypeOK
    <3>2. CASE host = "down"
      BY <1>5, <3>1, <3>2 DEF PSubmit, Steps, PGateRejects, PIngest, PFinish, PBarrierSettles,
        PGatePasses, GateRejects, Ingest, Finish, BarrierSettles, GatePasses
    <3>3. QED
      BY <2>1, <3>2
  <2>5. Held
    BY <1>0, <1>1, <1>2, <1>3, <2>1, <2>2, <2>3, <2>4, StorageKeeps DEF StorageInv
  <2>6. QED
    BY <1>0, <2>1, <2>5 DEF PTypeOK
<1>6. CASE PGatePasses /\ ~Terminal(active, queue, outcome, "terminal")
  <2>1. /\ mapLog' = Append(mapLog, active) /\ queue' = queue /\ outcome' = outcome
        /\ phase' = "notify" /\ state' = state
    BY <1>6 DEF PGatePasses, Steps, GatePasses, Accept
  <2>2. Held
    BY <1>2, <1>6, <2>1, AcceptanceKeeps
  <2>3. QED
    BY <1>0, <1>6, <2>2 DEF PGatePasses, Steps, PTypeOK
<1>7. CASE AdapterAppends
  <2>1. /\ phase = "gate" /\ UNCHANGED <<vars, host, restarts>>
        /\ \/ Continues /\ Store /\ verdict' \in {"ok", "lost"}
           \/ Repeats /\ UNCHANGED disk /\ verdict' = "ok"
           \/ UNCHANGED disk /\ verdict' = "failed"
    BY <1>7 DEF AdapterAppends
  <2>2. CASE Continues /\ Store /\ verdict' \in {"ok", "lost"}
    <3>1. /\ disk' \in [exists : BOOLEAN, ckpt : Nat, log : Seq(Task)] /\ disk'.ckpt = disk.ckpt
          /\ Ahead(disk.log, disk'.log)
          /\ Len(disk'.log) = Len(mapLog) + 1 /\ disk'.log[Len(mapLog) + 1] = active
      BY <2>1, <2>2, StoreGrows
    <3>2. Held
      BY <1>0, <1>1, <1>2, <1>3, <2>1, <3>1, StorageKeeps DEF vars, StorageInv
    <3>3. QED
      BY <1>0, <2>1, <2>2, <3>1, <3>2 DEF PTypeOK
  <2>3. CASE Repeats /\ UNCHANGED disk /\ verdict' = "ok"
    <3>1. base = Len(mapLog)
      BY <1>0, <2>1 DEF HistoryInv
    <3>2. Len(disk.log) = Len(mapLog) + 1 /\ Edit[disk.log[Len(mapLog) + 1]] = Edit[active]
      BY <1>3, <2>3, <3>1 DEF Repeats, Next1
    <3>3. Held
      BY <1>0, <1>1, <1>2, <1>3, <2>1, <2>3, <3>2, StorageKeeps DEF vars, StorageInv
    <3>4. QED
      BY <1>0, <2>1, <2>3, <3>3 DEF PTypeOK
  <2>4. CASE UNCHANGED disk /\ verdict' = "failed"
    <3>1. Held
      BY <1>0, <1>1, <1>2, <1>3, <2>1, <2>4, StorageKeeps DEF vars, StorageInv
    <3>2. QED
      BY <1>0, <2>1, <2>4, <3>1 DEF PTypeOK
  <2>5. QED
    BY <2>1, <2>2, <2>3, <2>4
<1>8. CASE AdapterCheckpoints
  <2>1. phase = "barrier" /\ UNCHANGED <<vars, host, restarts>> /\ verdict' \in {"ok", "lost", "failed"}
    BY <1>8 DEF AdapterCheckpoints
  <2>2. /\ disk' \in [exists : BOOLEAN, ckpt : Nat, log : Seq(Task)] /\ disk'.ckpt <= Len(mapLog)
        /\ Len(disk'.log) = Len(disk.log) /\ Ahead(disk.log, disk'.log)
    BY <1>3, <1>8, TrimKeeps DEF AdapterCheckpoints
  <2>3. Held
    BY <1>0, <1>1, <1>2, <1>3, <2>1, <2>2, StorageKeeps DEF vars, StorageInv
  <2>4. QED
    BY <1>0, <2>1, <2>2, <2>3 DEF PTypeOK
<1>9. CASE InitialCheckpoint \/ Unload \/ Unloaded
  <2>1. /\ Dispose \/ UNCHANGED vars
        /\ disk' = disk \/ disk' = [disk EXCEPT !.exists = TRUE]
        /\ host' \in {"up", "unloading", "down"} /\ UNCHANGED <<verdict, restarts>>
        /\ host' = "down" => ~managed /\ UNCHANGED vars
    BY <1>9 DEF InitialCheckpoint, Unload, Unloaded
  <2>2. /\ disk' \in [exists : BOOLEAN, ckpt : Nat, log : Seq(Task)]
        /\ disk'.log = disk.log /\ disk'.ckpt = disk.ckpt
    BY <1>3, <2>1
  <2>3. UNCHANGED <<mapLog, phase, active>>
    BY <2>1 DEF Dispose, vars
  <2>4. \A t \in Task : outcome'[t] = "done" => outcome[t] = "done"
    BY <1>0, <2>1 DEF Dispose, Reject, vars
  <2>5. host' = "down" => state' = "closed"
    BY <1>0, <2>1 DEF LifecycleInv, vars
  <2>6. Held
    BY <1>0, <1>1, <1>2, <1>3, <2>1, <2>2, <2>3, <2>4, <2>5, StorageKeeps DEF StorageInv
  <2>7. QED
    BY <1>0, <2>1, <2>2, <2>6 DEF PTypeOK
<1>10. CASE Crash
  <2>1. /\ host' = "down" /\ state' = "closed" /\ phase' = "idle" /\ verdict' = "none"
        /\ mapLog' = mapLog /\ restarts' = restarts
        /\ \A t \in Task : outcome'[t] = "done" => outcome[t] = "done"
    BY <1>10 DEF Crash
  <2>2. /\ disk' \in [exists : BOOLEAN, ckpt : Nat, log : Seq(Task)] /\ disk'.ckpt <= Len(mapLog)
        /\ Len(disk'.log) <= Len(mapLog) + 1 /\ Ahead(disk.log, disk'.log)
    <3>1. CASE disk' = disk \/ disk' = [disk EXCEPT !.exists = TRUE]
      BY <1>3, <3>1
    <3>2. CASE phase = "gate" /\ Continues /\ Store
      BY <1>3, <3>2, StoreGrows
    <3>3. CASE disk' = Trimmed(mapLog)
      BY <1>3, <3>3, TrimKeeps
    <3>4. QED
      BY <1>10, <3>1, <3>2, <3>3 DEF Crash
  <2>3. Held
    BY <1>1, <1>2, <2>1, <2>2, StorageKeeps
  <2>4. QED
    BY <1>0, <2>1, <2>2, <2>3 DEF PTypeOK
<1>11. CASE Restore
  <2>1. /\ mapLog' = disk.log /\ host' = "up" /\ UNCHANGED <<phase, outcome, disk, verdict>>
        /\ restarts' = restarts + 1 /\ restarts < MaxRestarts
    BY <1>11 DEF Restore
  <2>2. phase = "idle" /\ verdict = "none"
    BY <1>0, <1>11 DEF Restore, StorageInv, LifecycleInv, TypeOK
  <2>3. StorageInv'
    BY <1>0, <1>2, <1>3, <2>1, <2>2 DEF StorageInv
  <2>4. CheckpointCoversAccepted'
    BY <1>0, <1>3, <2>1 DEF StorageInv, Ahead, CheckpointCoversAccepted
  <2>5. AcknowledgedSurvives'
    BY <1>0, <2>1 DEF AcknowledgedSurvives
  <2>6. QED
    BY <1>0, <2>1, <2>3, <2>4, <2>5, MaxRestartsAssumption DEF PTypeOK
<1>12. CASE UNCHANGED allvars
  <2>1. Held
    BY <1>0, <1>12 DEF allvars, pvars, vars, StorageInv, CheckpointCoversAccepted, AcknowledgedSurvives
  <2>2. QED
    BY <1>0, <1>12, <2>1 DEF allvars, pvars, PTypeOK
<1>13. QED
  BY <1>5, <1>6, <1>7, <1>8, <1>9, <1>10, <1>11, <1>12 DEF PNext, PCall, PContinue, Adapter, Lifecycle
LEMMA DurableInit == PInit => DurableInv
<1> SUFFICES ASSUME PInit PROVE DurableInv
  OBVIOUS
<1>1. ControlInv
  BY ControlInit DEF PInit
<1>2. PTypeOK
  BY <1>1, EmptyQueue, MaxRestartsAssumption DEF PInit, PTypeOK, ControlInv
<1>3. WaitInv /\ StorageInv
  BY DEF PInit, Init, WaitInv, StorageInv, QueuedIn, Underway, Ahead
<1>4. CheckpointCoversAccepted /\ AcknowledgedSurvives
  BY DEF PInit, Init, CheckpointCoversAccepted, AcknowledgedSurvives
<1>5. QED
  BY <1>1, <1>2, <1>3, <1>4 DEF DurableInv

\* The inductive invariant of a persistent host: who waits, where the disk
\* stands to the map, and what the adapter's answer says of the disk
\* (make_persistence_gate, checkpoint, restore_persistent_locus).
THEOREM DurableInvariant == PSpec => []DurableInv
  BY DurableInit, DurableStep, PTL DEF PSpec

\* The map's log is a prefix of the disk's, up to what the edits are.
LEMMA DurablePrefix ==
  DurableInv => IsPrefixOf(Edits(mapLog), Edits(disk.log)) /\ Len(disk.log) <= Len(mapLog) + 1
<1> SUFFICES ASSUME DurableInv
             PROVE  IsPrefixOf(Edits(mapLog), Edits(disk.log)) /\ Len(disk.log) <= Len(mapLog) + 1
  OBVIOUS
<1>1. mapLog \in Seq(Task) /\ disk.log \in Seq(Task) /\ StorageInv
  BY DEF DurableInv, PTypeOK, TypeOK
<1>2. QED
  BY <1>1, PrefixIsAhead DEF StorageInv

\* Nothing accepted, and nothing a caller was told is durable, is missing from
\* what a restart reads, whatever the calls, the adapter's failures and the
\* crashes (make_persistence_gate, checkpoint, restore_persistent_locus).
THEOREM AcceptedIsDurable == PSpec => []NothingAcceptedIsLost
<1>1. DurableInv => NothingAcceptedIsLost
  BY DurablePrefix DEF DurableInv, NothingAcceptedIsLost, WriteAhead
<1>2. QED
  BY <1>1, DurableInvariant, PTL

-----------------------------------------------------------------------------
(* What a refused call leaves behind.                                       *)

\* A call that has not come to the adapter, or that it refused without a trace.
Fresh(t) ==
  \/ outcome[t] = "none"
  \/ QueuedIn(queue, t)
  \/ t = active /\ (phase = "barrier" \/ (phase = "gate" /\ verdict \in {"none", "failed"}))

Refused == {"prepare", "gate", "closed"}

TraceInv ==
  /\ \A t \in Task : Fresh(t) => ~Installed(t) /\ ~OnDisk(t)
  /\ phase = "gate" => ~Installed(active)
  /\ \A t \in Task : Installed(t) /\ outcome[t] \in Refused => OnDisk(t)

\* A step that is no acceptance and no restart.
LEMMA TraceKeeps ==
  ASSUME DurableInv, TraceInv, mapLog' = mapLog,
         \A t \in Task : OnDisk(t)' => OnDisk(t) \/ Installed(t) \/ (phase = "gate" /\ t = active),
         \A t \in Task : Installed(t) /\ OnDisk(t) => OnDisk(t)',
         \A t \in Task : Fresh(t)' => Fresh(t) /\ (OnDisk(t)' => OnDisk(t) \/ Installed(t)),
         phase' = "gate" => (phase = "gate" /\ active' = active) \/ Fresh(active'),
         phase' = "gate" => active' \in Task,
         \A t \in Task : outcome'[t] \in Refused =>
           \/ outcome'[t] = outcome[t]
           \/ Fresh(t) /\ disk'.log = disk.log
           \/ phase = "gate" /\ t = active /\ verdict = "lost" /\ disk'.log = disk.log
  PROVE  /\ TraceInv'
         /\ \A t \in Task : OnDisk(t)' /\ outcome'[t] \in Refused =>
              OnDisk(t) /\ (outcome[t] = outcome'[t] \/ verdict = "lost")
<1>1. \A t \in Task : Installed(t)' <=> Installed(t)
  BY DEF Installed
<1>2. disk'.log = disk.log => \A t \in Task : OnDisk(t)' <=> OnDisk(t)
  BY DEF OnDisk
<1>3. phase = "gate" => active \in Task /\ outcome[active] = "pending"
  BY NoTaskAssumption DEF DurableInv, WaitInv, Underway, ControlInv, TypeOK
<1>4. \A t \in Task : Fresh(t)' => ~Installed(t)' /\ ~OnDisk(t)'
  BY <1>1 DEF TraceInv
<1>5. phase' = "gate" => ~Installed(active')
  BY DEF TraceInv
<1>6. (phase = "gate" => ~Installed(active))'
  BY <1>5 DEF Installed
<1>7. \A t \in Task : Installed(t)' /\ outcome'[t] \in Refused => OnDisk(t)'
  BY <1>1 DEF TraceInv
<1>8. \A t \in Task : OnDisk(t)' /\ outcome'[t] \in Refused =>
        OnDisk(t) /\ (outcome[t] = outcome'[t] \/ verdict = "lost")
  BY <1>2, <1>3 DEF TraceInv, Refused
<1>9. QED
  BY <1>4, <1>6, <1>7, <1>8 DEF TraceInv
\* The task that drain() starts comes from the queue and so do those it leaves.
LEMMA BeginTrace ==
  ASSUME gated, NEW q \in Seq(Entry), q # << >>, NEW out \in [Task -> Outcome],
         WaitIn(q, out), Begin(q, out)
  PROVE  /\ active' \in Task /\ QueuedIn(q, active')
         /\ \A t \in Task : Fresh(t)' => out[t] = "none" \/ QueuedIn(q, t)
         /\ \A t \in Task : outcome'[t] # out[t] => QueuedIn(q, t)
<1> DEFINE h == Head(q).task
<1>1. /\ h \in Task /\ \A t \in Task : QueuedIn(q, t) <=> QueuedIn(Tail(q), t) \/ t = h
  BY HeadLeaves
<1>2. /\ active' = h /\ queue' = Tail(q) /\ mapLog' = mapLog
      /\ phase' = "settled" => \E code \in {"prepare", "noop"} : outcome' = [out EXCEPT ![h] = code]
      /\ phase' # "settled" => outcome' = out
  BY BeginGated
<1> HIDE DEF h
<1>3. ASSUME NEW t \in Task PROVE outcome'[t] = out[t] \/ (t = h /\ outcome'[t] \in {"prepare", "noop"})
  <2>1. CASE phase' = "settled"
    <3>1. PICK code \in {"prepare", "noop"} : outcome' = [out EXCEPT ![h] = code]
      BY <1>2, <2>1
    <3>2. QED
      BY <3>1
  <2>2. CASE phase' # "settled"
    BY <1>2, <2>2
  <2>3. QED
    BY <2>1, <2>2
<1>4. \A t \in Task : Fresh(t)' => outcome'[t] = "none" \/ QueuedIn(Tail(q), t) \/ t = h
  BY <1>2 DEF Fresh
<1>5. QED
  BY <1>1, <1>2, <1>3, <1>4

LEMMA AuthorityTrace ==
  ASSUME DurableInv, verdict' \in {verdict, "none"},
         \/ verdict' = verdict /\ \E t \in Task, kind \in Kind : Submit(t, kind)
         \/ verdict \in {"failed", "lost"} /\ GateRejects
         \/ Ingest \/ BarrierSettles \/ Finish
         \/ verdict' = verdict /\ Dispose
         \/ GatePasses /\ Terminal(active, queue, outcome, "terminal")
         \/ verdict' = verdict /\ UNCHANGED vars
  PROVE  /\ \A t \in Task : Fresh(t)' => Fresh(t)
         /\ phase' = "gate" => (phase = "gate" /\ active' = active) \/ Fresh(active')
         /\ phase' = "gate" => active' \in Task
         /\ \A t \in Task : outcome'[t] \in Refused =>
              outcome'[t] = outcome[t] \/ Fresh(t) \/ (phase = "gate" /\ t = active /\ verdict = "lost")
<1>0. /\ TypeOK /\ WaitInv /\ gated /\ outcome \in [Task -> Outcome] /\ active \in Task \cup {NoTask}
      /\ phase = "gate" => active \in Task
  BY NoTaskAssumption DEF DurableInv, ControlInv, StorageInv, TypeOK
<1> DEFINE Goal ==
      /\ \A t \in Task : Fresh(t)' => Fresh(t)
      /\ phase' = "gate" => (phase = "gate" /\ active' = active) \/ Fresh(active')
      /\ phase' = "gate" => active' \in Task
      /\ \A t \in Task : outcome'[t] \in Refused =>
           outcome'[t] = outcome[t] \/ Fresh(t) \/ (phase = "gate" /\ t = active /\ verdict = "lost")
<1>1. ASSUME NEW t \in Task, NEW kind \in Kind, Submit(t, kind), verdict' = verdict PROVE Goal
  <2>1. outcome[t] = "none"
    BY <1>1 DEF Submit
  <2>2. CASE state # "open"
    <3>1. UNCHANGED <<queue, active, phase>>
      BY <1>1, <2>2 DEF Submit
    <3>2. PICK code \in {"terminal", "closed"} : outcome' = [outcome EXCEPT ![t] = code]
      BY <1>1, <2>2 DEF Submit
    <3>3. \A s \in Task : outcome'[s] = IF s = t THEN code ELSE outcome[s]
      BY <1>0, <3>2
    <3>4. QED
      BY <1>0, <1>1, <2>1, <3>1, <3>3 DEF Fresh
  <2>3. CASE state = "open"
    <3> DEFINE e == [task |-> t, kind |-> kind]
               q == Enqueue(queue, e)
               out == [outcome EXCEPT ![t] = "pending"]
    <3>1. e \in Entry /\ e.task = t /\ queue \in Seq(Entry)
      BY <1>0 DEF Entry, TypeOK
    <3>2. /\ q \in Seq(Entry) /\ q # << >> /\ Len(q) = Len(queue) + 1 /\ Len(queue) \in Nat
          /\ \A i \in 1..Len(q) : q[i] = IF i = Len(queue) + 1 THEN e ELSE queue[i]
      BY <3>1, AppendProperties DEF Enqueue
    <3>3. /\ out \in [Task -> Outcome]
          /\ \A s \in Task : out[s] = IF s = t THEN "pending" ELSE outcome[s]
      BY <1>0 DEF Outcome
    <3>4. \/ active # NoTask /\ queue' = q /\ outcome' = out /\ UNCHANGED <<active, phase>>
          \/ active = NoTask /\ Begin(q, out)
      BY <1>1, <2>3 DEF Submit
    <3> HIDE DEF e, q, out
    <3>5. \A s : QueuedIn(q, s) <=> QueuedIn(queue, s) \/ s = t
      <4>1. Len(queue) + 1 \in 1..Len(q) /\ \A i \in 1..Len(queue) : i \in 1..Len(q) /\ q[i] = queue[i]
        BY <3>2
      <4>2. QED
        BY <3>1, <3>2, <4>1 DEF QueuedIn
    <3>6. CASE active # NoTask
      <4>1. queue' = q /\ outcome' = out /\ UNCHANGED <<active, phase>>
        BY <3>4, <3>6
      <4>2. \A s \in Task : Fresh(s)' => Fresh(s)
        BY <1>1, <2>1, <3>3, <3>5, <4>1 DEF Fresh
      <4>3. \A s \in Task : outcome'[s] \in Refused => outcome'[s] = outcome[s]
        BY <3>3, <4>1 DEF Refused
      <4>4. QED
        BY <1>0, <4>1, <4>2, <4>3
    <3>7. CASE active = NoTask
      <4>1. ~QueuedIn(queue, t) /\ phase = "idle"
        BY <1>0, <2>1, <3>7 DEF WaitInv, TypeOK
      <4>2. WaitIn(q, out)
        <5>1. \A i, j \in 1..Len(q) : q[i].task = q[j].task => i = j
          BY <1>0, <3>1, <3>2, <4>1 DEF WaitInv, QueuedIn
        <5>2. \A s \in Task : out[s] = "pending" <=> QueuedIn(q, s)
          BY <1>0, <3>3, <3>5, <4>1 DEF WaitInv, Underway
        <5>3. QED
          BY <5>1, <5>2 DEF WaitIn
      <4>3. /\ active' \in Task /\ QueuedIn(q, active')
            /\ \A s \in Task : Fresh(s)' => out[s] = "none" \/ QueuedIn(q, s)
            /\ \A s \in Task : outcome'[s] # out[s] => QueuedIn(q, s)
        BY <1>0, <3>2, <3>3, <3>4, <3>7, <4>2, BeginTrace
      <4>4. \A s \in Task : out[s] = "none" \/ QueuedIn(q, s) => Fresh(s)
        BY <2>1, <3>3, <3>5 DEF Fresh
      <4>5. \A s \in Task : outcome'[s] \in Refused => outcome'[s] = outcome[s] \/ Fresh(s)
        BY <3>3, <4>3, <4>4 DEF Refused
      <4>6. QED
        BY <4>3, <4>4, <4>5
    <3>8. QED
      BY <3>6, <3>7
  <2>4. QED
    BY <2>2, <2>3
<1>2. CASE verdict \in {"failed", "lost"} /\ GateRejects
  <2>1. /\ phase = "gate" /\ phase' = "settled" /\ active' = active /\ queue' = queue
        /\ \A s \in Task : outcome'[s] = IF s = active THEN "gate" ELSE outcome[s]
    BY <1>0, <1>2 DEF GateRejects, SettleAs
  <2>2. \A s \in Task : Fresh(s)' => Fresh(s)
    BY <2>1 DEF Fresh
  <2>3. QED
    BY <1>2, <2>1, <2>2 DEF Fresh
<1>3. ASSUME phase' = "settled", queue' = queue \/ queue' = << >>,
             \A s \in Task : outcome'[s] = outcome[s] \/ outcome'[s] \notin Refused \cup {"none"}
      PROVE  Goal
  BY <1>3 DEF Fresh, QueuedIn
<1>4. ASSUME NEW code \in {"terminal", "ingestion"}, Terminal(active, queue, outcome, code)
      PROVE  Goal
  BY <1>3, <1>4 DEF Terminal, Reject, Refused
<1>5. CASE Ingest
  <2>1. CASE Terminal(active, queue, outcome, "ingestion")
    BY <1>4, <2>1
  <2>2. CASE ~Terminal(active, queue, outcome, "ingestion")
    BY <1>0, <1>3, <1>5, <2>2 DEF Ingest, Refused
  <2>3. QED
    BY <2>1, <2>2
<1>6. CASE BarrierSettles
  BY <1>0, <1>3, <1>6 DEF BarrierSettles, SettleAs, Refused
<1>7. CASE Finish
  <2>1. CASE queue # << >> /\ Begin(queue, outcome)
    <3>1. WaitIn(queue, outcome)
      BY <1>0, <1>7 DEF Finish, WaitInv, WaitIn, Underway
    <3>2. /\ active' \in Task /\ QueuedIn(queue, active')
          /\ \A s \in Task : Fresh(s)' => outcome[s] = "none" \/ QueuedIn(queue, s)
          /\ \A s \in Task : outcome'[s] # outcome[s] => QueuedIn(queue, s)
      BY <1>0, <2>1, <3>1, BeginTrace DEF TypeOK
    <3>3. QED
      BY <3>2 DEF Fresh
  <2>2. CASE ~(queue # << >> /\ Begin(queue, outcome))
    <3>1. phase' = "idle" /\ UNCHANGED <<queue, outcome>>
      BY <1>7, <2>2 DEF Finish, ReleaseIfIdle
    <3>2. QED
      BY <3>1 DEF Fresh
  <2>3. QED
    BY <2>1, <2>2
<1>8. CASE verdict' = verdict /\ Dispose
  <2>1. /\ UNCHANGED <<phase, active>> /\ queue' = << >>
        /\ \A s \in Task : outcome'[s] = IF QueuedIn(queue, s) THEN "closed" ELSE outcome[s]
    BY <1>8 DEF Dispose, Reject
  <2>2. \A s \in Task : Fresh(s)' => Fresh(s)
    BY <1>8, <2>1 DEF Fresh, QueuedIn
  <2>3. QED
    BY <1>0, <2>1, <2>2 DEF Fresh
<1>9. CASE GatePasses /\ Terminal(active, queue, outcome, "terminal")
  BY <1>4, <1>9
<1>10. CASE verdict' = verdict /\ UNCHANGED vars
  BY <1>0, <1>10 DEF vars, Fresh
<1>11. QED
  BY <1>1, <1>2, <1>5, <1>6, <1>7, <1>8, <1>9, <1>10
LEMMA TraceStep ==
  ASSUME DurableInv, TraceInv, [PNext]_allvars
  PROVE  /\ TraceInv'
         /\ \A t \in Task : OnDisk(t)' /\ outcome'[t] \in Refused =>
              OnDisk(t) /\ (outcome[t] = outcome'[t] \/ verdict = "lost")
<1> DEFINE Told == \A t \in Task : OnDisk(t)' /\ outcome'[t] \in Refused =>
                     OnDisk(t) /\ (outcome[t] = outcome'[t] \/ verdict = "lost")
<1>0. /\ TypeOK /\ PTypeOK /\ ControlInv /\ WaitInv /\ StorageInv
      /\ phase \in Underway => active \in Task /\ outcome[active] = "pending" /\ ~QueuedIn(queue, active)
  BY NoTaskAssumption DEF DurableInv, ControlInv, TypeOK, WaitInv, Underway
<1>1. ASSUME mapLog' = mapLog, disk'.log = disk.log, verdict' \in {verdict, "none"},
             \/ verdict' = verdict /\ \E t \in Task, kind \in Kind : Submit(t, kind)
             \/ verdict \in {"failed", "lost"} /\ GateRejects
             \/ Ingest \/ BarrierSettles \/ Finish
             \/ verdict' = verdict /\ Dispose
             \/ GatePasses /\ Terminal(active, queue, outcome, "terminal")
             \/ verdict' = verdict /\ UNCHANGED vars
      PROVE  TraceInv' /\ Told
  <2>1. \A t \in Task : OnDisk(t)' <=> OnDisk(t)
    BY <1>1 DEF OnDisk
  <2>2. /\ \A t \in Task : Fresh(t)' => Fresh(t)
        /\ phase' = "gate" => (phase = "gate" /\ active' = active) \/ Fresh(active')
        /\ phase' = "gate" => active' \in Task
        /\ \A t \in Task : outcome'[t] \in Refused =>
             outcome'[t] = outcome[t] \/ Fresh(t) \/ (phase = "gate" /\ t = active /\ verdict = "lost")
    BY <1>1, AuthorityTrace
  <2>3. QED
    BY <1>1, <2>1, <2>2, TraceKeeps
<1>2. CASE \/ \E t \in Task, kind \in Kind : PSubmit(t, kind)
           \/ PGateRejects \/ PIngest \/ PFinish \/ PBarrierSettles
           \/ PGatePasses /\ Terminal(active, queue, outcome, "terminal")
  <2>1. mapLog' = mapLog
    BY <1>0, <1>2, AuthorityQuiet DEF StorageInv, PSubmit, Steps, PGateRejects, PIngest,
      PFinish, PBarrierSettles, PGatePasses
  <2>2. disk' = disk /\ verdict' \in {verdict, "none"}
    BY <1>2 DEF PSubmit, Steps, PGateRejects, PIngest, PFinish, PBarrierSettles, PGatePasses
  <2>3. \/ verdict' = verdict /\ \E t \in Task, kind \in Kind : Submit(t, kind)
        \/ verdict \in {"failed", "lost"} /\ GateRejects
        \/ Ingest \/ BarrierSettles \/ Finish
        \/ GatePasses /\ Terminal(active, queue, outcome, "terminal")
    BY <1>2 DEF PSubmit, Steps, PGateRejects, PIngest, PFinish, PBarrierSettles, PGatePasses
  <2>4. disk'.log = disk.log
    BY <2>2
  <2>5. CASE GatePasses /\ Terminal(active, queue, outcome, "terminal")
    BY <1>1, <2>1, <2>2, <2>4, <2>5
  <2>6. CASE verdict \in {"failed", "lost"} /\ GateRejects
    BY <1>1, <2>1, <2>2, <2>4, <2>6
  <2>7. CASE verdict' = verdict /\ \E t \in Task, kind \in Kind : Submit(t, kind)
    BY <1>1, <2>1, <2>2, <2>4, <2>7
  <2>8. CASE Ingest \/ BarrierSettles \/ Finish
    BY <1>1, <2>1, <2>2, <2>4, <2>8
  <2>9. QED
    BY <2>3, <2>5, <2>6, <2>7, <2>8
<1>3. CASE PGatePasses /\ ~Terminal(active, queue, outcome, "terminal")
  <2>1. /\ phase = "gate" /\ mapLog' = Append(mapLog, active) /\ phase' = "notify"
        /\ UNCHANGED <<queue, outcome, active, disk>>
    BY <1>3 DEF PGatePasses, Steps, GatePasses, Accept
  <2>2. active \in Task /\ outcome[active] = "pending" /\ ~QueuedIn(queue, active)
    BY <1>0, <2>1 DEF Underway
  <2>3. \A t \in Task : Installed(t)' => Installed(t) \/ t = active
    BY <1>0, <2>1, <2>2 DEF Installed, TypeOK
  <2>4. \A t \in Task : Fresh(t)' => Fresh(t) /\ t # active
    BY <2>1, <2>2 DEF Fresh
  <2>5. \A t \in Task : OnDisk(t)' <=> OnDisk(t)
    BY <2>1 DEF OnDisk
  <2>6. TraceInv'
    BY <2>1, <2>2, <2>3, <2>4, <2>5 DEF TraceInv, Refused
  <2>7. Told
    BY <2>1, <2>5
  <2>8. QED
    BY <2>6, <2>7
<1>4. CASE AdapterAppends
  <2>1. phase = "gate" /\ verdict = "none" /\ UNCHANGED vars
    BY <1>4 DEF AdapterAppends
  <2>2. \A t \in Task : Fresh(t)' => Fresh(t)
    BY <2>1 DEF Fresh, vars
  <2>3. CASE Continues /\ Store /\ verdict' \in {"ok", "lost"}
    <3>1. disk'.log = Append(disk.log, active) /\ disk.log \in Seq(Task) /\ active \in Task
      BY <1>0, <2>1, <2>3, StoreGrows DEF PTypeOK
    <3>2. \A t \in Task : OnDisk(t)' <=> OnDisk(t) \/ t = active
      BY <3>1, AppendedTo DEF OnDisk
    <3>3. \A t \in Task : Fresh(t)' => t # active
      BY <1>0, <2>1, <2>3 DEF Fresh, vars, Underway
    <3>4. QED
      BY <2>1, <2>2, <3>1, <3>2, <3>3, TraceKeeps DEF vars
  <2>4. CASE UNCHANGED disk
    <3>1. \A t \in Task : OnDisk(t)' <=> OnDisk(t)
      BY <2>4 DEF OnDisk
    <3>2. QED
      BY <1>0, <2>1, <2>2, <2>4, <3>1, TraceKeeps DEF vars, Underway
  <2>5. QED
    BY <1>4, <2>3, <2>4 DEF AdapterAppends
<1>5. ASSUME disk' = Trimmed(mapLog), mapLog' = mapLog, phase' # "gate",
             \A t \in Task : Fresh(t)' => Fresh(t),
             \A t \in Task : outcome'[t] \in Refused => outcome'[t] = outcome[t]
      PROVE  TraceInv' /\ Told
  <2>1. /\ Len(mapLog) \in Nat /\ Len(disk.log) \in Nat /\ Len(mapLog) <= Len(disk.log)
        /\ Len(disk'.log) = Len(disk.log)
        /\ \A i \in 1..Len(disk.log) :
             disk'.log[i] = IF i <= Len(mapLog) THEN mapLog[i] ELSE disk.log[i]
    BY <1>0, <1>5, TrimmedLog DEF StorageInv, Ahead, PTypeOK, TypeOK
  <2>2. \A t \in Task : OnDisk(t)' => OnDisk(t) \/ Installed(t)
    BY <2>1 DEF OnDisk, Installed
  <2>3. \A t \in Task : Installed(t) => OnDisk(t)'
    <3>1. ASSUME NEW t \in Task, NEW i \in 1..Len(mapLog), mapLog[i] = t PROVE OnDisk(t)'
      <4>1. i \in 1..Len(disk'.log) /\ disk'.log[i] = t
        BY <2>1, <3>1
      <4>2. QED
        BY <4>1 DEF OnDisk
    <3>2. QED
      BY <3>1 DEF Installed
  <2>4. QED
    BY <1>5, <2>2, <2>3, TraceKeeps
<1>6. CASE AdapterCheckpoints
  <2>1. phase = "barrier" /\ UNCHANGED vars /\ (disk' = Trimmed(mapLog) \/ disk' = disk)
    BY <1>6 DEF AdapterCheckpoints
  <2>2. \A t \in Task : Fresh(t)' => Fresh(t)
    BY <2>1 DEF Fresh, vars
  <2>3. CASE disk' = Trimmed(mapLog)
    BY <1>5, <2>1, <2>2, <2>3 DEF vars
  <2>4. CASE disk' = disk
    <3>1. \A t \in Task : OnDisk(t)' <=> OnDisk(t)
      BY <2>4 DEF OnDisk
    <3>2. QED
      BY <2>1, <2>2, <2>4, <3>1, TraceKeeps DEF vars
  <2>5. QED
    BY <2>1, <2>3, <2>4
<1>7. CASE InitialCheckpoint \/ Unload \/ Unloaded
  <2>1. /\ Dispose \/ UNCHANGED vars
        /\ disk' = disk \/ disk' = [disk EXCEPT !.exists = TRUE]
        /\ verdict' = verdict
    BY <1>7 DEF InitialCheckpoint, Unload, Unloaded
  <2>2. disk'.log = disk.log /\ mapLog' = mapLog
    BY <1>0, <2>1 DEF PTypeOK, Dispose, vars
  <2>3. QED
    BY <1>1, <2>1, <2>2
<1>8. CASE Crash
  <2>1. /\ mapLog' = mapLog /\ phase' = "idle" /\ queue' = << >>
        /\ outcome' = [t \in Task |-> IF outcome[t] = "pending" THEN "lost" ELSE outcome[t]]
    BY <1>8 DEF Crash
  <2>2. /\ \A t \in Task : Fresh(t)' => outcome[t] = "none"
        /\ \A t \in Task : outcome'[t] \in Refused => outcome'[t] = outcome[t]
    BY <2>1 DEF Fresh, QueuedIn, Refused
  <2>3. \A t \in Task : Fresh(t)' => Fresh(t)
    BY <2>2 DEF Fresh
  <2>4. CASE disk' = disk \/ disk' = [disk EXCEPT !.exists = TRUE]
    <3>1. disk'.log = disk.log
      BY <1>0, <2>4 DEF PTypeOK
    <3>2. \A t \in Task : OnDisk(t)' <=> OnDisk(t)
      BY <3>1 DEF OnDisk
    <3>3. QED
      BY <2>1, <2>2, <2>3, <3>2, TraceKeeps
  <2>5. CASE phase = "gate" /\ Continues /\ Store
    <3>1. disk'.log = Append(disk.log, active) /\ disk.log \in Seq(Task) /\ active \in Task
      BY <1>0, <2>5, StoreGrows DEF PTypeOK
    <3>2. \A t \in Task : OnDisk(t)' <=> OnDisk(t) \/ t = active
      BY <3>1, AppendedTo DEF OnDisk
    <3>3. \A t \in Task : Fresh(t)' => t # active
      BY <1>0, <2>2, <2>5 DEF Underway
    <3>4. QED
      BY <2>1, <2>2, <2>3, <2>5, <3>2, <3>3, TraceKeeps
  <2>6. CASE disk' = Trimmed(mapLog)
    BY <1>5, <2>1, <2>2, <2>3, <2>6
  <2>7. QED
    BY <1>8, <2>4, <2>5, <2>6 DEF Crash
<1>9. CASE Restore
  <2>1. mapLog' = disk.log /\ UNCHANGED <<queue, active, phase, outcome, disk, verdict>>
    BY <1>9 DEF Restore
  <2>2. phase = "idle"
    BY <1>0, <1>9 DEF Restore, StorageInv, ControlInv, LifecycleInv, TypeOK
  <2>3. \A t \in Task : (Installed(t)' <=> OnDisk(t)) /\ (OnDisk(t)' <=> OnDisk(t)) /\ (Fresh(t)' <=> Fresh(t))
    BY <2>1 DEF Installed, OnDisk, Fresh
  <2>4. TraceInv'
    BY <2>1, <2>2, <2>3 DEF TraceInv
  <2>5. Told
    BY <2>1, <2>3
  <2>6. QED
    BY <2>4, <2>5
<1>10. CASE UNCHANGED allvars
  BY <1>1, <1>10 DEF allvars, pvars, vars
<1>11. QED
  BY <1>2, <1>3, <1>4, <1>6, <1>7, <1>8, <1>9, <1>10 DEF PNext, PCall, PContinue, Adapter, Lifecycle

\* A call told of a failed preparation, a failed append or a closing host is
\* never put on disk afterwards, and is there only where the adapter stored it
\* and reported a failure (make_persistence_gate, run_mutation, dispose).
THEOREM RefusedStaysOut == PSpec => RejectedNeverDurable
<1> DEFINE Told == \A t \in Task : OnDisk(t)' /\ outcome'[t] \in {"prepare", "gate", "closed"} =>
                     OnDisk(t) /\ (outcome[t] = outcome'[t] \/ verdict = "lost")
<1>1. PInit => TraceInv
  BY DEF PInit, Init, TraceInv, Fresh, Installed, OnDisk, QueuedIn, Refused
<1>2. DurableInv /\ TraceInv /\ [PNext]_allvars => TraceInv' /\ [Told]_allvars
  BY TraceStep DEF Refused
<1>3. QED
  BY <1>1, <1>2, DurableInvariant, PTL DEF PSpec, RejectedNeverDurable

-----------------------------------------------------------------------------
(* The host implements the durable log.                                     *)

\* A restart shows the whole of the disk's log, of which the map was a prefix.
LEMMA PrefixItself == \A S : \A s \in Seq(S) : IsPrefixOf(s, s)
<1> SUFFICES ASSUME NEW S, NEW s \in Seq(S) PROVE IsPrefixOf(s, s)
  OBVIOUS
<1>1. Len(s) \in Nat /\ SubSeq(s, 1, Len(s)) = s
  BY SubSeqFull
<1>2. QED
  BY <1>1 DEF IsPrefixOf

LEMMA SamePrefix == \A s, t : D!IsPrefixOf(s, t) <=> IsPrefixOf(s, t)
  BY DEF D!IsPrefixOf, IsPrefixOf

LEMMA LogStep ==
  ASSUME DurableInv, DurableInv', [PNext]_allvars
  PROVE  [D!Next]_<<Edits(disk.log), Edits(mapLog)>>
<1>0. /\ TypeOK /\ PTypeOK /\ ControlInv /\ StorageInv /\ mapLog \in Seq(Task)
      /\ disk.log \in Seq(Task) /\ mapLog' \in Seq(Task) /\ disk'.log \in Seq(Task)
      /\ Len(mapLog) \in Nat /\ Len(disk.log) \in Nat
      /\ IsPrefixOf(Edits(mapLog), Edits(disk.log))
  BY DurablePrefix DEF DurableInv, PTypeOK, TypeOK
<1>1. ASSUME Edits(mapLog)' = Edits(mapLog), Edits(disk.log)' = Edits(disk.log)
      PROVE  [D!Next]_<<Edits(disk.log), Edits(mapLog)>>
  BY <1>1
<1>2. ASSUME mapLog' = mapLog, phase = "gate", Continues, Store PROVE D!Append1
  <2>1. disk'.log = Append(disk.log, active) /\ active \in Task
    BY <1>2, StoreGrows
  <2>2. Edits(disk'.log) = Append(Edits(disk.log), Edit[active])
    BY <1>0, <2>1, EditsAppend
  <2>3. Edits(disk.log)' = Append(Edits(disk.log), Edit[active]) /\ Edits(mapLog)' = Edits(mapLog)
    BY <1>2, <2>2 DEF Edits
  <2>4. QED
    BY <2>1, <2>3 DEF D!Append1
<1>3. ASSUME disk' = Trimmed(mapLog), mapLog' = mapLog
      PROVE  Edits(mapLog)' = Edits(mapLog) /\ Edits(disk.log)' = Edits(disk.log)
  <2>1. Ahead(disk.log, disk'.log) /\ Len(disk'.log) = Len(disk.log)
    BY <1>3, TrimKeeps
  <2>2. Edits(disk.log) = Edits(disk'.log)
    BY <1>0, <2>1, EditsEqual
  <2>3. QED
    BY <1>3, <2>2 DEF Edits
<1>4. ASSUME disk'.log = disk.log, mapLog' = mapLog
      PROVE  Edits(mapLog)' = Edits(mapLog) /\ Edits(disk.log)' = Edits(disk.log)
  BY <1>4 DEF Edits
<1>5. ASSUME disk'.log = disk.log, Ahead(mapLog, mapLog'), Ahead(mapLog', disk.log) PROVE D!Reveal
  <2>1. IsPrefixOf(Edits(mapLog), Edits(mapLog')) /\ IsPrefixOf(Edits(mapLog'), Edits(disk.log))
    BY <1>0, <1>5, PrefixIsAhead
  <2>2. Edits(mapLog)' = Edits(mapLog') /\ Edits(disk.log)' = Edits(disk.log)
    BY <1>5 DEF Edits
  <2>3. QED
    BY <2>1, <2>2, SamePrefix DEF D!Reveal
<1>6. CASE \/ \E t \in Task, kind \in Kind : PSubmit(t, kind)
           \/ PGateRejects \/ PIngest \/ PFinish \/ PBarrierSettles
           \/ PGatePasses /\ Terminal(active, queue, outcome, "terminal")
  <2>1. mapLog' = mapLog /\ disk' = disk
    BY <1>0, <1>6, AuthorityQuiet DEF StorageInv, PSubmit, Steps, PGateRejects, PIngest,
      PFinish, PBarrierSettles, PGatePasses
  <2>2. QED
    BY <1>1, <1>4, <2>1
<1>7. CASE PGatePasses /\ ~Terminal(active, queue, outcome, "terminal")
  <2>1. mapLog' = Append(mapLog, active) /\ disk' = disk /\ phase = "gate"
    BY <1>7 DEF PGatePasses, Steps, GatePasses, Accept
  <2>2. active \in Task
    BY <1>0, <2>1, NoTaskAssumption DEF TypeOK
  <2>3. Ahead(mapLog, mapLog')
    BY <1>0, <2>1, <2>2 DEF Ahead
  <2>4. Ahead(mapLog', disk.log)
    BY <2>1 DEF DurableInv, StorageInv
  <2>5. QED
    BY <1>5, <2>1, <2>3, <2>4 DEF D!Next
<1>8. CASE AdapterAppends
  <2>1. phase = "gate" /\ mapLog' = mapLog /\ ((Continues /\ Store) \/ disk' = disk)
    BY <1>8 DEF AdapterAppends, vars
  <2>2. QED
    BY <1>1, <1>2, <1>4, <2>1 DEF D!Next
<1>9. CASE AdapterCheckpoints
  <2>1. mapLog' = mapLog /\ (disk' = Trimmed(mapLog) \/ disk' = disk)
    BY <1>9 DEF AdapterCheckpoints, vars
  <2>2. QED
    BY <1>1, <1>3, <1>4, <2>1
<1>10. CASE InitialCheckpoint \/ Unload \/ Unloaded
  <2>1. mapLog' = mapLog /\ (disk' = disk \/ disk' = [disk EXCEPT !.exists = TRUE])
    BY <1>10 DEF InitialCheckpoint, Unload, Unloaded, Dispose, vars
  <2>2. disk'.log = disk.log
    BY <1>0, <2>1 DEF PTypeOK
  <2>3. QED
    BY <1>1, <1>4, <2>1, <2>2
<1>11. CASE Crash
  <2>1. mapLog' = mapLog
    BY <1>11 DEF Crash
  <2>2. CASE disk' = disk \/ disk' = [disk EXCEPT !.exists = TRUE]
    <3>1. disk'.log = disk.log
      BY <1>0, <2>2 DEF PTypeOK
    <3>2. QED
      BY <1>1, <1>4, <2>1, <3>1
  <2>3. CASE phase = "gate" /\ Continues /\ Store
    BY <1>2, <2>1, <2>3 DEF D!Next
  <2>4. CASE disk' = Trimmed(mapLog)
    BY <1>1, <1>3, <2>1, <2>4
  <2>5. QED
    BY <1>11, <2>2, <2>3, <2>4 DEF Crash
<1>12. CASE Restore
  <2>1. mapLog' = disk.log /\ disk' = disk
    BY <1>12 DEF Restore
  <2>2. Ahead(mapLog, mapLog') /\ Ahead(mapLog', disk.log)
    BY <1>0, <2>1 DEF StorageInv, Ahead
  <2>3. QED
    BY <1>5, <2>1, <2>2 DEF D!Next
<1>13. CASE UNCHANGED allvars
  BY <1>1, <1>4, <1>13 DEF allvars, pvars, vars
<1>14. QED
  BY <1>6, <1>7, <1>8, <1>9, <1>10, <1>11, <1>12, <1>13
     DEF PNext, PCall, PContinue, Adapter, Lifecycle

\* No crash, unload or reload makes the map forget or reorder a commit it
\* showed: the host refines the durable log, the disk's edits standing for the
\* log and the map's for what is visible.
THEOREM HostIsDurableLog == PSpec => ImplementsDurableLog
<1>1. PInit => D!Init
  <2> SUFFICES ASSUME PInit PROVE D!Init
    OBVIOUS
  <2>1. mapLog = << >> /\ disk.log = << >>
    BY DEF PInit, Init
  <2>2. Edits(<< >>) = << >>
    <3>1. /\ Edits(<< >>) \in Seq(Commits) /\ Len(Edits(<< >>)) = 0
      BY EditsSequence, EmptyQueue
    <3>2. QED
      BY <3>1, EmptySeq
  <2>3. QED
    BY <2>1, <2>2 DEF D!Init
<1>2. DurableInv /\ DurableInv' /\ [PNext]_allvars => [D!Next]_<<Edits(disk.log), Edits(mapLog)>>
  BY LogStep
<1>3. QED
  BY <1>1, <1>2, DurableInvariant, PTL DEF PSpec, ImplementsDurableLog, D!Spec
=============================================================================
