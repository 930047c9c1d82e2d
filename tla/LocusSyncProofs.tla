--------------------------- MODULE LocusSyncProofs ---------------------------
(***************************************************************************)
(* SyncIsSafe, for any map, paths, numbers of commits, requests and losses *)
(* of the transport: a client that is told it has caught up has the state  *)
(* of its cursor, and what was synced is shown.                            *)
(*                                                                         *)
(* The messages on their way are placed on the log.  Up to the boundary of *)
(* the channel (its "caught-up") they belong to older recoveries or to the *)
(* replay; after it every commit sends a message, so each value that is    *)
(* synced is the one the map had after a commit that is known (Line).  A   *)
(* mirror at the boundary is moved by nothing but the next commit.  What   *)
(* is still to be shown is in a message, in the boundary or in the mirror, *)
(* and nothing behind it says otherwise (ShownNow, ShownLater).            *)
(***************************************************************************)
EXTENDS MCLocus, LocusSessionsProofs, SequenceTheorems

Values == SyncVal \cup {NoValue}
Maps == [SyncKey -> Values]
Entries == [key : SyncKey, prev : Values, next : Values]
Paths == SyncPath \cup {RootPath}

Told == {"sync", "hello"}
Replayed == {"plan", "body", "snapshot", "caught-up"}

Requests == [type : {"attach", "hello", "subscribe", "unsubscribe", "recover"},
             id : Nat, path : Paths, from : Nat]
Replies == [type : Told \cup Replayed \cup {"live"}, id : Nat, at : Nat \cup Paths,
            body : Maps \cup Values \cup Entries \cup {"none"}]

\* The map after the first n commits, with the log and the map as parameters.
Touching(lg, k, n) == {i \in 1..n : lg[i].key = k}
Before(lg, st) ==
  [k \in SyncKey |-> IF Touching(lg, k, Len(lg)) = {} THEN st[k]
                     ELSE lg[Min(Touching(lg, k, Len(lg)))].prev]
Past(lg, st, n) ==
  [k \in SyncKey |-> IF Touching(lg, k, n) = {} THEN Before(lg, st)[k]
                     ELSE lg[Max(Touching(lg, k, n))].next]

\* The log leads to the map, one commit after the other.
LogInv(lg, st) ==
  /\ \A k \in SyncKey, n \in 0..Len(lg) : Touching(lg, k, n) # {} =>
       /\ \E m \in Touching(lg, k, n) : \A i \in Touching(lg, k, n) : m <= i
       /\ \E m \in Touching(lg, k, n) : \A i \in Touching(lg, k, n) : m >= i
  /\ Past(lg, st, Len(lg)) = st
  /\ \A n \in 1..Len(lg) :
       /\ lg[n].prev = Past(lg, st, n - 1)[lg[n].key]
       /\ Past(lg, st, n) = [Past(lg, st, n - 1) EXCEPT ![lg[n].key] = lg[n].next]

SyncTypes ==
  /\ store \in Maps /\ log \in Seq(Entries) /\ Len(log) <= MaxCommits
  /\ paths \in Seq(Paths) /\ requests \in Seq(Requests) /\ replies \in Seq(Replies)
  /\ sending \in BOOLEAN /\ listens \in BOOLEAN
  /\ channel \in Nat /\ asks \in Nat /\ asking \in Nat /\ channel <= asks /\ asks <= asking
  /\ recovery \in {"disconnected", "idle", "awaiting", "consuming", "caught-up", "failed"}
  /\ copy \in Maps /\ copyRev \in Nat /\ cursor \in 0..Len(log) \cup {NoCursor}
  /\ owed \subseteq SyncKey

\* A message to the client says what the log or the map had.
IsReply(m, lg, st, ch) ==
  /\ m.type \in Told => m.at \in Paths /\ IF m.at = RootPath THEN m.body \in Maps ELSE m.body \in Values
  /\ m.type \notin Told => m.id \in 1..ch
  /\ m.type \in {"body", "live"} => m.at \in 1..Len(lg) /\ m.body = lg[m.at]
  /\ m.type \in {"plan", "snapshot", "caught-up"} => m.at \in 0..Len(lg)
  /\ m.type = "snapshot" => m.body = Past(lg, st, m.at)

AreReplies(q, lg, st, ch) == \A i \in 1..Len(q) : IsReply(q[i], lg, st, ch)

\* Requests arrive in order, and no recovery before what attaches its transport.
RequestInv ==
  /\ \A i \in 1..Len(requests) : requests[i].id \in 1..asking
  /\ \A i \in 1..Len(requests) : requests[i].type = "recover" =>
       requests[i].id > channel /\ requests[i].id <= asks /\ requests[i].from \in 0..Len(log) \cup {NoCursor}
  /\ \A i, j \in 1..Len(requests) : i < j => requests[i].id < requests[j].id
  /\ ~sending => channel = 0 /\ owed = SyncKey
  /\ ~sending /\ ~listens => requests = <<>>
  /\ ~sending /\ listens => requests # <<>> /\ requests[1].type \in {"attach", "hello"}

\* A mirror whose revision is its cursor is the state of its cursor.
PeerInv ==
  /\ cursor # NoCursor => copyRev >= cursor
  /\ cursor # NoCursor /\ copyRev = cursor => copy = Past(log, store, cursor)
  /\ recovery \in {"awaiting", "consuming", "caught-up"} => listens /\ asks > 0
  /\ recovery \in {"consuming", "caught-up"} => channel = asks

SaidOf(m, k) == IF m.at = RootPath THEN m.body[k] ELSE m.body
Tells(m, k) == m.type \in Told /\ k \in Covered(m.at)
Agrees(m, map) == \A k \in SyncKey : Tells(m, k) => SaidOf(m, k) = map[k]
IsBoundary(m, ch) == m.type = "caught-up" /\ m.id = ch

\* The messages q of channel ch lie on the log: b is the place of the boundary,
\* or 0 once it was received, and message i was sent at commit f[i].
Line(q, ch, lg, st, b, f) ==
  /\ f[Len(q)] = Len(lg)
  /\ \A i \in 1..Len(q) : IsBoundary(q[i], ch) <=> i = b
  /\ \A i \in 1..b : q[i].type = "live" => q[i].id # ch
  /\ b > 0 => q[b].at = f[b]
  /\ \A i \in b+1..Len(q) :
       /\ q[i].type \notin Replayed
       /\ q[i].type = "live" => q[i].id = ch /\ q[i].at = f[i] /\ f[i] = f[i - 1] + 1
       /\ q[i].type # "live" => f[i] = f[i - 1] /\ Agrees(q[i], Past(lg, st, f[i]))

\* Where the client is on the line.
Meets(q, ch, rec, ask, cur, rev, b, f) ==
  /\ rec = "awaiting" /\ ask = ch => \E p \in 1..b : q[p].type = "plan" /\ q[p].id = ch
  /\ rec = "consuming" => b > 0
  /\ rec = "caught-up" => b = 0 /\ cur = f[0] /\ rev = cur

Follows(q, ch, lg, st, rec, ask, cur, rev) ==
  \E b \in 0..Len(q) : \E f \in [0..Len(q) -> 0..Len(lg)] :
    Line(q, ch, lg, st, b, f) /\ Meets(q, ch, rec, ask, cur, rev, b, f)

FollowInv == channel # 0 => Follows(replies, channel, log, store, recovery, asks, cursor, copyRev)

\* After place a nothing on its way says anything of k but v.
Stays(q, k, a, v) == \A i \in a+1..Len(q) :
  /\ Tells(q[i], k) => SaidOf(q[i], k) = v
  /\ q[i].type = "live" => q[i].body.key # k

\* The mirror has v for k, or a message on its way does.
ShownNow(q, cp, k, v) == \E a \in 0..Len(q) :
  /\ a = 0 => cp[k] = v
  /\ a # 0 => Tells(q[a], k) /\ SaidOf(q[a], k) = v
  /\ Stays(q, k, a, v)

\* The state of the boundary has v for k, or a message behind it does.
ShownLater(q, ch, lg, st, k, v) == \E b \in 1..Len(q) : \E a \in b..Len(q) :
  /\ IsBoundary(q[b], ch)
  /\ a = b => Past(lg, st, q[b].at)[k] = v
  /\ a # b => Tells(q[a], k) /\ SaidOf(q[a], k) = v
  /\ Stays(q, k, a, v)

Replaying == channel = asks /\ recovery \in {"awaiting", "consuming"}

ShownInv == listens => \A k \in SyncKey \ owed :
  /\ Replaying => ShownLater(replies, channel, log, store, k, store[k])
  /\ ~Replaying => ShownNow(replies, copy, k, store[k])

SyncInv ==
  /\ SyncTypes /\ LogInv(log, store) /\ AreReplies(replies, log, store, channel)
  /\ RequestInv /\ PeerInv /\ FollowInv /\ ShownInv

-----------------------------------------------------------------------------
(* The log *)

\* The least and the greatest of a set that has them.
LEMMA MinIs ==
  ASSUME NEW S \in SUBSET Nat, NEW m \in S, \A i \in S : m <= i
  PROVE  Min(S) = m
<1>1. \A n \in S : (\A i \in S : n <= i) => n = m
  OBVIOUS
<1>. QED
  BY <1>1 DEF Min

LEMMA MaxIs ==
  ASSUME NEW S \in SUBSET Nat, NEW m \in S, \A i \in S : m >= i
  PROVE  Max(S) = m
<1>1. \A n \in S : (\A i \in S : n >= i) => n = m
  OBVIOUS
<1>. QED
  BY <1>1 DEF Max

LEMMA StateIsPast ==
  ASSUME NEW n, log \in Seq(Entries)
  PROVE  StateAt(First, n) = Past(log, store, n)
<1>1. DOMAIN log = 1..Len(log)
  OBVIOUS
<1>. QED
  BY <1>1 DEF StateAt, First, Past, Before, Touching

LEMMA EmptyLog ==
  ASSUME NEW st \in Maps
  PROVE  LogInv(<<>>, st)
<1>1. \A k : Touching(<<>>, k, 0) = {}
  BY DEF Touching
<1>2. Len(<<>>) = 0
  OBVIOUS
<1>3. Past(<<>>, st, 0) = st
  BY <1>1, <1>2 DEF Past, Before, Maps
<1>. QED
  BY <1>1, <1>2, <1>3 DEF LogInv

\* Past values stay what they were when a commit is added, and lead to the new map.
LEMMA GrowingLog ==
  ASSUME NEW lg \in Seq(Entries), NEW st \in Maps, LogInv(lg, st),
         NEW c \in SyncKey, NEW v \in Values,
         NEW e \in Entries, e.key = c, e.prev = st[c], e.next = v,
         NEW lg2 \in Seq(Entries), Len(lg2) = Len(lg) + 1, lg2[Len(lg) + 1] = e,
         \A i \in 1..Len(lg) : lg2[i] = lg[i],
         NEW st2 \in Maps, st2[c] = v, \A k \in SyncKey \ {c} : st2[k] = st[k]
  PROVE  /\ LogInv(lg2, st2)
         /\ \A n \in 0..Len(lg) : Past(lg2, st2, n) = Past(lg, st, n)
<1>1. /\ lg2 \in Seq(Entries) /\ Len(lg2) = Len(lg) + 1 /\ lg2[Len(lg) + 1] = e
      /\ \A i \in 1..Len(lg) : lg2[i] = lg[i]
  OBVIOUS
<1>2. st2 \in Maps /\ Len(lg) \in Nat
  OBVIOUS
<1>11. \A n \in 0..Len(lg2) : n \in 0..Len(lg) \/ n = Len(lg2)
  <2>1. Len(lg2) = Len(lg) + 1
    BY <1>1
  <2>. QED
    BY <1>2, <2>1
<1>12. \A n \in 1..Len(lg2) : n \in 1..Len(lg) \/ n = Len(lg) + 1
  <2>1. Len(lg2) = Len(lg) + 1
    BY <1>1
  <2>. QED
    BY <1>2, <2>1
<1>3. \A k \in SyncKey, n \in 0..Len(lg) : Touching(lg2, k, n) = Touching(lg, k, n)
  BY <1>1, <1>2 DEF Touching
<1>4. \A k \in SyncKey, n \in 0..Len(lg2) :
        /\ Touching(lg2, k, n) \in SUBSET (1..n)
        /\ Touching(lg, k, n) \in SUBSET (1..n)
  BY DEF Touching
<1>5. \A k \in SyncKey : Touching(lg2, k, Len(lg2)) =
        IF k = c THEN Touching(lg, k, Len(lg)) \cup {Len(lg2)} ELSE Touching(lg, k, Len(lg))
  BY <1>1, <1>2 DEF Touching
<1>6. \A k \in SyncKey, n \in 0..Len(lg2) : Touching(lg2, k, n) # {} =>
        /\ \E m \in Touching(lg2, k, n) : \A i \in Touching(lg2, k, n) : m <= i
        /\ \E m \in Touching(lg2, k, n) : \A i \in Touching(lg2, k, n) : m >= i
  <2>. SUFFICES ASSUME NEW k \in SyncKey, NEW n \in 0..Len(lg2), Touching(lg2, k, n) # {}
                PROVE  /\ \E m \in Touching(lg2, k, n) : \A i \in Touching(lg2, k, n) : m <= i
                       /\ \E m \in Touching(lg2, k, n) : \A i \in Touching(lg2, k, n) : m >= i
    OBVIOUS
  <2>1. CASE n \in 0..Len(lg)
    BY <1>3, <2>1 DEF LogInv
  <2>2. CASE n = Len(lg2) /\ k # c
    <3>1. Touching(lg2, k, n) = Touching(lg, k, Len(lg))
      BY <1>5, <2>2
    <3>2. Len(lg) \in 0..Len(lg)
      BY <1>2
    <3>. QED
      BY <2>2, <3>1, <3>2 DEF LogInv
  <2>3. CASE n = Len(lg2) /\ k = c
    <3>1. Touching(lg2, k, n) = Touching(lg, k, Len(lg)) \cup {Len(lg2)}
      BY <1>5, <2>3
    <3>2. Touching(lg, k, Len(lg)) \in SUBSET (1..Len(lg))
      BY DEF Touching
    <3>3. CASE Touching(lg, k, Len(lg)) = {}
      <4>1. Touching(lg2, k, n) = {Len(lg2)}
        BY <3>1, <3>3
      <4>. QED
        BY <1>1, <1>2, <4>1
    <3>4. CASE Touching(lg, k, Len(lg)) # {}
      <4>1. PICK m \in Touching(lg, k, Len(lg)) : \A i \in Touching(lg, k, Len(lg)) : m <= i
        BY <1>2, <3>4 DEF LogInv
      <4>. QED
        BY <1>1, <1>2, <3>1, <3>2, <4>1
    <3>. QED
      BY <3>3, <3>4
  <2>. QED
    BY <1>11, <2>1, <2>2, <2>3
<1>7. Before(lg2, st2) = Before(lg, st)
  <2>. SUFFICES ASSUME NEW k \in SyncKey PROVE Before(lg2, st2)[k] = Before(lg, st)[k]
    BY DEF Before
  <2>. DEFINE T == Touching(lg, k, Len(lg))
              T2 == Touching(lg2, k, Len(lg2))
  <2>1. /\ Before(lg, st)[k] = IF T = {} THEN st[k] ELSE lg[Min(T)].prev
        /\ Before(lg2, st2)[k] = IF T2 = {} THEN st2[k] ELSE lg2[Min(T2)].prev
    BY DEF Before
  <2>2. T \in SUBSET (1..Len(lg)) /\ T2 = IF k = c THEN T \cup {Len(lg2)} ELSE T
    BY <1>5 DEF Touching
  <2>3. T # {} => \E m \in T : \A i \in T : m <= i
    BY <1>2 DEF LogInv
  <2>. HIDE DEF T, T2
  <2>4. CASE T = {} /\ k # c
    BY <2>1, <2>2, <2>4 DEF Maps
  <2>5. CASE T = {} /\ k = c
    <3>1. T2 = {Len(lg2)} /\ T2 \in SUBSET Nat /\ Len(lg2) \in T2 /\ \A i \in T2 : Len(lg2) <= i
      <4>1. Len(lg2) \in Nat
        BY <1>1, <1>2
      <4>2. T2 = {Len(lg2)}
        BY <2>2, <2>5
      <4>. QED
        BY <4>1, <4>2
    <3>2. Min(T2) = Len(lg2)
      BY <3>1, MinIs
    <3>3. Before(lg2, st2)[k] = lg2[Len(lg2)].prev
      BY <2>1, <3>1, <3>2
    <3>4. Before(lg, st)[k] = st[k]
      BY <2>1, <2>5
    <3>5. lg2[Len(lg2)] = e
      BY <1>1
    <3>6. e.prev = st[k]
      BY <2>5
    <3>. QED
      BY <3>3, <3>4, <3>5, <3>6
  <2>6. CASE T # {}
    <3>1. PICK m \in T : \A i \in T : m <= i
      BY <2>3, <2>6
    <3>2. m \in T2 /\ T \in SUBSET Nat /\ T2 \in SUBSET Nat /\ \A i \in T2 : m <= i
      <4>1. Len(lg2) \in Nat /\ m \in Nat /\ m <= Len(lg2)
        BY <1>1, <1>2, <2>2, <3>1
      <4>2. T \in SUBSET Nat /\ m \in T2 /\ T2 \in SUBSET (T \cup {Len(lg2)})
        BY <2>2, <3>1
      <4>. QED
        BY <3>1, <4>1, <4>2
    <3>3. Min(T) = m
      <4>1. T \in SUBSET Nat
        BY <3>2
      <4>. QED
        BY <3>1, <4>1, MinIs
    <3>4. Min(T2) = m
      <4>1. T2 \in SUBSET Nat /\ m \in T2
        BY <3>2
      <4>2. \A i \in T2 : m <= i
        BY <3>2
      <4>. QED
        BY <4>1, <4>2, MinIs
    <3>5. lg2[m] = lg[m]
      BY <1>1, <2>2, <3>1
    <3>. QED
      BY <2>1, <2>6, <3>1, <3>2, <3>3, <3>4, <3>5
  <2>. QED
    BY <2>4, <2>5, <2>6
<1>8. \A n \in 0..Len(lg) : Past(lg2, st2, n) = Past(lg, st, n)
  <2>. SUFFICES ASSUME NEW n \in 0..Len(lg), NEW k \in SyncKey PROVE Past(lg2, st2, n)[k] = Past(lg, st, n)[k]
    BY DEF Past
  <2>. DEFINE T == Touching(lg, k, n)
  <2>1. /\ Past(lg, st, n)[k] = IF T = {} THEN Before(lg, st)[k] ELSE lg[Max(T)].next
        /\ Past(lg2, st2, n)[k] = IF T = {} THEN Before(lg2, st2)[k] ELSE lg2[Max(T)].next
    BY <1>3 DEF Past
  <2>2. T \in SUBSET (1..n) /\ (T # {} => \E m \in T : \A i \in T : m >= i)
    BY <1>2 DEF LogInv, Touching
  <2>. HIDE DEF T
  <2>3. CASE T = {}
    BY <1>7, <2>1, <2>3
  <2>4. CASE T # {}
    <3>1. PICK m \in T : \A i \in T : m >= i
      BY <2>2, <2>4
    <3>2. Max(T) = m
      BY <1>2, <2>2, <3>1, MaxIs
    <3>3. lg2[m] = lg[m]
      BY <1>1, <1>2, <2>2, <3>1
    <3>. QED
      BY <2>1, <2>4, <3>2, <3>3
  <2>. QED
    BY <2>3, <2>4
<1>9. Past(lg2, st2, Len(lg2)) = st2
  <2>. SUFFICES ASSUME NEW k \in SyncKey PROVE Past(lg2, st2, Len(lg2))[k] = st2[k]
    BY DEF Past, Maps
  <2>. DEFINE T == Touching(lg, k, Len(lg))
              T2 == Touching(lg2, k, Len(lg2))
  <2>1. /\ Past(lg, st, Len(lg))[k] = IF T = {} THEN Before(lg, st)[k] ELSE lg[Max(T)].next
        /\ Past(lg2, st2, Len(lg2))[k] = IF T2 = {} THEN Before(lg2, st2)[k] ELSE lg2[Max(T2)].next
    BY DEF Past
  <2>2. T \in SUBSET (1..Len(lg)) /\ T2 = IF k = c THEN T \cup {Len(lg2)} ELSE T
    BY <1>5 DEF Touching
  <2>3. T # {} => \E m \in T : \A i \in T : m >= i
    BY <1>2 DEF LogInv
  <2>4. Past(lg, st, Len(lg))[k] = st[k]
    BY DEF LogInv
  <2>. HIDE DEF T, T2
  <2>5. CASE k = c
    <3>1. T2 \in SUBSET Nat /\ Len(lg2) \in T2 /\ \A i \in T2 : Len(lg2) >= i
      <4>1. Len(lg2) \in Nat /\ Len(lg2) >= Len(lg2) /\ \A i \in 1..Len(lg) : i \in Nat /\ Len(lg2) >= i
        BY <1>1, <1>2
      <4>2. T2 = T \cup {Len(lg2)} /\ T \in SUBSET (1..Len(lg))
        BY <2>2, <2>5
      <4>. QED
        BY <4>1, <4>2
    <3>2. Max(T2) = Len(lg2)
      BY <3>1, MaxIs
    <3>3. T2 # {}
      BY <3>1
    <3>4. Past(lg2, st2, Len(lg2))[k] = lg2[Len(lg2)].next
      BY <2>1, <3>2, <3>3
    <3>5. lg2[Len(lg2)] = e
      BY <1>1
    <3>6. e.next = st2[k]
      BY <2>5
    <3>. QED
      BY <3>4, <3>5, <3>6
  <2>6. CASE k # c /\ T = {}
    BY <1>7, <2>1, <2>2, <2>4, <2>6 DEF Maps
  <2>7. CASE k # c /\ T # {}
    <3>1. PICK m \in T : \A i \in T : m >= i
      BY <2>3, <2>7
    <3>2. Max(T) = m
      BY <1>2, <2>2, <3>1, MaxIs
    <3>3. lg2[m] = lg[m] /\ T2 = T
      BY <1>1, <2>2, <2>7, <3>1
    <3>. QED
      BY <2>1, <2>4, <2>7, <3>2, <3>3 DEF Maps
  <2>. QED
    BY <2>5, <2>6, <2>7
<1>10. \A n \in 1..Len(lg2) :
        /\ lg2[n].prev = Past(lg2, st2, n - 1)[lg2[n].key]
        /\ Past(lg2, st2, n) = [Past(lg2, st2, n - 1) EXCEPT ![lg2[n].key] = lg2[n].next]
  <2>. SUFFICES ASSUME NEW n \in 1..Len(lg2)
                PROVE  /\ lg2[n].prev = Past(lg2, st2, n - 1)[lg2[n].key]
                       /\ Past(lg2, st2, n) = [Past(lg2, st2, n - 1) EXCEPT ![lg2[n].key] = lg2[n].next]
    OBVIOUS
  <2>1. CASE n \in 1..Len(lg)
    <3>1. n \in 0..Len(lg) /\ n - 1 \in 0..Len(lg)
      BY <1>2, <2>1
    <3>2. Past(lg2, st2, n) = Past(lg, st, n) /\ Past(lg2, st2, n - 1) = Past(lg, st, n - 1)
      BY <1>8, <3>1
    <3>3. lg2[n] = lg[n]
      BY <1>1, <2>1
    <3>4. /\ lg[n].prev = Past(lg, st, n - 1)[lg[n].key]
          /\ Past(lg, st, n) = [Past(lg, st, n - 1) EXCEPT ![lg[n].key] = lg[n].next]
      BY <2>1 DEF LogInv
    <3>. QED
      BY <3>2, <3>3, <3>4
  <2>2. CASE n = Len(lg) + 1
    <3>1. n - 1 = Len(lg) /\ Len(lg) \in 0..Len(lg)
      BY <1>2, <2>2
    <3>2. Past(lg2, st2, n - 1) = st
      BY <1>8, <3>1 DEF LogInv
    <3>3. lg2[n] = e /\ Past(lg2, st2, n) = st2
      BY <1>1, <1>9, <2>2
    <3>4. st2 = [st EXCEPT ![c] = v]
      BY DEF Maps
    <3>. QED
      BY <3>2, <3>3, <3>4
  <2>. QED
    BY <1>12, <2>1, <2>2
<1>. QED
  BY <1>1, <1>2, <1>6, <1>8, <1>9, <1>10 DEF LogInv
-----------------------------------------------------------------------------
(* Sequences *)

LEMMA TailIs ==
  ASSUME NEW S, NEW q \in Seq(S), q # <<>>
  PROVE  /\ Tail(q) \in Seq(S) /\ Len(Tail(q)) = Len(q) - 1 /\ Len(q) \in Nat \ {0}
         /\ \A i \in 1..Len(q) - 1 : Tail(q)[i] = q[i + 1]
         /\ Head(q) = q[1] /\ q[1] \in S
OBVIOUS

LEMMA ConcatIs ==
  ASSUME NEW S, NEW q \in Seq(S), NEW s \in Seq(S)
  PROVE  /\ q \o s \in Seq(S) /\ Len(q \o s) = Len(q) + Len(s) /\ Len(q) \in Nat /\ Len(s) \in Nat
         /\ \A i \in 1..Len(q) : (q \o s)[i] = q[i]
         /\ \A i \in 1..Len(s) : (q \o s)[Len(q) + i] = s[i]
         /\ \A i \in 1..Len(q \o s) : i > Len(q) => i - Len(q) \in 1..Len(s) /\ (q \o s)[i] = s[i - Len(q)]
OBVIOUS

LEMMA OneMessage ==
  ASSUME NEW S, NEW q \in Seq(S), NEW m \in S
  PROVE  Append(q, m) = q \o <<m>> /\ <<m>> \in Seq(S) /\ Len(<<m>>) = 1 /\ <<m>>[1] = m
OBVIOUS

-----------------------------------------------------------------------------
(* The messages on their way to the client *)

\* What the log and the map had they still had when both have gone on.
LEMMA RepliesKept ==
  ASSUME NEW q, NEW lg, NEW st, NEW lg2, NEW st2, NEW ch \in Nat, NEW ch2 \in Nat, ch <= ch2,
         Len(lg) \in Nat, Len(lg2) \in Nat, Len(lg) <= Len(lg2),
         \A i \in 1..Len(lg) : lg2[i] = lg[i],
         \A n \in 0..Len(lg) : Past(lg2, st2, n) = Past(lg, st, n),
         AreReplies(q, lg, st, ch)
  PROVE  AreReplies(q, lg2, st2, ch2)
<1>. SUFFICES ASSUME NEW i \in 1..Len(q) PROVE IsReply(q[i], lg2, st2, ch2)
  BY DEF AreReplies
<1>. DEFINE m == q[i]
<1>1. IsReply(m, lg, st, ch)
  BY DEF AreReplies
<1>. HIDE DEF m
<1>2. IsReply(m, lg2, st2, ch2)
  BY <1>1 DEF IsReply
<1>. QED
  BY <1>2 DEF m

LEMMA RepliesJoined ==
  ASSUME NEW q \in Seq(Replies), NEW s \in Seq(Replies), NEW lg, NEW st, NEW ch,
         AreReplies(q, lg, st, ch), AreReplies(s, lg, st, ch)
  PROVE  AreReplies(q \o s, lg, st, ch)
<1>. SUFFICES ASSUME NEW i \in 1..Len(q \o s) PROVE IsReply((q \o s)[i], lg, st, ch)
  BY DEF AreReplies
<1>1. CASE i \in 1..Len(q)
  BY <1>1, ConcatIs DEF AreReplies
<1>2. CASE i > Len(q)
  BY <1>2, ConcatIs DEF AreReplies
<1>. QED
  BY <1>1, <1>2, ConcatIs

LEMMA RepliesLeft ==
  ASSUME NEW q \in Seq(Replies), q # <<>>, NEW lg, NEW st, NEW ch, AreReplies(q, lg, st, ch)
  PROVE  AreReplies(Tail(q), lg, st, ch) /\ IsReply(q[1], lg, st, ch)
<1>1. \A i \in 1..Len(Tail(q)) : i + 1 \in 1..Len(q) /\ Tail(q)[i] = q[i + 1]
  BY TailIs
<1>2. 1 \in 1..Len(q)
  BY TailIs
<1>. QED
  BY <1>1, <1>2 DEF AreReplies

\* Who is not in a recovery is anywhere on the line.
LEMMA StaysOnLine ==
  ASSUME NEW q, NEW ch, NEW lg, NEW st, NEW rec, NEW ask, NEW cur, NEW rev,
         NEW rec2, NEW ask2, NEW cur2, NEW rev2,
         Follows(q, ch, lg, st, rec, ask, cur, rev),
         rec2 \notin {"consuming", "caught-up"}, rec2 = "awaiting" => ask2 # ch
  PROVE  Follows(q, ch, lg, st, rec2, ask2, cur2, rev2)
BY DEF Follows, Meets

AreTold(s, st) == \A i \in 1..Len(s) : s[i].type \in Told /\ Agrees(s[i], st)

\* Values read from the map now may be added.
LEMMA LineTold ==
  ASSUME NEW q \in Seq(Replies), NEW s \in Seq(Replies), NEW ch, NEW lg, NEW st, Len(lg) \in Nat,
         Past(lg, st, Len(lg)) = st,
         AreTold(s, st),
         NEW b \in 0..Len(q), NEW f \in [0..Len(q) -> 0..Len(lg)], Line(q, ch, lg, st, b, f)
  PROVE  \E g \in [0..Len(q \o s) -> 0..Len(lg)] : g[0] = f[0] /\ Line(q \o s, ch, lg, st, b, g)
<1>. DEFINE z == q \o s
<1>1. /\ Len(z) = Len(q) + Len(s) /\ Len(q) \in Nat /\ Len(s) \in Nat
      /\ \A i \in 1..Len(q) : z[i] = q[i]
      /\ \A i \in 1..Len(z) : i > Len(q) => z[i].type \in Told /\ Agrees(z[i], st)
  BY ConcatIs DEF AreTold
<1>. HIDE DEF z
<1>2. PICK g : g = [i \in 0..Len(z) |-> IF i <= Len(q) THEN f[i] ELSE Len(lg)]
  OBVIOUS
<1>3. g \in [0..Len(z) -> 0..Len(lg)] /\ (\A i \in 0..Len(q) : g[i] = f[i])
      /\ \A i \in 0..Len(z) : i >= Len(q) => g[i] = Len(lg)
  <2>1. f[Len(q)] = Len(lg)
    BY DEF Line
  <2>. QED
    BY <1>1, <1>2, <2>1
<1>4. ASSUME NEW i \in 1..Len(z) PROVE IsBoundary(z[i], ch) <=> i = b
  <2>1. CASE i \in 1..Len(q)
    BY <1>1, <2>1 DEF Line
  <2>2. CASE i > Len(q)
    <3>1. z[i].type \in Told
      BY <1>1, <1>4, <2>2
    <3>2. i # b
      BY <1>1, <1>4, <2>2
    <3>. QED
      BY <3>1, <3>2 DEF IsBoundary, Told
  <2>. QED
    BY <1>1, <2>1, <2>2
<1>5. ASSUME NEW i \in 1..b PROVE z[i].type = "live" => z[i].id # ch
  <2>1. z[i] = q[i]
    BY <1>1, <1>5
  <2>. QED
    BY <1>5, <2>1 DEF Line
<1>6. b > 0 => z[b].at = g[b]
  BY <1>1, <1>3 DEF Line
<1>7. ASSUME NEW i \in b+1..Len(z)
      PROVE  /\ z[i].type \notin Replayed
             /\ z[i].type = "live" => z[i].id = ch /\ z[i].at = g[i] /\ g[i] = g[i - 1] + 1
             /\ z[i].type # "live" => g[i] = g[i - 1] /\ Agrees(z[i], Past(lg, st, g[i]))
  <2>1. CASE i \in 1..Len(q)
    <3>1. z[i] = q[i] /\ i \in b+1..Len(q)
      BY <1>1, <1>7, <2>1
    <3>2. i \in 0..Len(q) /\ i - 1 \in 0..Len(q)
      BY <1>1, <2>1
    <3>3. g[i] = f[i] /\ g[i - 1] = f[i - 1]
      BY <1>3, <3>2
    <3>. QED
      BY <3>1, <3>3 DEF Line
  <2>2. CASE i > Len(q)
    <3>1. z[i].type \in Told /\ Agrees(z[i], st)
      BY <1>1, <1>7, <2>2
    <3>2. i \in 0..Len(z) /\ i - 1 \in 0..Len(z) /\ i - 1 >= Len(q)
      BY <1>1, <1>7, <2>2
    <3>3. i >= Len(q)
      BY <1>1, <1>7, <2>2
    <3>4. g[i] = Len(lg) /\ g[i - 1] = Len(lg)
      BY <1>3, <3>2, <3>3
    <3>. QED
      BY <3>1, <3>4 DEF Told, Replayed
  <2>. QED
    BY <1>1, <1>7, <2>1, <2>2
<1>8. Line(z, ch, lg, st, b, g)
  <2>1. Len(z) \in 0..Len(z) /\ Len(z) >= Len(q)
    BY <1>1
  <2>2. g[Len(z)] = Len(lg)
    BY <1>3, <2>1
  <2>. QED
    BY <1>4, <1>5, <1>6, <1>7, <2>2 DEF Line
<1>9. g[0] = f[0]
  BY <1>1, <1>3
<1>. QED
  BY <1>3, <1>8, <1>9 DEF z

LEMMA FollowsTold ==
  ASSUME NEW q \in Seq(Replies), NEW s \in Seq(Replies), NEW ch, NEW lg, NEW st, Len(lg) \in Nat,
         Past(lg, st, Len(lg)) = st,
         AreTold(s, st),
         NEW rec, NEW ask, NEW cur, NEW rev, Follows(q, ch, lg, st, rec, ask, cur, rev)
  PROVE  Follows(q \o s, ch, lg, st, rec, ask, cur, rev)
<1>1. PICK b \in 0..Len(q), f \in [0..Len(q) -> 0..Len(lg)] :
        Line(q, ch, lg, st, b, f) /\ Meets(q, ch, rec, ask, cur, rev, b, f)
  BY DEF Follows
<1>2. Line(q, ch, lg, st, b, f)
  BY <1>1
<1>3. PICK g \in [0..Len(q \o s) -> 0..Len(lg)] : g[0] = f[0] /\ Line(q \o s, ch, lg, st, b, g)
  BY <1>2, LineTold
<1>4. g[0] = f[0] /\ b \in 0..Len(q \o s)
  BY <1>3, ConcatIs
<1>5. Meets(q \o s, ch, rec, ask, cur, rev, b, g)
  <2>1. \A p \in 1..b : (q \o s)[p] = q[p]
    BY ConcatIs
  <2>. QED
    BY <1>1, <1>4, <2>1 DEF Meets
<1>. QED
  BY <1>3, <1>4, <1>5 DEF Follows

\* So may a commit that is sent at once.
LEMMA FollowsLive ==
  ASSUME NEW q \in Seq(Replies), NEW m \in Replies, NEW ch, NEW lg, NEW st, NEW lg2, NEW st2,
         Len(lg) \in Nat, Len(lg2) = Len(lg) + 1,
         \A n \in 0..Len(lg) : Past(lg2, st2, n) = Past(lg, st, n),
         m.type = "live", m.id = ch, m.at = Len(lg2),
         NEW rec, NEW ask, NEW cur, NEW rev, Follows(q, ch, lg, st, rec, ask, cur, rev)
  PROVE  Follows(Append(q, m), ch, lg2, st2, rec, ask, cur, rev)
<1>. DEFINE z == Append(q, m)
<1>1. PICK b \in 0..Len(q), f \in [0..Len(q) -> 0..Len(lg)] :
        Line(q, ch, lg, st, b, f) /\ Meets(q, ch, rec, ask, cur, rev, b, f)
  BY DEF Follows
<1>2. /\ Len(z) = Len(q) + 1 /\ Len(q) \in Nat /\ z[Len(z)] = m
      /\ \A i \in 1..Len(q) : z[i] = q[i]
  OBVIOUS
<1>. HIDE DEF z
<1>3. PICK g : g = [i \in 0..Len(z) |-> IF i <= Len(q) THEN f[i] ELSE Len(lg2)]
  OBVIOUS
<1>4. g \in [0..Len(z) -> 0..Len(lg2)] /\ (\A i \in 0..Len(q) : g[i] = f[i]) /\ g[Len(z)] = Len(lg2)
  BY <1>2, <1>3
<1>5. ASSUME NEW i \in 1..Len(z) PROVE IsBoundary(z[i], ch) <=> i = b
  <2>1. CASE i \in 1..Len(q)
    BY <1>1, <1>2, <2>1 DEF Line
  <2>2. CASE i = Len(z)
    <3>1. z[i] = m /\ i # b
      BY <1>2, <2>2
    <3>. QED
      BY <3>1 DEF IsBoundary
  <2>. QED
    BY <1>2, <2>1, <2>2
<1>6. ASSUME NEW i \in 1..b PROVE z[i].type = "live" => z[i].id # ch
  <2>1. z[i] = q[i]
    BY <1>2, <1>6
  <2>. QED
    BY <1>1, <1>6, <2>1 DEF Line
<1>7. b > 0 => z[b].at = g[b]
  BY <1>1, <1>2, <1>4 DEF Line
<1>8. ASSUME NEW i \in b+1..Len(z)
      PROVE  /\ z[i].type \notin Replayed
             /\ z[i].type = "live" => z[i].id = ch /\ z[i].at = g[i] /\ g[i] = g[i - 1] + 1
             /\ z[i].type # "live" => g[i] = g[i - 1] /\ Agrees(z[i], Past(lg2, st2, g[i]))
  <2>1. CASE i \in 1..Len(q)
    <3>1. z[i] = q[i] /\ g[i] = f[i] /\ g[i - 1] = f[i - 1] /\ i \in b+1..Len(q)
      BY <1>2, <1>4, <1>8, <2>1
    <3>2. Past(lg2, st2, g[i]) = Past(lg, st, f[i])
      <4>1. f[i] \in 0..Len(lg)
        BY <1>2, <2>1
      <4>. QED
        BY <3>1, <4>1
    <3>. QED
      BY <1>1, <3>1, <3>2 DEF Line
  <2>2. CASE i = Len(z)
    <3>1. z[i] = m /\ g[i] = Len(lg2) /\ g[i - 1] = f[Len(q)]
      BY <1>2, <1>4, <2>2
    <3>2. f[Len(q)] = Len(lg)
      BY <1>1 DEF Line
    <3>. QED
      BY <3>1, <3>2 DEF Replayed
  <2>. QED
    BY <1>2, <1>8, <2>1, <2>2
<1>9. Line(z, ch, lg2, st2, b, g)
  BY <1>4, <1>5, <1>6, <1>7, <1>8 DEF Line
<1>10. Meets(z, ch, rec, ask, cur, rev, b, g)
  <2>1. \A p \in 1..b : z[p] = q[p]
    BY <1>2
  <2>2. g[0] = f[0]
    BY <1>2, <1>4
  <2>. QED
    BY <1>1, <2>1, <2>2 DEF Meets
<1>11. b \in 0..Len(z)
  BY <1>2
<1>12. Follows(z, ch, lg2, st2, rec, ask, cur, rev)
  BY <1>4, <1>9, <1>10, <1>11 DEF Follows
<1>. QED
  BY <1>12 DEF z

\* The line without its first message.
LEMMA LineTail ==
  ASSUME NEW q \in Seq(Replies), q # <<>>, NEW ch, NEW lg, NEW st, Len(lg) \in Nat,
         NEW b \in 0..Len(q), NEW f \in [0..Len(q) -> 0..Len(lg)], Line(q, ch, lg, st, b, f),
         NEW c, c = IF b = 0 THEN 0 ELSE b - 1
  PROVE  /\ c \in 0..Len(Tail(q))
         /\ \E g \in [0..Len(Tail(q)) -> 0..Len(lg)] : g[0] = f[1] /\ Line(Tail(q), ch, lg, st, c, g)
<1>. DEFINE z == Tail(q)
<1>1. /\ Len(z) = Len(q) - 1 /\ Len(q) \in Nat /\ Len(q) > 0
      /\ \A i \in 1..Len(z) : z[i] = q[i + 1]
  BY TailIs
<1>. HIDE DEF z
<1>2. c \in 0..Len(z)
  BY <1>1
<1>3. PICK g : g = [i \in 0..Len(z) |-> f[i + 1]]
  OBVIOUS
<1>4. g \in [0..Len(z) -> 0..Len(lg)] /\ \A i \in 0..Len(z) : g[i] = f[i + 1]
  BY <1>1, <1>3
<1>5. g[Len(z)] = Len(lg)
  BY <1>1, <1>4 DEF Line
<1>6. ASSUME NEW i \in 1..Len(z) PROVE IsBoundary(z[i], ch) <=> i = c
  <2>1. z[i] = q[i + 1] /\ i + 1 \in 1..Len(q) /\ (i + 1 = b <=> i = c)
    BY <1>1, <1>6
  <2>. QED
    BY <2>1 DEF Line
<1>7. ASSUME NEW i \in 1..c PROVE z[i].type = "live" => z[i].id # ch
  <2>1. z[i] = q[i + 1] /\ i + 1 \in 1..b
    BY <1>1, <1>7
  <2>. QED
    BY <2>1 DEF Line
<1>8. c > 0 => z[c].at = g[c]
  <2>. SUFFICES ASSUME c > 0 PROVE z[c].at = g[c]
    OBVIOUS
  <2>1. z[c] = q[b] /\ g[c] = f[b] /\ b > 0
    BY <1>1, <1>4
  <2>. QED
    BY <2>1 DEF Line
<1>9. ASSUME NEW i \in c+1..Len(z)
      PROVE  /\ z[i].type \notin Replayed
             /\ z[i].type = "live" => z[i].id = ch /\ z[i].at = g[i] /\ g[i] = g[i - 1] + 1
             /\ z[i].type # "live" => g[i] = g[i - 1] /\ Agrees(z[i], Past(lg, st, g[i]))
  <2>1. i + 1 \in b+1..Len(q) /\ i \in 1..Len(z) /\ i - 1 \in 0..Len(z)
    BY <1>1, <1>9
  <2>2. z[i] = q[i + 1] /\ g[i] = f[i + 1] /\ g[i - 1] = f[(i + 1) - 1]
    BY <1>1, <1>4, <2>1
  <2>. QED
    BY <2>1, <2>2 DEF Line
<1>10. Line(z, ch, lg, st, c, g)
  BY <1>5, <1>6, <1>7, <1>8, <1>9 DEF Line
<1>11. g[0] = f[1]
  BY <1>1, <1>4
<1>. QED
  BY <1>2, <1>4, <1>10, <1>11 DEF z

\* What handle_recover sends: a plan, the body and the boundary at the head.
IsRecovery(s, id, head) ==
  /\ Len(s) >= 2 /\ s[1].type = "plan" /\ s[1].id = id
  /\ IsBoundary(s[Len(s)], id) /\ s[Len(s)].at = head
  /\ \A i \in 2..Len(s) - 1 : s[i].type \in {"body", "snapshot"}

LEMMA FollowsRecovery ==
  ASSUME NEW q \in Seq(Replies), NEW s \in Seq(Replies), NEW ch \in Nat, NEW id \in Nat, ch < id,
         NEW lg, NEW st, Len(lg) \in Nat, AreReplies(q, lg, st, ch), IsRecovery(s, id, Len(lg)),
         NEW rec, rec \notin {"consuming", "caught-up"}, NEW ask, NEW cur, NEW rev
  PROVE  Follows(q \o s, id, lg, st, rec, ask, cur, rev)
<1>. DEFINE z == q \o s
<1>1. /\ Len(z) = Len(q) + Len(s) /\ Len(q) \in Nat /\ Len(s) \in Nat
      /\ \A i \in 1..Len(q) : z[i] = q[i]
      /\ \A i \in 1..Len(s) : z[Len(q) + i] = s[i]
      /\ \A i \in 1..Len(z) : i > Len(q) => i - Len(q) \in 1..Len(s) /\ z[i] = s[i - Len(q)]
  BY ConcatIs
<1>. HIDE DEF z
<1>2. Len(s) >= 2
  BY DEF IsRecovery
<1>3. IsBoundary(z[Len(z)], id) /\ z[Len(z)].at = Len(lg) /\ Len(z) \in Nat /\ Len(z) > 0
  BY <1>1, <1>2 DEF IsRecovery
<1>4. ASSUME NEW i \in 1..Len(z)
      PROVE  /\ IsBoundary(z[i], id) <=> i = Len(z)
             /\ z[i].type = "live" => z[i].id # id
  <2>1. CASE i \in 1..Len(q)
    <3>1. z[i] = q[i] /\ i # Len(z)
      BY <1>1, <1>2, <2>1
    <3>2. q[i].type \in Told \/ q[i].id \in 1..ch
      BY <2>1 DEF AreReplies, IsReply
    <3>3. CASE q[i].type \in Told
      BY <3>1, <3>3 DEF Told, IsBoundary
    <3>4. CASE q[i].id \in 1..ch
      BY <3>1, <3>4 DEF IsBoundary
    <3>. QED
      BY <3>2, <3>3, <3>4
  <2>2. CASE i = Len(q) + 1
    <3>1. z[i] = s[1] /\ i # Len(z)
      BY <1>1, <1>2, <2>2
    <3>. QED
      BY <3>1 DEF IsRecovery, IsBoundary
  <2>3. CASE i > Len(q) + 1 /\ i < Len(z)
    <3>1. z[i] = s[i - Len(q)] /\ i - Len(q) \in 2..Len(s) - 1
      BY <1>1, <1>4, <2>3
    <3>2. z[i].type \in {"body", "snapshot"}
      BY <3>1 DEF IsRecovery
    <3>. QED
      BY <2>3, <3>2 DEF IsBoundary
  <2>4. CASE i = Len(z)
    BY <1>3, <2>4 DEF IsBoundary
  <2>. QED
    <3>1. i \in 1..Len(q) \/ i = Len(q) + 1 \/ (i > Len(q) + 1 /\ i < Len(z)) \/ i = Len(z)
      BY <1>1, <1>4
    <3>. QED
      BY <2>1, <2>2, <2>3, <2>4, <3>1
<1>5. PICK f : f = [i \in 0..Len(z) |-> Len(lg)]
  OBVIOUS
<1>6. f \in [0..Len(z) -> 0..Len(lg)] /\ f[Len(z)] = Len(lg)
  BY <1>3, <1>5
<1>7. Line(z, id, lg, st, Len(z), f)
  BY <1>3, <1>4, <1>6 DEF Line
<1>8. Meets(z, id, rec, ask, cur, rev, Len(z), f)
  <2>1. Len(q) + 1 \in 1..Len(z) /\ z[Len(q) + 1] = s[1]
    BY <1>1, <1>2
  <2>. QED
    BY <2>1 DEF Meets, IsRecovery
<1>9. Len(z) \in 0..Len(z)
  BY <1>3
<1>10. Follows(z, id, lg, st, rec, ask, cur, rev)
  BY <1>6, <1>7, <1>8, <1>9 DEF Follows
<1>. QED
  BY <1>10 DEF z

-----------------------------------------------------------------------------
(* What is to be shown *)

LEMMA StaysJoined ==
  ASSUME NEW q \in Seq(Replies), NEW s \in Seq(Replies), NEW k, NEW v, NEW a \in 0..Len(q),
         Stays(q, k, a, v), Stays(s, k, 0, v)
  PROVE  Stays(q \o s, k, a, v) /\ a \in 0..Len(q \o s)
<1>1. ASSUME NEW i \in a+1..Len(q \o s)
      PROVE  /\ Tells((q \o s)[i], k) => SaidOf((q \o s)[i], k) = v
             /\ (q \o s)[i].type = "live" => (q \o s)[i].body.key # k
  <2>1. CASE i \in 1..Len(q)
    <3>1. (q \o s)[i] = q[i] /\ i \in a+1..Len(q)
      BY <1>1, <2>1, ConcatIs
    <3>. QED
      BY <3>1 DEF Stays
  <2>2. CASE i > Len(q)
    <3>1. i \in 1..Len(q \o s)
      BY <1>1
    <3>2. (q \o s)[i] = s[i - Len(q)] /\ i - Len(q) \in 0+1..Len(s)
      BY <2>2, <3>1, ConcatIs
    <3>. QED
      BY <3>2 DEF Stays
  <2>. QED
    BY <1>1, <2>1, <2>2, ConcatIs
<1>. QED
  BY <1>1, ConcatIs DEF Stays

LEMMA ShownNowJoined ==
  ASSUME NEW q \in Seq(Replies), NEW s \in Seq(Replies), NEW cp, NEW k, NEW v,
         ShownNow(q, cp, k, v), Stays(s, k, 0, v)
  PROVE  ShownNow(q \o s, cp, k, v)
<1>1. PICK a \in 0..Len(q) : /\ a = 0 => cp[k] = v
                             /\ a # 0 => Tells(q[a], k) /\ SaidOf(q[a], k) = v
                             /\ Stays(q, k, a, v)
  BY DEF ShownNow
<1>2. a # 0 => (q \o s)[a] = q[a]
  BY ConcatIs
<1>3. Stays(q \o s, k, a, v) /\ a \in 0..Len(q \o s)
  BY <1>1, StaysJoined
<1>. QED
  BY <1>1, <1>2, <1>3 DEF ShownNow

LEMMA ShownLaterJoined ==
  ASSUME NEW q \in Seq(Replies), NEW s \in Seq(Replies), NEW ch, NEW lg, NEW st, NEW k, NEW v,
         ShownLater(q, ch, lg, st, k, v), Stays(s, k, 0, v)
  PROVE  ShownLater(q \o s, ch, lg, st, k, v)
<1>0. PICK b \in 1..Len(q) : \E a \in b..Len(q) :
        /\ IsBoundary(q[b], ch)
        /\ a = b => Past(lg, st, q[b].at)[k] = v
        /\ a # b => Tells(q[a], k) /\ SaidOf(q[a], k) = v
        /\ Stays(q, k, a, v)
  BY DEF ShownLater
<1>1. PICK a \in b..Len(q) :
        /\ IsBoundary(q[b], ch)
        /\ a = b => Past(lg, st, q[b].at)[k] = v
        /\ a # b => Tells(q[a], k) /\ SaidOf(q[a], k) = v
        /\ Stays(q, k, a, v)
  BY <1>0
<1>2. (q \o s)[a] = q[a] /\ (q \o s)[b] = q[b] /\ b \in 1..Len(q \o s) /\ a \in b..Len(q \o s)
  BY ConcatIs
<1>3. a \in 0..Len(q)
  OBVIOUS
<1>4. Stays(q \o s, k, a, v)
  BY <1>1, <1>3, StaysJoined
<1>. QED
  BY <1>1, <1>2, <1>4 DEF ShownLater

\* A message that was just added says it.
LEMMA SaidLast ==
  ASSUME NEW q \in Seq(Replies), NEW s \in Seq(Replies), NEW k, NEW v, Stays(s, k, 0, v),
         NEW i \in 1..Len(s), Tells(s[i], k)
  PROVE  \E a \in Len(q)+1..Len(q \o s) :
           Tells((q \o s)[a], k) /\ SaidOf((q \o s)[a], k) = v /\ Stays(q \o s, k, a, v)
<1>1. /\ Len(q) + i \in Len(q)+1..Len(q \o s) /\ (q \o s)[Len(q) + i] = s[i]
      /\ \A j \in 1..Len(q \o s) : j > Len(q) => j - Len(q) \in 1..Len(s) /\ (q \o s)[j] = s[j - Len(q)]
      /\ Len(q) \in Nat
  BY ConcatIs
<1>2. SaidOf(s[i], k) = v
  BY DEF Stays
<1>3. Stays(q \o s, k, Len(q) + i, v)
  <2>1. ASSUME NEW j \in Len(q)+i+1..Len(q \o s)
        PROVE  /\ Tells((q \o s)[j], k) => SaidOf((q \o s)[j], k) = v
               /\ (q \o s)[j].type = "live" => (q \o s)[j].body.key # k
    <3>1. (q \o s)[j] = s[j - Len(q)] /\ j - Len(q) \in 0+1..Len(s)
      BY <1>1, <2>1
    <3>. QED
      BY <3>1 DEF Stays
  <2>. QED
    BY <2>1 DEF Stays
<1>. QED
  BY <1>1, <1>2, <1>3

LEMMA ShownNowSaid ==
  ASSUME NEW q \in Seq(Replies), NEW s \in Seq(Replies), NEW cp, NEW k, NEW v, Stays(s, k, 0, v),
         NEW i \in 1..Len(s), Tells(s[i], k)
  PROVE  ShownNow(q \o s, cp, k, v)
<1>1. PICK a \in Len(q)+1..Len(q \o s) :
        Tells((q \o s)[a], k) /\ SaidOf((q \o s)[a], k) = v /\ Stays(q \o s, k, a, v)
  BY SaidLast
<1>2. a \in 0..Len(q \o s) /\ a # 0
  BY ConcatIs
<1>. QED
  BY <1>1, <1>2 DEF ShownNow

LEMMA ShownLaterSaid ==
  ASSUME NEW q \in Seq(Replies), NEW s \in Seq(Replies), NEW ch, NEW lg, NEW st, NEW k, NEW v,
         Stays(s, k, 0, v), NEW i \in 1..Len(s), Tells(s[i], k),
         NEW b \in 1..Len(q), IsBoundary(q[b], ch)
  PROVE  ShownLater(q \o s, ch, lg, st, k, v)
<1>1. PICK a \in Len(q)+1..Len(q \o s) :
        Tells((q \o s)[a], k) /\ SaidOf((q \o s)[a], k) = v /\ Stays(q \o s, k, a, v)
  BY SaidLast
<1>2. b \in 1..Len(q \o s) /\ a \in b..Len(q \o s) /\ a # b /\ (q \o s)[b] = q[b]
  BY ConcatIs
<1>. QED
  BY <1>1, <1>2 DEF ShownLater

LEMMA ShownLaterGrows ==
  ASSUME NEW q, NEW ch, NEW lg, NEW st, NEW lg2, NEW st2, NEW k, NEW v,
         \A n \in 0..Len(lg) : Past(lg2, st2, n) = Past(lg, st, n),
         AreReplies(q, lg, st, ch), ShownLater(q, ch, lg, st, k, v)
  PROVE  ShownLater(q, ch, lg2, st2, k, v)
<1>0. PICK b \in 1..Len(q) : \E a \in b..Len(q) :
        /\ IsBoundary(q[b], ch)
        /\ a = b => Past(lg, st, q[b].at)[k] = v
        /\ a # b => Tells(q[a], k) /\ SaidOf(q[a], k) = v
        /\ Stays(q, k, a, v)
  BY DEF ShownLater
<1>1. PICK a \in b..Len(q) :
        /\ IsBoundary(q[b], ch)
        /\ a = b => Past(lg, st, q[b].at)[k] = v
        /\ a # b => Tells(q[a], k) /\ SaidOf(q[a], k) = v
        /\ Stays(q, k, a, v)
  BY <1>0
<1>2. q[b].at \in 0..Len(lg)
  BY <1>1 DEF AreReplies, IsReply, IsBoundary
<1>3. Past(lg2, st2, q[b].at) = Past(lg, st, q[b].at)
  BY <1>2
<1>. QED
  BY <1>1, <1>3 DEF ShownLater

\* The head is received by a client that is not in a recovery.
LEMMA ShownNowLeft ==
  ASSUME NEW q \in Seq(Replies), q # <<>>, NEW cp, NEW cp2, NEW k, NEW v, ShownNow(q, cp, k, v),
         Tells(q[1], k) /\ SaidOf(q[1], k) = v => cp2[k] = v,
         cp[k] = v /\ ~Tells(q[1], k) /\ (q[1].type = "live" => q[1].body.key # k) => cp2[k] = v
  PROVE  ShownNow(Tail(q), cp2, k, v)
<1>1. PICK a \in 0..Len(q) : /\ a = 0 => cp[k] = v
                             /\ a # 0 => Tells(q[a], k) /\ SaidOf(q[a], k) = v
                             /\ Stays(q, k, a, v)
  BY DEF ShownNow
<1>2. /\ Len(Tail(q)) = Len(q) - 1 /\ Len(q) \in Nat \ {0}
      /\ \A i \in 1..Len(q) - 1 : Tail(q)[i] = q[i + 1]
  BY TailIs
<1>3. PICK c : c = IF a = 0 THEN 0 ELSE a - 1
  OBVIOUS
<1>4. c \in 0..Len(Tail(q))
  BY <1>2, <1>3
<1>5. Stays(Tail(q), k, c, v)
  <2>1. ASSUME NEW i \in c+1..Len(Tail(q))
        PROVE  /\ Tells(Tail(q)[i], k) => SaidOf(Tail(q)[i], k) = v
               /\ Tail(q)[i].type = "live" => Tail(q)[i].body.key # k
    <3>1. Tail(q)[i] = q[i + 1] /\ i + 1 \in a+1..Len(q)
      BY <1>2, <1>3, <2>1
    <3>. QED
      BY <1>1, <3>1 DEF Stays
  <2>. QED
    BY <2>1 DEF Stays
<1>6. CASE a = 0
  <2>1. 1 \in a+1..Len(q)
    BY <1>2, <1>6
  <2>2. /\ Tells(q[1], k) => SaidOf(q[1], k) = v
        /\ q[1].type = "live" => q[1].body.key # k
    BY <1>1, <2>1 DEF Stays
  <2>3. cp2[k] = v
    BY <1>1, <1>6, <2>2
  <2>. QED
    BY <1>3, <1>4, <1>5, <1>6, <2>3 DEF ShownNow
<1>7. CASE a = 1
  BY <1>1, <1>3, <1>4, <1>5, <1>7 DEF ShownNow
<1>8. CASE a > 1
  <2>1. Tail(q)[c] = q[a] /\ c # 0
    BY <1>2, <1>3, <1>8
  <2>. QED
    BY <1>1, <1>4, <1>5, <1>8, <2>1 DEF ShownNow
<1>. QED
  BY <1>6, <1>7, <1>8

\* The head is received, and is not the boundary.
LEMMA ShownLaterLeft ==
  ASSUME NEW q \in Seq(Replies), q # <<>>, NEW ch, NEW lg, NEW st, NEW k, NEW v,
         ShownLater(q, ch, lg, st, k, v), ~IsBoundary(q[1], ch)
  PROVE  ShownLater(Tail(q), ch, lg, st, k, v)
<1>0. PICK b \in 1..Len(q) : \E a \in b..Len(q) :
        /\ IsBoundary(q[b], ch)
        /\ a = b => Past(lg, st, q[b].at)[k] = v
        /\ a # b => Tells(q[a], k) /\ SaidOf(q[a], k) = v
        /\ Stays(q, k, a, v)
  BY DEF ShownLater
<1>1. PICK a \in b..Len(q) :
        /\ IsBoundary(q[b], ch)
        /\ a = b => Past(lg, st, q[b].at)[k] = v
        /\ a # b => Tells(q[a], k) /\ SaidOf(q[a], k) = v
        /\ Stays(q, k, a, v)
  BY <1>0
<1>2. /\ Len(Tail(q)) = Len(q) - 1 /\ Len(q) \in Nat \ {0}
      /\ \A i \in 1..Len(q) - 1 : Tail(q)[i] = q[i + 1]
  BY TailIs
<1>3. b # 1
  BY <1>1
<1>4. /\ b - 1 \in 1..Len(Tail(q)) /\ a - 1 \in b-1..Len(Tail(q))
      /\ Tail(q)[b - 1] = q[b] /\ Tail(q)[a - 1] = q[a] /\ (a = b <=> a - 1 = b - 1)
  BY <1>2, <1>3
<1>5. Stays(Tail(q), k, a - 1, v)
  <2>1. ASSUME NEW i \in a-1+1..Len(Tail(q))
        PROVE  /\ Tells(Tail(q)[i], k) => SaidOf(Tail(q)[i], k) = v
               /\ Tail(q)[i].type = "live" => Tail(q)[i].body.key # k
    <3>1. Tail(q)[i] = q[i + 1] /\ i + 1 \in a+1..Len(q)
      BY <1>2, <2>1
    <3>. QED
      BY <1>1, <3>1 DEF Stays
  <2>. QED
    BY <2>1 DEF Stays
<1>. QED
  BY <1>1, <1>4, <1>5 DEF ShownLater

\* The boundary is received, and the mirror has its state.
LEMMA ShownAtBoundary ==
  ASSUME NEW q \in Seq(Replies), q # <<>>, NEW ch, NEW lg, NEW st, NEW k, NEW v, NEW cp,
         ShownLater(q, ch, lg, st, k, v),
         \A i \in 1..Len(q) : IsBoundary(q[i], ch) => i = 1,
         cp = Past(lg, st, q[1].at)
  PROVE  ShownNow(Tail(q), cp, k, v)
<1>0. PICK b \in 1..Len(q) : \E a \in b..Len(q) :
        /\ IsBoundary(q[b], ch)
        /\ a = b => Past(lg, st, q[b].at)[k] = v
        /\ a # b => Tells(q[a], k) /\ SaidOf(q[a], k) = v
        /\ Stays(q, k, a, v)
  BY DEF ShownLater
<1>1. PICK a \in b..Len(q) :
        /\ IsBoundary(q[b], ch)
        /\ a = b => Past(lg, st, q[b].at)[k] = v
        /\ a # b => Tells(q[a], k) /\ SaidOf(q[a], k) = v
        /\ Stays(q, k, a, v)
  BY <1>0
<1>2. /\ Len(Tail(q)) = Len(q) - 1 /\ Len(q) \in Nat \ {0}
      /\ \A i \in 1..Len(q) - 1 : Tail(q)[i] = q[i + 1]
  BY TailIs
<1>3. b = 1
  BY <1>1
<1>4. a - 1 \in 0..Len(Tail(q)) /\ (a = 1 <=> a - 1 = 0)
  BY <1>2, <1>3
<1>5. Stays(Tail(q), k, a - 1, v)
  <2>1. ASSUME NEW i \in a-1+1..Len(Tail(q))
        PROVE  /\ Tells(Tail(q)[i], k) => SaidOf(Tail(q)[i], k) = v
               /\ Tail(q)[i].type = "live" => Tail(q)[i].body.key # k
    <3>1. Tail(q)[i] = q[i + 1] /\ i + 1 \in a+1..Len(q)
      BY <1>2, <1>3, <2>1
    <3>. QED
      BY <1>1, <3>1 DEF Stays
  <2>. QED
    BY <2>1 DEF Stays
<1>6. CASE a = 1
  BY <1>1, <1>3, <1>4, <1>5, <1>6 DEF ShownNow
<1>7. CASE a # 1
  <2>1. Tail(q)[a - 1] = q[a] /\ a # b
    BY <1>2, <1>3, <1>7
  <2>. QED
    BY <1>1, <1>4, <1>5, <1>7, <2>1 DEF ShownNow
<1>. QED
  BY <1>6, <1>7
-----------------------------------------------------------------------------
(* The Locus *)

LEMMA SyncStarts == SyncInit => SyncInv
<1>. SUFFICES ASSUME SyncInit PROVE SyncInv
  OBVIOUS
<1>1. store \in Maps /\ log = <<>> /\ Len(log) = 0 /\ replies = <<>> /\ requests = <<>> /\ channel = 0
  BY DEF SyncInit, Maps, Values
<1>2. copy \in Maps /\ cursor \in {0, NoCursor} /\ (cursor = 0 => copy = store)
  BY SyncAssumption DEF SyncInit, Maps, Values, NoMapValue, NoCursor
<1>3. paths \in Seq(Paths)
  <2>1. paths = <<>> \/ \E p \in SyncPath : paths = <<p>>
    BY DEF SyncInit
  <2>2. ASSUME NEW p \in SyncPath PROVE <<p>> \in Seq(Paths)
    <3>1. p \in Paths
      BY <2>2 DEF Paths
    <3>. QED
      BY <3>1
  <2>3. <<>> \in Seq(Paths)
    OBVIOUS
  <2>4. CASE paths = <<>>
    BY <2>3, <2>4
  <2>5. CASE \E p \in SyncPath : paths = <<p>>
    BY <2>2, <2>5
  <2>. QED
    BY <2>1, <2>4, <2>5
<1>4. SyncTypes
  <2>1. log \in Seq(Entries) /\ requests \in Seq(Requests) /\ replies \in Seq(Replies)
    BY <1>1
  <2>2. cursor \in 0..Len(log) \cup {NoCursor}
    BY <1>1, <1>2
  <2>3. Len(log) <= MaxCommits /\ store \in Maps /\ channel \in Nat /\ channel = 0
    BY <1>1, SyncAssumption
  <2>4. /\ sending = FALSE /\ listens = FALSE /\ asks = 0 /\ asking = 0 /\ recovery = "disconnected"
        /\ copyRev = 0 /\ owed = SyncKey
    BY DEF SyncInit
  <2>5. copy \in Maps
    BY <1>2
  <2>6. sending \in BOOLEAN /\ listens \in BOOLEAN
    BY <2>4
  <2>7. asks \in Nat /\ asking \in Nat /\ copyRev \in Nat
    BY <2>4
  <2>8. channel <= asks /\ asks <= asking
    BY <2>3, <2>4
  <2>9. recovery \in {"disconnected", "idle", "awaiting", "consuming", "caught-up", "failed"}
    BY <2>4
  <2>10. owed \subseteq SyncKey
    BY <2>4
  <2>. QED
    BY <1>3, <2>1, <2>2, <2>3, <2>5, <2>6, <2>7, <2>8, <2>9, <2>10 DEF SyncTypes
<1>5. LogInv(log, store)
  BY <1>1, EmptyLog
<1>6. AreReplies(replies, log, store, channel)
  BY <1>1 DEF AreReplies
<1>7. RequestInv
  BY <1>1 DEF SyncInit, RequestInv
<1>8. Past(log, store, 0) = store
  BY <1>1, <1>5 DEF LogInv
<1>9. PeerInv
  BY <1>1, <1>2, <1>8 DEF SyncInit, PeerInv
<1>10. FollowInv /\ ShownInv
  BY <1>1 DEF SyncInit, FollowInv, ShownInv
<1>. QED
  BY <1>4, <1>5, <1>6, <1>7, <1>9, <1>10 DEF SyncInv

\* The value of a path is what the map has.
LEMMA SyncOfIs ==
  ASSUME NEW path \in Paths, store \in Maps
  PROVE  /\ SyncOf(path) \in Replies /\ SyncOf(path).type \in Told
         /\ \A lg, ch : IsReply(SyncOf(path), lg, store, ch)
         /\ Agrees(SyncOf(path), store)
         /\ \A k : Tells(SyncOf(path), k) <=> k \in Covered(path)
<1>1. /\ SyncOf(path).type = "sync" /\ SyncOf(path).at = path
      /\ SyncOf(path).body = IF path = RootPath THEN store ELSE store[path]
  BY DEF SyncOf, Reply
<1>2. path # RootPath => path \in SyncKey
  BY SyncAssumption DEF Paths
<1>3. SyncOf(path).body \in Maps \cup Values
  BY <1>1, <1>2 DEF Maps
<1>4. SyncOf(path) \in Replies
  BY <1>1, <1>3 DEF SyncOf, Reply, Replies, Told
<1>5. \A lg, ch : IsReply(SyncOf(path), lg, store, ch)
  BY <1>1, <1>2 DEF IsReply, Told, Maps
<1>6. Agrees(SyncOf(path), store)
  BY <1>1, <1>2 DEF Agrees, Tells, SaidOf, Covered
<1>. QED
  BY <1>1, <1>4, <1>5, <1>6 DEF Told, Tells

\* A commit is sent to a channel, and owed to whoever watches its key.
LEMMA Commits ==
  ASSUME SyncInv, NEW k \in SyncKey, NEW v \in Values, Commit(k, v)
  PROVE  SyncInv'
<1>1. /\ Len(log) < MaxCommits /\ store' = [store EXCEPT ![k] = v] /\ owed' = owed \cup {k}
      /\ log' = Append(log, [key |-> k, prev |-> store[k], next |-> v])
      /\ replies' = IF sending /\ channel # 0
                    THEN Append(replies, Reply("live", channel, Len(log'), log'[Len(log')])) ELSE replies
      /\ UNCHANGED <<paths, sending, channel, requests>>
      /\ UNCHANGED <<listens, recovery, copy, copyRev, cursor, asking, asks>>
  BY DEF Commit, peerVars
<1>2. SyncTypes /\ LogInv(log, store) /\ AreReplies(replies, log, store, channel)
  BY DEF SyncInv
<1>3. RequestInv /\ PeerInv /\ FollowInv /\ ShownInv
  BY DEF SyncInv
<1>4. store \in Maps /\ log \in Seq(Entries) /\ replies \in Seq(Replies) /\ Len(log) \in Nat /\ channel \in Nat
  BY <1>2 DEF SyncTypes
<1>5. PICK e : e = [key |-> k, prev |-> store[k], next |-> v]
  OBVIOUS
<1>6. /\ log' \in Seq(Entries) /\ store' \in Maps /\ Len(log') = Len(log) + 1
      /\ LogInv(log', store')
      /\ \A n \in 0..Len(log) : Past(log', store', n) = Past(log, store, n)
  <2>1. log' = Append(log, e) /\ store' = [store EXCEPT ![k] = v]
    BY <1>1, <1>5
  <2>2. e \in Entries /\ e.key = k /\ e.prev = store[k] /\ e.next = v
    BY <1>4, <1>5 DEF Entries, Maps
  <2>3. /\ log' \in Seq(Entries) /\ Len(log') = Len(log) + 1 /\ log'[Len(log) + 1] = e
        /\ \A i \in 1..Len(log) : log'[i] = log[i]
    BY <1>4, <2>1, <2>2
  <2>4. store' \in Maps /\ store'[k] = v /\ \A j \in SyncKey \ {k} : store'[j] = store[j]
    BY <1>4, <2>1 DEF Maps
  <2>. QED
    BY <1>2, <1>4, <2>2, <2>3, <2>4, GrowingLog
<1>7. e \in Entries /\ log'[Len(log')] = e /\ \A i \in 1..Len(log) : log'[i] = log[i]
  <2>1. e \in Entries
    BY <1>4, <1>5 DEF Entries, Maps
  <2>. QED
    BY <1>1, <1>4, <1>5, <2>1
<1>8. PICK m : m = Reply("live", channel, Len(log'), e)
  OBVIOUS
<1>9. /\ m \in Replies /\ m.type = "live" /\ m.id = channel /\ m.at = Len(log') /\ m.body = e
  BY <1>4, <1>6, <1>7, <1>8 DEF Reply, Replies
<1>10. AreReplies(replies, log', store', channel)
  BY <1>2, <1>4, <1>6, <1>7, RepliesKept
<1>11. SyncTypes' /\ replies' \in Seq(Replies)
  <2>1. replies' \in Seq(Replies)
    BY <1>1, <1>4, <1>7, <1>8, <1>9
  <2>2. Len(log') <= MaxCommits
    BY <1>1, <1>4, <1>6, SyncAssumption
  <2>3. cursor' \in 0..Len(log') \cup {NoCursor}
    BY <1>1, <1>2, <1>4, <1>6 DEF SyncTypes
  <2>. QED
    BY <1>1, <1>2, <1>6, <2>1, <2>2, <2>3 DEF SyncTypes, NoCursor
<1>12. RequestInv'
  <2>1. \A n \in 0..Len(log) \cup {NoCursor} : n \in 0..Len(log') \cup {NoCursor}
    BY <1>4, <1>6
  <2>. QED
    BY <1>1, <1>3, <2>1 DEF RequestInv, NoCursor
<1>13. PeerInv'
  <2>1. cursor # NoCursor => Past(log', store', cursor) = Past(log, store, cursor)
    BY <1>2, <1>6 DEF SyncTypes
  <2>. QED
    BY <1>1, <1>3, <2>1 DEF PeerInv, NoCursor
<1>14. CASE sending /\ channel # 0
  <2>1. replies' = Append(replies, m) /\ replies' = replies \o <<m>> /\ <<m>> \in Seq(Replies)
        /\ Len(<<m>>) = 1 /\ <<m>>[1] = m
    BY <1>1, <1>4, <1>7, <1>8, <1>9, <1>14, OneMessage
  <2>2. AreReplies(replies', log', store', channel)
    <3>1. IsReply(m, log', store', channel)
      BY <1>4, <1>6, <1>7, <1>9, <1>14 DEF IsReply, Told
    <3>2. AreReplies(<<m>>, log', store', channel)
      BY <2>1, <3>1 DEF AreReplies
    <3>. QED
      BY <1>4, <1>10, <2>1, <3>2, RepliesJoined
  <2>3. Follows(replies', channel, log', store', recovery, asks, cursor, copyRev)
    <3>1. Follows(replies, channel, log, store, recovery, asks, cursor, copyRev)
      BY <1>3, <1>14 DEF FollowInv
    <3>. QED
      BY <1>4, <1>6, <1>9, <2>1, <3>1, FollowsLive
  <2>4. ASSUME listens, NEW j \in SyncKey \ owed'
        PROVE  /\ Replaying => ShownLater(replies', channel, log', store', j, store'[j])
               /\ ~Replaying => ShownNow(replies', copy, j, store'[j])
    <3>1. j # k /\ j \in SyncKey \ owed /\ store'[j] = store[j]
      BY <1>1, <1>4, <2>4 DEF Maps
    <3>2. Stays(<<m>>, j, 0, store[j])
      <4>1. m.type \notin Told /\ m.body.key # j
        BY <1>5, <1>9, <3>1 DEF Told
      <4>. QED
        BY <2>1, <4>1 DEF Stays, Tells
    <3>3. CASE Replaying
      <4>1. ShownLater(replies, channel, log, store, j, store[j])
        BY <1>3, <2>4, <3>1, <3>3 DEF ShownInv
      <4>2. ShownLater(replies, channel, log', store', j, store[j])
        BY <1>2, <1>6, <4>1, ShownLaterGrows
      <4>3. ShownLater(replies', channel, log', store', j, store[j])
        BY <1>4, <2>1, <3>2, <4>2, ShownLaterJoined
      <4>. QED
        BY <3>1, <3>3, <4>3
    <3>4. CASE ~Replaying
      <4>1. ShownNow(replies, copy, j, store[j])
        BY <1>3, <2>4, <3>1, <3>4 DEF ShownInv
      <4>2. ShownNow(replies', copy, j, store[j])
        BY <1>4, <2>1, <3>2, <4>1, ShownNowJoined
      <4>. QED
        BY <3>1, <3>4, <4>2
    <3>. QED
      BY <3>3, <3>4
  <2>5. FollowInv' /\ ShownInv'
    BY <1>1, <2>3, <2>4 DEF FollowInv, ShownInv, Replaying
  <2>. QED
    BY <1>1, <1>6, <1>11, <1>12, <1>13, <2>2, <2>5 DEF SyncInv
<1>15. CASE ~(sending /\ channel # 0)
  <2>1. replies' = replies /\ channel = 0
    BY <1>1, <1>3, <1>15 DEF RequestInv
  <2>2. ~Replaying
    BY <1>3, <2>1 DEF Replaying, PeerInv
  <2>3. ASSUME listens, NEW j \in SyncKey \ owed' PROVE ShownNow(replies', copy, j, store'[j])
    <3>1. j # k /\ j \in SyncKey \ owed /\ store'[j] = store[j]
      BY <1>1, <1>4, <2>3 DEF Maps
    <3>. QED
      BY <1>3, <2>1, <2>2, <2>3, <3>1 DEF ShownInv
  <2>4. FollowInv' /\ ShownInv'
    BY <1>1, <2>1, <2>2, <2>3 DEF FollowInv, ShownInv, Replaying
  <2>. QED
    BY <1>1, <1>6, <1>10, <1>11, <1>12, <1>13, <2>1, <2>4 DEF SyncInv
<1>. QED
  BY <1>14, <1>15

\* A client in a recovery that was answered has the boundary ahead.
LEMMA BoundaryAhead ==
  ASSUME SyncInv, Replaying
  PROVE  channel # 0 /\ \E b \in 1..Len(replies) : IsBoundary(replies[b], channel)
<1>1. channel # 0 /\ channel = asks /\ recovery \in {"awaiting", "consuming"}
  BY DEF SyncInv, SyncTypes, PeerInv, Replaying
<1>2. Follows(replies, channel, log, store, recovery, asks, cursor, copyRev)
  BY <1>1 DEF SyncInv, FollowInv
<1>3. PICK b \in 0..Len(replies) : \E f \in [0..Len(replies) -> 0..Len(log)] :
        /\ Line(replies, channel, log, store, b, f)
        /\ Meets(replies, channel, recovery, asks, cursor, copyRev, b, f)
  BY <1>2 DEF Follows
<1>4. Len(replies) \in Nat
  BY DEF SyncInv, SyncTypes
<1>5. b \in 1..Len(replies)
  BY <1>1, <1>3, <1>4 DEF Meets
<1>6. IsBoundary(replies[b], channel)
  BY <1>3, <1>5 DEF Line
<1>. QED
  BY <1>1, <1>5, <1>6

\* Values of now are sent: they are on the line, and nothing of what they tell is owed.
LEMMA SendsTold ==
  ASSUME SyncInv, NEW s \in Seq(Replies), AreTold(s, store), AreReplies(s, log, store, channel),
         replies' = replies \o s, owed' \subseteq owed,
         \A k \in SyncKey : k \in owed /\ k \notin owed' => \E i \in 1..Len(s) : Tells(s[i], k),
         UNCHANGED <<store, log, channel, listens, recovery, copy, copyRev, cursor, asks>>
  PROVE  /\ replies' \in Seq(Replies) /\ AreReplies(replies', log', store', channel')
         /\ FollowInv' /\ ShownInv'
<1>1. SyncTypes /\ LogInv(log, store) /\ AreReplies(replies, log, store, channel) /\ FollowInv /\ ShownInv
  BY DEF SyncInv
<1>2. store \in Maps /\ log \in Seq(Entries) /\ replies \in Seq(Replies) /\ Len(log) \in Nat
  BY <1>1 DEF SyncTypes
<1>3. replies' \in Seq(Replies) /\ AreReplies(replies', log', store', channel')
  BY <1>1, <1>2, RepliesJoined, ConcatIs
<1>4. FollowInv'
  <2>. SUFFICES ASSUME channel # 0
                PROVE  Follows(replies', channel, log, store, recovery, asks, cursor, copyRev)
    BY DEF FollowInv
  <2>1. Past(log, store, Len(log)) = store
    BY <1>1 DEF LogInv
  <2>2. Follows(replies, channel, log, store, recovery, asks, cursor, copyRev)
    BY <1>1 DEF FollowInv
  <2>. QED
    BY <1>2, <2>1, <2>2, FollowsTold
<1>5. ASSUME listens, NEW k \in SyncKey \ owed'
      PROVE  /\ Replaying => ShownLater(replies', channel, log, store, k, store[k])
             /\ ~Replaying => ShownNow(replies', copy, k, store[k])
  <2>1. Stays(s, k, 0, store[k])
    <3>1. ASSUME NEW i \in 0+1..Len(s)
          PROVE  /\ Tells(s[i], k) => SaidOf(s[i], k) = store[k]
                 /\ s[i].type = "live" => s[i].body.key # k
      <4>1. s[i].type \in Told /\ Agrees(s[i], store)
        BY <3>1 DEF AreTold
      <4>. QED
        BY <1>5, <4>1 DEF Agrees, Told
    <3>. QED
      BY <3>1 DEF Stays
  <2>2. CASE k \notin owed /\ Replaying
    <3>1. ShownLater(replies, channel, log, store, k, store[k])
      BY <1>1, <1>5, <2>2 DEF ShownInv
    <3>2. ShownLater(replies', channel, log, store, k, store[k])
      BY <1>2, <2>1, <3>1, ShownLaterJoined
    <3>. QED
      BY <2>2, <3>2
  <2>3. CASE k \notin owed /\ ~Replaying
    <3>1. ShownNow(replies, copy, k, store[k])
      BY <1>1, <1>5, <2>3 DEF ShownInv
    <3>2. ShownNow(replies', copy, k, store[k])
      BY <1>2, <2>1, <3>1, ShownNowJoined
    <3>. QED
      BY <2>3, <3>2
  <2>4. CASE k \in owed
    <3>1. PICK i \in 1..Len(s) : Tells(s[i], k)
      BY <1>5, <2>4
    <3>2. CASE Replaying
      <4>1. PICK b \in 1..Len(replies) : IsBoundary(replies[b], channel)
        BY <3>2, BoundaryAhead
      <4>2. ShownLater(replies', channel, log, store, k, store[k])
        BY <1>2, <2>1, <3>1, <4>1, ShownLaterSaid
      <4>. QED
        BY <3>2, <4>2
    <3>3. CASE ~Replaying
      <4>1. ShownNow(replies', copy, k, store[k])
        BY <1>2, <2>1, <3>1, ShownNowSaid
      <4>. QED
        BY <3>3, <4>1
    <3>. QED
      BY <3>2, <3>3
  <2>. QED
    BY <2>2, <2>3, <2>4
<1>6. ShownInv'
  BY <1>5 DEF ShownInv, Replaying
<1>. QED
  BY <1>3, <1>4, <1>6

LEMMA Answers ==
  ASSUME SyncInv, ActionAnswered
  PROVE  SyncInv'
<1>1. /\ UNCHANGED <<store, log, paths, sending, channel, requests>>
      /\ UNCHANGED <<listens, recovery, copy, copyRev, cursor, asking, asks>>
      /\ \/ sending /\ replies' = replies \o Syncs /\ owed' = owed \ UNION {Covered(paths[i]) : i \in DOMAIN paths}
         \/ replies' = replies /\ owed' = owed
  BY DEF ActionAnswered, peerVars
<1>2. SyncTypes /\ RequestInv /\ PeerInv /\ LogInv(log, store)
  BY DEF SyncInv
<1>3. paths \in Seq(Paths) /\ store \in Maps /\ DOMAIN paths = 1..Len(paths) /\ Len(paths) \in Nat
  BY <1>2 DEF SyncTypes
<1>4. PICK s : s = Syncs
  OBVIOUS
<1>5. s \in Seq(Replies) /\ Len(s) = Len(paths) /\ \A i \in 1..Len(paths) : s[i] = SyncOf(paths[i])
  <2>1. \A i \in 1..Len(paths) : SyncOf(paths[i]) \in Replies
    BY <1>3, SyncOfIs
  <2>2. s = [i \in 1..Len(paths) |-> SyncOf(paths[i])]
    BY <1>3, <1>4 DEF Syncs
  <2>. QED
    BY <1>3, <2>1, <2>2
<1>6. AreTold(s, store) /\ AreReplies(s, log, store, channel)
  <2>1. ASSUME NEW i \in 1..Len(s)
        PROVE  s[i].type \in Told /\ Agrees(s[i], store) /\ IsReply(s[i], log, store, channel)
    <3>1. s[i] = SyncOf(paths[i]) /\ paths[i] \in Paths
      BY <1>3, <1>5
    <3>. QED
      BY <1>3, <3>1, SyncOfIs
  <2>. QED
    BY <2>1 DEF AreTold, AreReplies
<1>7. CASE sending /\ replies' = replies \o s /\ owed' = owed \ UNION {Covered(paths[i]) : i \in DOMAIN paths}
  <2>1. owed' \subseteq owed
    BY <1>7
  <2>2. \A k \in SyncKey : k \in owed /\ k \notin owed' => \E i \in 1..Len(s) : Tells(s[i], k)
    <3>. SUFFICES ASSUME NEW k \in SyncKey, k \in owed, k \notin owed' PROVE \E i \in 1..Len(s) : Tells(s[i], k)
      OBVIOUS
    <3>1. PICK i \in 1..Len(paths) : k \in Covered(paths[i])
      BY <1>3, <1>7
    <3>2. paths[i] \in Paths /\ s[i] = SyncOf(paths[i]) /\ i \in 1..Len(s)
      BY <1>3, <1>5
    <3>. QED
      BY <1>3, <3>1, <3>2, SyncOfIs
  <2>3. replies' \in Seq(Replies) /\ AreReplies(replies', log', store', channel') /\ FollowInv' /\ ShownInv'
    BY <1>1, <1>5, <1>6, <1>7, <2>1, <2>2, SendsTold
  <2>4. SyncTypes'
    BY <1>1, <1>2, <2>1, <2>3 DEF SyncTypes, NoCursor
  <2>. QED
    BY <1>1, <1>2, <2>3, <2>4 DEF SyncInv, RequestInv, PeerInv, NoCursor
<1>8. CASE replies' = replies /\ owed' = owed
  <2>1. SyncTypes' /\ RequestInv' /\ PeerInv'
    BY <1>1, <1>2, <1>8 DEF SyncTypes, RequestInv, PeerInv, NoCursor
  <2>2. FollowInv' /\ ShownInv'
    BY <1>1, <1>8 DEF SyncInv, FollowInv, ShownInv, Replaying
  <2>. QED
    BY <1>1, <1>8, <2>1, <2>2 DEF SyncInv
<1>. QED
  BY <1>1, <1>4, <1>7, <1>8

\* The request at the head is taken, on a transport that is attached by then.
LEMMA RequestLeft ==
  ASSUME SyncInv, requests # <<>>, requests' = Tail(requests), sending' = TRUE,
         channel' = channel \/ (channel' = requests[1].id /\ requests[1].type = "recover"),
         UNCHANGED <<log, asking, asks, listens>>
  PROVE  RequestInv' /\ requests' \in Seq(Requests)
<1>1. RequestInv /\ SyncTypes
  BY DEF SyncInv
<1>2. requests \in Seq(Requests)
  BY <1>1 DEF SyncTypes
<1>3. /\ requests' \in Seq(Requests) /\ Len(requests') = Len(requests) - 1 /\ Len(requests) \in Nat \ {0}
      /\ \A i \in 1..Len(requests) - 1 : requests'[i] = requests[i + 1]
  BY <1>2, TailIs
<1>4. \A i \in 1..Len(requests') : i + 1 \in 1..Len(requests) /\ 1 < i + 1 /\ requests'[i] = requests[i + 1]
  BY <1>3
<1>5. 1 \in 1..Len(requests)
  BY <1>3
<1>6. \A i \in 1..Len(requests') : requests'[i].id \in 1..asking
  BY <1>1, <1>4 DEF RequestInv
<1>7. ASSUME NEW i \in 1..Len(requests'), requests'[i].type = "recover"
      PROVE  requests'[i].id > channel' /\ requests'[i].id <= asks /\ requests'[i].from \in 0..Len(log) \cup {NoCursor}
  <2>1. i + 1 \in 1..Len(requests) /\ 1 < i + 1 /\ requests'[i] = requests[i + 1]
    BY <1>4
  <2>2. /\ requests[i + 1].id > channel /\ requests[i + 1].id <= asks
        /\ requests[i + 1].from \in 0..Len(log) \cup {NoCursor}
    BY <1>1, <1>7, <2>1 DEF RequestInv
  <2>3. requests[1].id < requests[i + 1].id /\ requests[1].id \in Nat /\ requests[i + 1].id \in Nat
    BY <1>1, <1>5, <2>1 DEF RequestInv
  <2>. QED
    BY <2>1, <2>2, <2>3
<1>8. \A i, j \in 1..Len(requests') : i < j => requests'[i].id < requests'[j].id
  <2>. SUFFICES ASSUME NEW i \in 1..Len(requests'), NEW j \in 1..Len(requests'), i < j
                PROVE  requests'[i].id < requests'[j].id
    OBVIOUS
  <2>1. i + 1 \in 1..Len(requests) /\ j + 1 \in 1..Len(requests) /\ i + 1 < j + 1
    BY <1>4
  <2>2. requests'[i] = requests[i + 1] /\ requests'[j] = requests[j + 1]
    BY <1>4
  <2>. QED
    BY <1>1, <2>1, <2>2 DEF RequestInv
<1>. QED
  BY <1>3, <1>6, <1>7, <1>8 DEF RequestInv, NoCursor

\* What a message is handled on is attached, or is being attached by it.
LEMMA Attached ==
  ASSUME SyncInv, requests # <<>>, Head(requests).type \notin {"attach", "hello"}
  PROVE  sending = TRUE
<1>1. RequestInv /\ SyncTypes
  BY DEF SyncInv
<1>2. requests \in Seq(Requests) /\ sending \in BOOLEAN
  BY <1>1 DEF SyncTypes
<1>3. Head(requests) = requests[1]
  BY <1>2, TailIs
<1>. QED
  BY <1>1, <1>2, <1>3 DEF RequestInv

\* Attaching and unsubscribing send nothing.
LEMMA HandlesQuietly ==
  ASSUME SyncInv, requests # <<>>, requests' = Tail(requests), sending' = TRUE, paths' \in Seq(Paths),
         UNCHANGED <<store, log, channel, replies, owed>>,
         UNCHANGED <<listens, recovery, copy, copyRev, cursor, asking, asks>>
  PROVE  SyncInv'
<1>1. RequestInv' /\ requests' \in Seq(Requests)
  BY RequestLeft
<1>2. SyncTypes'
  BY <1>1 DEF SyncInv, SyncTypes, NoCursor
<1>3. PeerInv' /\ FollowInv' /\ ShownInv'
  BY DEF SyncInv, PeerInv, FollowInv, ShownInv, Replaying, NoCursor
<1>. QED
  BY <1>1, <1>2, <1>3 DEF SyncInv

\* "hello" and subscribe send one value.
LEMMA HandlesTelling ==
  ASSUME SyncInv, requests # <<>>, requests' = Tail(requests), sending' = TRUE, paths' \in Seq(Paths),
         NEW m \in Replies, replies' = Append(replies, m),
         m.type \in Told, Agrees(m, store), IsReply(m, log, store, channel),
         owed' \subseteq owed, \A k \in SyncKey : k \in owed /\ k \notin owed' => Tells(m, k),
         UNCHANGED <<store, log, channel>>,
         UNCHANGED <<listens, recovery, copy, copyRev, cursor, asking, asks>>
  PROVE  SyncInv'
<1>1. RequestInv' /\ requests' \in Seq(Requests)
  BY RequestLeft
<1>2. replies \in Seq(Replies)
  BY DEF SyncInv, SyncTypes
<1>3. PICK s : s = <<m>>
  OBVIOUS
<1>4. s \in Seq(Replies) /\ replies' = replies \o s /\ Len(s) = 1 /\ s[1] = m
  BY <1>2, <1>3, OneMessage
<1>5. AreTold(s, store) /\ AreReplies(s, log, store, channel)
  BY <1>4 DEF AreTold, AreReplies
<1>6. \A k \in SyncKey : k \in owed /\ k \notin owed' => \E i \in 1..Len(s) : Tells(s[i], k)
  BY <1>4
<1>7. replies' \in Seq(Replies) /\ AreReplies(replies', log', store', channel') /\ FollowInv' /\ ShownInv'
  BY <1>4, <1>5, <1>6, SendsTold
<1>8. SyncTypes' /\ PeerInv'
  BY <1>1, <1>7 DEF SyncInv, SyncTypes, PeerInv, NoCursor
<1>. QED
  BY <1>1, <1>7, <1>8 DEF SyncInv

\* What a recovery sends.
LEMMA RecoveryIs ==
  ASSUME SyncInv, NEW r, r.id \in Nat \ {0}, r.from \in 0..Len(log) \cup {NoCursor}, OnRecover(r)
  PROVE  \E s \in Seq(Replies) :
           /\ replies' = replies \o s /\ IsRecovery(s, r.id, Len(log)) /\ AreReplies(s, log, store, r.id)
           /\ \A i \in 1..Len(s) : s[i].type \in Replayed
<1>1. log \in Seq(Entries) /\ replies \in Seq(Replies) /\ Len(log) \in Nat /\ Len(log) <= MaxCommits /\ store \in Maps
  BY DEF SyncInv, SyncTypes
<1>2. Past(log, store, Len(log)) = store
  BY DEF SyncInv, LogInv
<1>3. PICK body : body = IF r.from = NoCursor THEN <<Reply("snapshot", r.id, Len(log), store)>>
                ELSE [i \in 1..(Len(log) - r.from) |-> Reply("body", r.id, r.from + i, log[r.from + i])]
  OBVIOUS
<1>4. PICK plan : plan = Reply("plan", r.id, Len(log), "none")
  OBVIOUS
<1>5. PICK last : last = Reply("caught-up", r.id, Len(log), "none")
  OBVIOUS
<1>6. replies' = replies \o <<plan>> \o body \o <<last>>
  BY <1>3, <1>4, <1>5 DEF OnRecover
<1>7. /\ plan \in Replies /\ plan.type = "plan" /\ plan.id = r.id /\ plan.at = Len(log)
      /\ last \in Replies /\ last.type = "caught-up" /\ last.id = r.id /\ last.at = Len(log)
  BY <1>1, <1>4, <1>5 DEF Reply, Replies, Replayed
<1>8. IsReply(plan, log, store, r.id) /\ IsReply(last, log, store, r.id)
  BY <1>1, <1>7 DEF IsReply, Told
<1>9. /\ body \in Seq(Replies)
      /\ \A i \in 1..Len(body) : body[i].type \in {"body", "snapshot"} /\ IsReply(body[i], log, store, r.id)
  <2>1. CASE r.from = NoCursor
    <3>1. PICK m : m = Reply("snapshot", r.id, Len(log), store)
      OBVIOUS
    <3>2. m \in Replies /\ m.type = "snapshot" /\ m.id = r.id /\ m.at = Len(log) /\ m.body = store
      BY <1>1, <3>1 DEF Reply, Replies, Replayed
    <3>3. IsReply(m, log, store, r.id)
      BY <1>1, <1>2, <3>2 DEF IsReply, Told
    <3>4. body = <<m>>
      BY <1>3, <2>1, <3>1
    <3>5. body \in Seq(Replies) /\ Len(body) = 1 /\ body[1] = m
      BY <3>2, <3>4
    <3>. QED
      BY <3>2, <3>3, <3>5
  <2>2. CASE r.from # NoCursor
    <3>1. r.from \in 0..Len(log)
      BY <2>2
    <3>2. PICK n \in Nat : n = Len(log) - r.from
      BY <1>1, <3>1
    <3>3. body = [i \in 1..n |-> Reply("body", r.id, r.from + i, log[r.from + i])]
      BY <1>3, <2>2, <3>2
    <3>4. ASSUME NEW i \in 1..n
          PROVE  body[i] \in Replies /\ body[i].type = "body" /\ IsReply(body[i], log, store, r.id)
      <4>1. PICK at : at = r.from + i
        OBVIOUS
      <4>2. at \in 1..Len(log) /\ at \in Nat
        BY <1>1, <3>1, <3>2, <3>4, <4>1
      <4>3. log[at] \in Entries
        BY <1>1, <4>2
      <4>4. PICK m : m = body[i]
        OBVIOUS
      <4>5. m = Reply("body", r.id, at, log[at])
        BY <3>3, <3>4, <4>1, <4>4
      <4>6. m \in Replies /\ m.type = "body" /\ m.id = r.id /\ m.at = at /\ m.body = log[at]
        BY <4>2, <4>3, <4>5 DEF Reply, Replies, Replayed
      <4>7. IsReply(m, log, store, r.id)
        BY <4>2, <4>6 DEF IsReply, Told
      <4>. QED
        BY <4>4, <4>6, <4>7
    <3>5. body \in [1..n -> Replies]
      BY <3>3, <3>4
    <3>6. body \in Seq(Replies) /\ Len(body) = n
      BY <3>2, <3>5
    <3>. QED
      BY <3>4, <3>6
  <2>. QED
    BY <2>1, <2>2
<1>10. PICK s : s = <<plan>> \o body \o <<last>>
  OBVIOUS
<1>11. /\ s \in Seq(Replies) /\ Len(s) = Len(body) + 2 /\ Len(body) \in Nat
       /\ s[1] = plan /\ s[Len(s)] = last
       /\ \A i \in 2..Len(s) - 1 : s[i] = body[i - 1] /\ i - 1 \in 1..Len(body)
  BY <1>7, <1>9, <1>10
<1>12. replies' = replies \o s
  <2>1. <<plan>> \in Seq(Replies) /\ <<last>> \in Seq(Replies) /\ <<plan>> \o body \in Seq(Replies)
    BY <1>7, <1>9
  <2>2. replies \o <<plan>> \o body = replies \o (<<plan>> \o body)
    BY <1>1, <1>9, <2>1, ConcatAssociative
  <2>3. replies \o (<<plan>> \o body) \o <<last>> = replies \o (<<plan>> \o body \o <<last>>)
    BY <1>1, <2>1, ConcatAssociative
  <2>. QED
    BY <1>6, <1>10, <2>2, <2>3
<1>13. IsRecovery(s, r.id, Len(log))
  BY <1>7, <1>9, <1>11 DEF IsRecovery, IsBoundary
<1>14. ASSUME NEW i \in 1..Len(s) PROVE IsReply(s[i], log, store, r.id) /\ s[i].type \in Replayed
  <2>1. i = 1 \/ i = Len(s) \/ i \in 2..Len(s) - 1
    BY <1>11, <1>14
  <2>2. CASE i = 1
    BY <1>7, <1>8, <1>11, <2>2 DEF Replayed
  <2>3. CASE i = Len(s)
    BY <1>7, <1>8, <1>11, <2>3 DEF Replayed
  <2>4. CASE i \in 2..Len(s) - 1
    <3>1. s[i] = body[i - 1] /\ i - 1 \in 1..Len(body)
      BY <1>11, <2>4
    <3>. QED
      BY <1>9, <3>1 DEF Replayed
  <2>. QED
    BY <2>1, <2>2, <2>3, <2>4
<1>. QED
  BY <1>11, <1>12, <1>13, <1>14 DEF AreReplies

LEMMA Recovers ==
  ASSUME SyncInv, HandleMessage, Head(requests).type = "recover", OnRecover(Head(requests))
  PROVE  SyncInv'
<1>1. PICK r : r = requests[1]
  OBVIOUS
<1>2. /\ requests # <<>> /\ requests' = Tail(requests)
      /\ UNCHANGED <<store, log, listens, recovery, copy, copyRev, cursor, asking, asks>>
  BY DEF HandleMessage, peerVars
<1>3. SyncTypes /\ RequestInv /\ PeerInv /\ AreReplies(replies, log, store, channel) /\ ShownInv /\ LogInv(log, store)
  BY DEF SyncInv
<1>4. requests \in Seq(Requests) /\ replies \in Seq(Replies) /\ channel \in Nat /\ Len(log) \in Nat
  BY <1>3 DEF SyncTypes
<1>5. Head(requests) = r /\ 1 \in 1..Len(requests)
  BY <1>1, <1>2, <1>4, TailIs
<1>6. channel' = r.id /\ OnRecover(r) /\ UNCHANGED <<paths, sending, owed>> /\ r.type = "recover"
  BY <1>5 DEF OnRecover
<1>7. sending = TRUE
  BY <1>2, <1>5, <1>6, Attached
<1>8. RequestInv' /\ requests' \in Seq(Requests)
  BY <1>1, <1>2, <1>6, <1>7, RequestLeft
<1>9. r.id > channel /\ r.id <= asks /\ r.from \in 0..Len(log) \cup {NoCursor} /\ r.id \in 1..asking
  BY <1>1, <1>3, <1>5, <1>6 DEF RequestInv
<1>10. r.id \in Nat \ {0} /\ asks \in Nat /\ channel # asks /\ channel <= r.id
  BY <1>3, <1>4, <1>9 DEF SyncTypes
<1>11. recovery \notin {"consuming", "caught-up"} /\ ~Replaying
  BY <1>3, <1>10 DEF PeerInv, Replaying
<1>12. PICK s \in Seq(Replies) :
         /\ replies' = replies \o s /\ IsRecovery(s, r.id, Len(log)) /\ AreReplies(s, log, store, r.id)
         /\ \A i \in 1..Len(s) : s[i].type \in Replayed
  BY <1>6, <1>9, <1>10, RecoveryIs
<1>13. replies' \in Seq(Replies) /\ Len(replies') = Len(replies) + Len(s) /\ Len(s) \in Nat /\ Len(replies) \in Nat
  BY <1>4, <1>12, ConcatIs
<1>14. AreReplies(replies', log, store, r.id)
  <2>1. AreReplies(replies, log, store, r.id)
    BY <1>3, <1>4, <1>10, RepliesKept
  <2>. QED
    BY <1>4, <1>12, <2>1, RepliesJoined
<1>15. SyncTypes'
  BY <1>2, <1>3, <1>6, <1>8, <1>9, <1>10, <1>13 DEF SyncTypes, NoCursor
<1>16. PeerInv'
  BY <1>2, <1>3, <1>6, <1>11 DEF PeerInv, NoCursor
<1>17. Follows(replies', r.id, log, store, recovery, asks, cursor, copyRev)
  <2>1. channel < r.id
    BY <1>4, <1>9, <1>10
  <2>. QED
    BY <1>3, <1>4, <1>10, <1>11, <1>12, <2>1, FollowsRecovery
<1>18. ASSUME listens, NEW k \in SyncKey \ owed
       PROVE  ShownLater(replies', r.id, log, store, k, store[k]) /\ ShownNow(replies', copy, k, store[k])
  <2>1. Stays(s, k, 0, store[k])
    <3>1. ASSUME NEW i \in 0+1..Len(s) PROVE s[i].type \notin Told /\ s[i].type # "live"
      <4>1. s[i].type \in Replayed
        BY <1>12, <3>1
      <4>. QED
        BY <4>1 DEF Told, Replayed
    <3>. QED
      BY <3>1 DEF Stays, Tells
  <2>2. ShownNow(replies, copy, k, store[k])
    BY <1>3, <1>11, <1>18 DEF ShownInv
  <2>3. ShownNow(replies', copy, k, store[k])
    BY <1>4, <1>12, <2>1, <2>2, ShownNowJoined
  <2>4. PICK n : n = Len(replies')
    OBVIOUS
  <2>5. n \in 1..Len(replies') /\ n \in n..Len(replies') /\ replies'[n] = s[Len(s)]
    <3>1. Len(s) >= 2
      BY <1>12 DEF IsRecovery
    <3>. QED
      BY <1>4, <1>12, <1>13, <2>4, <3>1, ConcatIs
  <2>6. IsBoundary(replies'[n], r.id) /\ Past(log, store, replies'[n].at)[k] = store[k]
    BY <1>3, <1>12, <2>5 DEF IsRecovery, LogInv
  <2>7. Stays(replies', k, n, store[k])
    BY <1>13, <2>4 DEF Stays
  <2>8. ShownLater(replies', r.id, log, store, k, store[k])
    BY <2>5, <2>6, <2>7 DEF ShownLater
  <2>. QED
    BY <2>3, <2>8
<1>19. FollowInv' /\ ShownInv'
  BY <1>2, <1>6, <1>17, <1>18 DEF FollowInv, ShownInv, Replaying
<1>. QED
  BY <1>2, <1>3, <1>6, <1>8, <1>14, <1>15, <1>16, <1>19 DEF SyncInv

LEMMA Handles ==
  ASSUME SyncInv, HandleMessage
  PROVE  SyncInv'
<1>1. PICK r : r = Head(requests)
  OBVIOUS
<1>2. /\ requests # <<>> /\ requests' = Tail(requests)
      /\ UNCHANGED <<store, log, listens, recovery, copy, copyRev, cursor, asking, asks>>
      /\ \/ r.type = "attach" /\ OnAttach(r)
         \/ r.type = "hello" /\ OnHello(r)
         \/ r.type = "subscribe" /\ OnSubscribe(r)
         \/ r.type = "unsubscribe" /\ OnUnsubscribe(r)
         \/ r.type = "recover" /\ OnRecover(r)
  BY <1>1 DEF HandleMessage, peerVars
<1>3. SyncTypes
  BY DEF SyncInv
<1>4. /\ requests \in Seq(Requests) /\ replies \in Seq(Replies) /\ store \in Maps
      /\ paths \in Seq(Paths) /\ sending \in BOOLEAN
  BY <1>3 DEF SyncTypes
<1>5. r \in Requests /\ r.path \in Paths
  <2>1. r \in Requests
    BY <1>1, <1>2, <1>4, TailIs
  <2>. QED
    BY <2>1 DEF Requests
<1>6. CASE r.type = "attach" /\ OnAttach(r)
  BY <1>2, <1>4, <1>6, HandlesQuietly DEF OnAttach
<1>7. CASE r.type = "hello" /\ OnHello(r)
  <2>1. PICK m : m = Reply("hello", 0, RootPath, store)
    OBVIOUS
  <2>2. m.type = "hello" /\ m.at = RootPath /\ m.body = store /\ m \in Replies
    BY <1>4, <2>1 DEF Reply, Replies, Told, Paths
  <2>3. m.type \in Told /\ Agrees(m, store) /\ IsReply(m, log, store, channel) /\ \A k \in SyncKey : Tells(m, k)
    BY <1>4, <2>2 DEF Told, Agrees, SaidOf, IsReply, Tells, Covered, Paths
  <2>4. /\ sending' = TRUE /\ replies' = Append(replies, m) /\ owed' = {} /\ paths' = paths /\ channel' = channel
    BY <1>7, <2>1 DEF OnHello
  <2>. QED
    BY <1>2, <1>4, <2>2, <2>3, <2>4, HandlesTelling
<1>8. CASE r.type = "subscribe" /\ OnSubscribe(r)
  <2>1. sending = TRUE
    BY <1>1, <1>2, <1>8, Attached
  <2>2. /\ paths' = (IF Contains(paths, r.path) THEN paths ELSE Append(paths, r.path))
        /\ replies' = Append(replies, SyncOf(r.path)) /\ owed' = owed \ Covered(r.path)
        /\ UNCHANGED <<sending, channel>>
    BY <1>8 DEF OnSubscribe
  <2>3. paths' \in Seq(Paths)
    BY <1>4, <1>5, <2>2
  <2>4. PICK m : m = SyncOf(r.path)
    OBVIOUS
  <2>5. /\ m \in Replies /\ m.type \in Told /\ IsReply(m, log, store, channel)
        /\ Agrees(m, store) /\ \A k : Tells(m, k) <=> k \in Covered(r.path)
    BY <1>4, <1>5, <2>4, SyncOfIs
  <2>6. owed' \subseteq owed /\ \A k \in SyncKey : k \in owed /\ k \notin owed' => Tells(m, k)
    BY <2>2, <2>5
  <2>. QED
    BY <1>2, <2>1, <2>2, <2>3, <2>4, <2>5, <2>6, HandlesTelling
<1>9. CASE r.type = "unsubscribe" /\ OnUnsubscribe(r)
  <2>1. sending = TRUE
    BY <1>1, <1>2, <1>9, Attached
  <2>2. paths' \in Seq(Paths)
    <3>1. CASE UNCHANGED paths
      BY <1>4, <3>1
    <3>2. ASSUME NEW i \in DOMAIN paths, paths' = RemoveAt(paths, i) PROVE paths' \in Seq(Paths)
      <4>1. i \in 1..Len(paths) /\ Len(paths) \in Nat
        BY <1>4, <3>2
      <4>2. SubSeq(paths, 1, i - 1) \in Seq(Paths) /\ SubSeq(paths, i + 1, Len(paths)) \in Seq(Paths)
        BY <1>4, <4>1
      <4>. QED
        BY <3>2, <4>2 DEF RemoveAt
    <3>. QED
      BY <1>9, <3>1, <3>2 DEF OnUnsubscribe
  <2>. QED
    BY <1>2, <1>9, <2>1, <2>2, HandlesQuietly DEF OnUnsubscribe
<1>10. CASE r.type = "recover" /\ OnRecover(r)
  BY <1>1, <1>10, Recovers
<1>. QED
  BY <1>2, <1>6, <1>7, <1>8, <1>9, <1>10
-----------------------------------------------------------------------------
(* The client *)

\* A message is added behind the others, under the next number.
LEMMA RequestAdded ==
  ASSUME SyncInv, NEW type, NEW path \in Paths, Ask(type, path),
         type \in {"attach", "hello", "subscribe", "unsubscribe", "recover"},
         type = "recover" => asks' = asking + 1, type # "recover" => asks' = asks,
         listens' = TRUE, listens = FALSE => sending = FALSE /\ type \in {"attach", "hello"},
         UNCHANGED <<log, sending, channel, cursor, owed>>
  PROVE  RequestInv' /\ requests' \in Seq(Requests) /\ asking' \in Nat /\ asks' \in Nat
         /\ channel' <= asks' /\ asks' <= asking' /\ asks <= asks'
<1>1. SyncTypes /\ RequestInv
  BY DEF SyncInv
<1>2. /\ requests \in Seq(Requests) /\ asking \in Nat /\ asks \in Nat /\ channel \in Nat
      /\ channel <= asks /\ asks <= asking /\ Len(log) \in Nat /\ cursor \in 0..Len(log) \cup {NoCursor}
      /\ listens \in BOOLEAN /\ sending \in BOOLEAN
  BY <1>1 DEF SyncTypes
<1>3. PICK r : r = Asked(type, path)
  OBVIOUS
<1>4. r.type = type /\ r.id = asking + 1 /\ r.from = cursor /\ r.path = path
  BY <1>3 DEF Asked
<1>5. NoCursor \in Nat
  BY SyncAssumption DEF NoCursor
<1>6. r \in Requests
  BY <1>2, <1>3, <1>5 DEF Asked, Requests
<1>7. requests' = Append(requests, r) /\ asking' = asking + 1
  BY <1>3 DEF Ask
<1>8. /\ requests' \in Seq(Requests) /\ Len(requests') = Len(requests) + 1 /\ Len(requests) \in Nat
      /\ requests'[Len(requests')] = r /\ \A i \in 1..Len(requests) : requests'[i] = requests[i]
  BY <1>2, <1>6, <1>7
<1>9. asking' \in Nat /\ asks' \in Nat /\ channel' <= asks' /\ asks' <= asking' /\ asks <= asks'
  <2>1. asks' = asks \/ asks' = asking + 1
    OBVIOUS
  <2>. QED
    BY <1>2, <1>7, <2>1
<1>10. \A i \in 1..Len(requests') : i \in 1..Len(requests) \/ i = Len(requests')
  BY <1>8
<1>11. \A i \in 1..Len(requests) : requests[i].id \in 1..asking
  BY <1>1 DEF RequestInv
<1>12. ASSUME NEW i \in 1..Len(requests') PROVE requests'[i].id \in 1..asking'
  <2>1. CASE i \in 1..Len(requests)
    BY <1>2, <1>7, <1>8, <1>11, <2>1
  <2>2. CASE i = Len(requests')
    BY <1>2, <1>4, <1>7, <1>8, <2>2
  <2>. QED
    BY <1>10, <2>1, <2>2
<1>13. ASSUME NEW i \in 1..Len(requests'), requests'[i].type = "recover"
       PROVE  /\ requests'[i].id > channel /\ requests'[i].id <= asks'
              /\ requests'[i].from \in 0..Len(log) \cup {NoCursor}
  <2>1. CASE i \in 1..Len(requests)
    <3>1. /\ requests[i].id > channel /\ requests[i].id <= asks /\ requests[i].id \in Nat
          /\ requests[i].from \in 0..Len(log) \cup {NoCursor}
      BY <1>1, <1>8, <1>11, <1>13, <2>1 DEF RequestInv
    <3>. QED
      BY <1>2, <1>8, <1>9, <2>1, <3>1
  <2>2. CASE i = Len(requests')
    <3>1. type = "recover" /\ requests'[i] = r /\ r.id = asks'
      BY <1>4, <1>8, <1>13, <2>2
    <3>. QED
      BY <1>2, <1>4, <3>1
  <2>. QED
    BY <1>10, <2>1, <2>2
<1>14. ASSUME NEW i \in 1..Len(requests'), NEW j \in 1..Len(requests'), i < j
       PROVE  requests'[i].id < requests'[j].id
  <2>1. i \in 1..Len(requests)
    BY <1>8, <1>14
  <2>2. CASE j \in 1..Len(requests)
    BY <1>1, <1>8, <1>14, <2>1, <2>2 DEF RequestInv
  <2>3. CASE j = Len(requests')
    BY <1>2, <1>4, <1>8, <1>11, <2>1, <2>3
  <2>. QED
    BY <1>10, <2>2, <2>3
<1>15. ~sending => requests' # <<>> /\ requests'[1].type \in {"attach", "hello"}
  <2>. SUFFICES ASSUME ~sending PROVE requests' # <<>> /\ requests'[1].type \in {"attach", "hello"}
    OBVIOUS
  <2>1. Len(requests') # 0
    BY <1>8
  <2>2. CASE listens
    <3>1. requests # <<>> /\ requests[1].type \in {"attach", "hello"}
      BY <1>1, <2>2 DEF RequestInv
    <3>2. 1 \in 1..Len(requests)
      BY <1>2, <3>1
    <3>. QED
      BY <1>8, <2>1, <3>1, <3>2
  <2>3. CASE ~listens
    <3>1. requests = <<>>
      BY <1>1, <2>3 DEF RequestInv
    <3>2. Len(requests) = 0
      BY <3>1
    <3>3. Len(requests') = 1
      BY <1>8, <3>2
    <3>4. requests'[1] = r
      BY <1>8, <3>3
    <3>. QED
      BY <1>2, <1>4, <2>1, <2>3, <3>4
  <2>. QED
    BY <2>2, <2>3
<1>16. RequestInv'
  <2>1. ~sending => channel = 0 /\ owed = SyncKey
    BY <1>1 DEF RequestInv
  <2>. QED
    BY <1>12, <1>13, <1>14, <1>15, <2>1 DEF RequestInv, NoCursor
<1>. QED
  BY <1>8, <1>9, <1>16

LEMMA ConnectsPeer ==
  ASSUME SyncInv, ConnectPeer
  PROVE  SyncInv'
<1>1. /\ ~listens /\ ~sending /\ listens' = TRUE /\ recovery' = "idle"
      /\ Ask(IF plain THEN "hello" ELSE "attach", RootPath)
      /\ UNCHANGED <<store, log, paths, sending, channel, replies, copy, copyRev, cursor, asks, owed>>
  BY DEF ConnectPeer, hostVars
<1>2. PICK type : type = IF plain THEN "hello" ELSE "attach"
  OBVIOUS
<1>3. type \in {"hello", "attach"} /\ type # "recover" /\ Ask(type, RootPath) /\ RootPath \in Paths
  BY <1>1, <1>2 DEF Paths
<1>4. SyncTypes /\ RequestInv /\ PeerInv
  BY DEF SyncInv
<1>5. sending = FALSE
  BY <1>1, <1>4 DEF SyncTypes
<1>6. RequestInv' /\ requests' \in Seq(Requests) /\ asking' \in Nat /\ asks' <= asking'
  BY <1>1, <1>3, <1>5, RequestAdded
<1>7. SyncTypes'
  BY <1>1, <1>4, <1>6 DEF SyncTypes, NoCursor
<1>8. PeerInv'
  BY <1>1, <1>4 DEF PeerInv, NoCursor
<1>9. FollowInv' /\ ShownInv'
  BY <1>1, <1>4 DEF RequestInv, FollowInv, ShownInv
<1>. QED
  BY <1>1, <1>6, <1>7, <1>8, <1>9 DEF SyncInv

LEMMA AsksRecovery ==
  ASSUME SyncInv, AskRecovery
  PROVE  SyncInv'
<1>1. /\ listens /\ recovery \in {"idle", "caught-up"} /\ recovery' = "awaiting"
      /\ Ask("recover", RootPath) /\ asks' = asking + 1
      /\ UNCHANGED <<store, log, paths, sending, channel, replies, listens, copy, copyRev, cursor, owed>>
  BY DEF AskRecovery, hostVars
<1>2. SyncTypes /\ PeerInv /\ FollowInv /\ ShownInv
  BY DEF SyncInv
<1>3. listens = TRUE /\ RootPath \in Paths
  BY <1>1, <1>2 DEF SyncTypes, Paths
<1>4. RequestInv' /\ requests' \in Seq(Requests) /\ asking' \in Nat /\ asks' \in Nat
      /\ channel' <= asks' /\ asks' <= asking'
  BY <1>1, <1>3, RequestAdded
<1>5. asks' # channel /\ asks' > 0
  BY <1>1, <1>2 DEF SyncTypes
<1>6. SyncTypes'
  BY <1>1, <1>2, <1>4 DEF SyncTypes, NoCursor
<1>7. PeerInv'
  BY <1>1, <1>2, <1>5 DEF PeerInv, NoCursor
<1>8. FollowInv'
  <2>. SUFFICES ASSUME channel # 0
                PROVE  Follows(replies, channel, log, store, recovery', asks', cursor, copyRev)
    BY <1>1 DEF FollowInv
  <2>1. Follows(replies, channel, log, store, recovery, asks, cursor, copyRev)
    BY <1>2 DEF FollowInv
  <2>. QED
    BY <1>1, <1>5, <2>1, StaysOnLine
<1>9. ~Replaying /\ channel' # asks'
  BY <1>1, <1>5 DEF Replaying
<1>10. ShownInv'
  BY <1>1, <1>2, <1>9 DEF ShownInv, Replaying
<1>. QED
  BY <1>1, <1>4, <1>6, <1>7, <1>8, <1>10 DEF SyncInv

LEMMA AsksPath ==
  ASSUME SyncInv, AskPath
  PROVE  SyncInv'
<1>1. /\ listens
      /\ \E type \in {"subscribe", "unsubscribe"}, p \in SyncPath : Ask(type, p)
      /\ UNCHANGED <<store, log, paths, sending, channel, replies>>
      /\ UNCHANGED <<listens, recovery, copy, copyRev, cursor, asks, owed>>
  BY DEF AskPath, hostVars
<1>2. SyncTypes
  BY DEF SyncInv
<1>3. PICK type \in {"subscribe", "unsubscribe"}, p \in SyncPath : Ask(type, p)
  BY <1>1
<1>4. listens = TRUE /\ p \in Paths /\ type # "recover"
  BY <1>1, <1>2 DEF SyncTypes, Paths
<1>5. RequestInv' /\ requests' \in Seq(Requests) /\ asking' \in Nat /\ asks' <= asking'
  BY <1>1, <1>3, <1>4, RequestAdded
<1>6. SyncTypes'
  BY <1>1, <1>2, <1>5 DEF SyncTypes, NoCursor
<1>7. PeerInv' /\ FollowInv' /\ ShownInv'
  BY <1>1 DEF SyncInv, PeerInv, FollowInv, ShownInv, Replaying, NoCursor
<1>. QED
  BY <1>1, <1>5, <1>6, <1>7 DEF SyncInv

\* Nothing is owed any more to a client that starts anew.
LEMMA StopsOrListens ==
  ASSUME SyncInv, StopListening \/ ListenAgain
  PROVE  SyncInv'
<1>1. /\ sending /\ owed' = SyncKey /\ recovery' \in {"disconnected", "idle"} /\ listens' \in BOOLEAN
      /\ UNCHANGED <<store, log, paths, sending, channel, requests, replies>>
      /\ UNCHANGED <<copy, copyRev, cursor, asking, asks>>
  BY DEF StopListening, ListenAgain, hostVars
<1>2. SyncTypes /\ RequestInv /\ PeerInv /\ FollowInv
  BY DEF SyncInv
<1>3. SyncTypes' /\ RequestInv' /\ PeerInv'
  BY <1>1, <1>2 DEF SyncTypes, RequestInv, PeerInv, NoCursor
<1>4. FollowInv'
  <2>. SUFFICES ASSUME channel # 0
                PROVE  Follows(replies, channel, log, store, recovery', asks, cursor, copyRev)
    BY <1>1 DEF FollowInv
  <2>1. Follows(replies, channel, log, store, recovery, asks, cursor, copyRev)
    BY <1>2 DEF FollowInv
  <2>. QED
    BY <1>1, <2>1, StaysOnLine
<1>5. ShownInv'
  BY <1>1 DEF ShownInv
<1>. QED
  BY <1>1, <1>3, <1>4, <1>5 DEF SyncInv

LEMMA LosesTransport ==
  ASSUME SyncInv, LoseTransport
  PROVE  SyncInv'
<1>1. /\ sending' = FALSE /\ channel' = 0 /\ requests' = <<>> /\ replies' = <<>>
      /\ paths' = (IF plain THEN <<>> ELSE paths)
      /\ listens' = FALSE /\ recovery' = "disconnected" /\ owed' = SyncKey
      /\ UNCHANGED <<store, log, copy, copyRev, cursor, asking, asks>>
  BY DEF LoseTransport
<1>2. SyncTypes /\ PeerInv
  BY DEF SyncInv
<1>3. paths' \in Seq(Paths) /\ requests' \in Seq(Requests) /\ replies' \in Seq(Replies) /\ Len(requests') = 0
      /\ Len(replies') = 0
  BY <1>1, <1>2 DEF SyncTypes
<1>4. channel' \in Nat /\ channel' <= asks'
  BY <1>1, <1>2 DEF SyncTypes
<1>5. SyncTypes'
  BY <1>1, <1>2, <1>3, <1>4 DEF SyncTypes, NoCursor
<1>6. RequestInv'
  BY <1>1, <1>3 DEF RequestInv
<1>7. PeerInv'
  BY <1>1, <1>2 DEF PeerInv, NoCursor
<1>8. FollowInv' /\ ShownInv' /\ AreReplies(replies', log', store', channel')
  BY <1>1, <1>3 DEF FollowInv, ShownInv, AreReplies
<1>. QED
  BY <1>1, <1>5, <1>6, <1>7, <1>8 DEF SyncInv
-----------------------------------------------------------------------------
(* The client receives *)

LEMMA FollowsAway ==
  ASSUME NEW q \in Seq(Replies), q # <<>>, NEW ch, NEW lg, NEW st, Len(lg) \in Nat,
         NEW rec, NEW ask, NEW cur, NEW rev, Follows(q, ch, lg, st, rec, ask, cur, rev),
         NEW rec2, NEW cur2, NEW rev2, rec2 \notin {"consuming", "caught-up"}, rec2 = "awaiting" => ask # ch
  PROVE  Follows(Tail(q), ch, lg, st, rec2, ask, cur2, rev2)
<1>1. PICK b \in 0..Len(q), f \in [0..Len(q) -> 0..Len(lg)] : Line(q, ch, lg, st, b, f)
  BY DEF Follows
<1>2. PICK c : c = IF b = 0 THEN 0 ELSE b - 1
  OBVIOUS
<1>3. c \in 0..Len(Tail(q)) /\ \E g \in [0..Len(Tail(q)) -> 0..Len(lg)] : Line(Tail(q), ch, lg, st, c, g)
  BY <1>1, <1>2, LineTail
<1>4. \A g : Meets(Tail(q), ch, rec2, ask, cur2, rev2, c, g)
  BY DEF Meets
<1>. QED
  BY <1>3, <1>4 DEF Follows

\* Before the boundary: a plan is waited for, or was taken, and it is still ahead.
LEMMA FollowsReplay ==
  ASSUME NEW q \in Seq(Replies), q # <<>>, NEW ch, NEW lg, NEW st, Len(lg) \in Nat,
         NEW rec, NEW ask, NEW cur, NEW rev, Follows(q, ch, lg, st, rec, ask, cur, rev),
         ask = ch, rec \in {"awaiting", "consuming"}, NEW rec2, NEW cur2, NEW rev2,
         ~IsBoundary(q[1], ch),
         rec2 \in {"awaiting", "consuming"},
         rec2 = "awaiting" => rec = "awaiting" /\ ~(q[1].type = "plan" /\ q[1].id = ch)
  PROVE  Follows(Tail(q), ch, lg, st, rec2, ask, cur2, rev2)
<1>1. PICK b \in 0..Len(q), f \in [0..Len(q) -> 0..Len(lg)] :
        Line(q, ch, lg, st, b, f) /\ Meets(q, ch, rec, ask, cur, rev, b, f)
  BY DEF Follows
<1>2. PICK c : c = IF b = 0 THEN 0 ELSE b - 1
  OBVIOUS
<1>3. Line(q, ch, lg, st, b, f)
  BY <1>1
<1>4. c \in 0..Len(Tail(q)) /\ \E g \in [0..Len(Tail(q)) -> 0..Len(lg)] : Line(Tail(q), ch, lg, st, c, g)
  BY <1>2, <1>3, LineTail
<1>5. /\ Len(Tail(q)) = Len(q) - 1 /\ Len(q) \in Nat \ {0}
      /\ \A i \in 1..Len(q) - 1 : Tail(q)[i] = q[i + 1]
  BY TailIs
<1>6. b > 0
  BY <1>1, <1>5 DEF Meets
<1>7. b # 1
  <2>1. 1 \in 1..Len(q)
    BY <1>5
  <2>. QED
    BY <1>3, <2>1 DEF Line
<1>8. c > 0 /\ c = b - 1
  BY <1>2, <1>6, <1>7
<1>9. rec2 = "awaiting" => \E p \in 1..c : Tail(q)[p].type = "plan" /\ Tail(q)[p].id = ch
  <2>. SUFFICES ASSUME rec2 = "awaiting"
                PROVE  \E p \in 1..c : Tail(q)[p].type = "plan" /\ Tail(q)[p].id = ch
    OBVIOUS
  <2>1. PICK p \in 1..b : q[p].type = "plan" /\ q[p].id = ch
    BY <1>1 DEF Meets
  <2>2. p # 1
    BY <2>1
  <2>3. p - 1 \in 1..c /\ Tail(q)[p - 1] = q[p]
    BY <1>5, <1>8, <2>2
  <2>. QED
    BY <2>1, <2>3
<1>10. \A g : Meets(Tail(q), ch, rec2, ask, cur2, rev2, c, g)
  BY <1>8, <1>9 DEF Meets
<1>. QED
  BY <1>4, <1>10 DEF Follows

\* A client in a recovery finds no boundary before its plan.
LEMMA PlanFirst ==
  ASSUME NEW q \in Seq(Replies), q # <<>>, NEW ch, NEW lg, NEW st,
         NEW cur, NEW rev, Follows(q, ch, lg, st, "awaiting", ch, cur, rev)
  PROVE  ~IsBoundary(q[1], ch)
<1>. SUFFICES ASSUME IsBoundary(q[1], ch) PROVE FALSE
  OBVIOUS
<1>1. PICK b \in 0..Len(q), f \in [0..Len(q) -> 0..Len(lg)] :
        Line(q, ch, lg, st, b, f) /\ Meets(q, ch, "awaiting", ch, cur, rev, b, f)
  BY DEF Follows
<1>2. 1 \in 1..Len(q)
  BY TailIs
<1>3. b = 1
  BY <1>1, <1>2 DEF Line
<1>4. PICK p \in 1..b : q[p].type = "plan"
  BY <1>1 DEF Meets
<1>5. p = 1
  BY <1>3, <1>4
<1>. QED
  BY <1>4, <1>5 DEF IsBoundary

\* At the boundary the line begins at the commit that it names.
LEMMA BoundaryLine ==
  ASSUME NEW q \in Seq(Replies), q # <<>>, NEW ch, NEW lg, NEW st, Len(lg) \in Nat,
         NEW rec, NEW ask, NEW cur, NEW rev, Follows(q, ch, lg, st, rec, ask, cur, rev),
         IsBoundary(q[1], ch)
  PROVE  /\ 0 \in 0..Len(Tail(q))
         /\ \E g \in [0..Len(Tail(q)) -> 0..Len(lg)] : g[0] = q[1].at /\ Line(Tail(q), ch, lg, st, 0, g)
         /\ \A i \in 1..Len(q) : IsBoundary(q[i], ch) => i = 1
<1>1. PICK b \in 0..Len(q), f \in [0..Len(q) -> 0..Len(lg)] : Line(q, ch, lg, st, b, f)
  BY DEF Follows
<1>2. 1 \in 1..Len(q)
  BY TailIs
<1>3. b = 1 /\ \A i \in 1..Len(q) : IsBoundary(q[i], ch) => i = 1
  BY <1>1, <1>2 DEF Line
<1>4. 0 = IF b = 0 THEN 0 ELSE b - 1
  BY <1>3
<1>5. PICK c : c = IF b = 0 THEN 0 ELSE b - 1
  OBVIOUS
<1>6. c = 0
  BY <1>4, <1>5
<1>7. Line(q, ch, lg, st, b, f)
  BY <1>1
<1>8. c \in 0..Len(Tail(q)) /\ \E g \in [0..Len(Tail(q)) -> 0..Len(lg)] : g[0] = f[1] /\ Line(Tail(q), ch, lg, st, c, g)
  BY <1>5, <1>7, LineTail
<1>9. f[1] = q[1].at
  BY <1>1, <1>3 DEF Line
<1>. QED
  BY <1>3, <1>6, <1>8, <1>9

\* The boundary is taken at the cursor.
LEMMA FollowsBoundary ==
  ASSUME NEW q \in Seq(Replies), q # <<>>, NEW ch, NEW lg, NEW st, Len(lg) \in Nat,
         NEW rec, NEW ask, NEW cur, NEW rev, Follows(q, ch, lg, st, rec, ask, cur, rev),
         IsBoundary(q[1], ch), cur = q[1].at, rev = cur
  PROVE  /\ Follows(Tail(q), ch, lg, st, "caught-up", ask, cur, rev)
         /\ \A i \in 1..Len(q) : IsBoundary(q[i], ch) => i = 1
<1>1. /\ 0 \in 0..Len(Tail(q))
      /\ \E g \in [0..Len(Tail(q)) -> 0..Len(lg)] : g[0] = q[1].at /\ Line(Tail(q), ch, lg, st, 0, g)
      /\ \A i \in 1..Len(q) : IsBoundary(q[i], ch) => i = 1
  BY BoundaryLine
<1>2. \A g : g[0] = q[1].at => Meets(Tail(q), ch, "caught-up", ask, cur, rev, 0, g)
  BY DEF Meets
<1>. QED
  BY <1>1, <1>2 DEF Follows

\* What comes after the boundary is the next commit or tells nothing new.
LEMMA FollowsCaughtUp ==
  ASSUME NEW q \in Seq(Replies), q # <<>>, NEW ch, NEW lg, NEW st, Len(lg) \in Nat,
         NEW ask, NEW cur, NEW rev, Follows(q, ch, lg, st, "caught-up", ask, cur, rev)
  PROVE  /\ cur \in 0..Len(lg) /\ rev = cur /\ q[1].type \notin Replayed
         /\ q[1].type = "live" =>
              /\ q[1].id = ch /\ q[1].at = cur + 1
              /\ Follows(Tail(q), ch, lg, st, "caught-up", ask, cur + 1, cur + 1)
         /\ q[1].type # "live" =>
              /\ Agrees(q[1], Past(lg, st, cur))
              /\ Follows(Tail(q), ch, lg, st, "caught-up", ask, cur, rev)
<1>1. PICK b \in 0..Len(q), f \in [0..Len(q) -> 0..Len(lg)] :
        Line(q, ch, lg, st, b, f) /\ Meets(q, ch, "caught-up", ask, cur, rev, b, f)
  BY DEF Follows
<1>2. b = 0 /\ cur = f[0] /\ rev = cur
  BY <1>1 DEF Meets
<1>3. Len(q) \in Nat \ {0}
  BY TailIs
<1>4. 1 \in b+1..Len(q) /\ 0 \in 0..Len(q) /\ 1 - 1 = 0
  BY <1>2, <1>3
<1>5. /\ q[1].type \notin Replayed
      /\ q[1].type = "live" => q[1].id = ch /\ q[1].at = f[1] /\ f[1] = f[0] + 1
      /\ q[1].type # "live" => f[1] = f[0] /\ Agrees(q[1], Past(lg, st, f[1]))
  BY <1>1, <1>4 DEF Line
<1>6. PICK c : c = IF b = 0 THEN 0 ELSE b - 1
  OBVIOUS
<1>7. Line(q, ch, lg, st, b, f)
  BY <1>1
<1>8. c \in 0..Len(Tail(q)) /\ \E g \in [0..Len(Tail(q)) -> 0..Len(lg)] : g[0] = f[1] /\ Line(Tail(q), ch, lg, st, c, g)
  BY <1>6, <1>7, LineTail
<1>9. \A g : g[0] = f[1] => Meets(Tail(q), ch, "caught-up", ask, f[1], f[1], c, g)
  BY <1>2, <1>6 DEF Meets
<1>10. Follows(Tail(q), ch, lg, st, "caught-up", ask, f[1], f[1])
  BY <1>8, <1>9 DEF Follows
<1>. QED
  BY <1>2, <1>4, <1>5, <1>10

Receiving ==
  /\ replies # <<>> /\ replies' = Tail(replies)
  /\ UNCHANGED <<store, log, paths, sending, channel, requests>>
  /\ UNCHANGED <<listens, asking, asks>>

LEMMA FirstReply ==
  ASSUME SyncInv, replies # <<>>
  PROVE  /\ replies \in Seq(Replies) /\ replies[1] \in Replies /\ Head(replies) = replies[1]
         /\ IsReply(replies[1], log, store, channel) /\ AreReplies(Tail(replies), log, store, channel)
         /\ Tail(replies) \in Seq(Replies) /\ Len(log) \in Nat /\ Len(log) <= MaxCommits /\ log \in Seq(Entries)
<1>1. replies \in Seq(Replies) /\ log \in Seq(Entries) /\ Len(log) <= MaxCommits
  BY DEF SyncInv, SyncTypes
<1>2. AreReplies(replies, log, store, channel)
  BY DEF SyncInv
<1>3. IsReply(replies[1], log, store, channel) /\ AreReplies(Tail(replies), log, store, channel)
  BY <1>1, <1>2, RepliesLeft
<1>4. replies[1] \in Replies /\ Head(replies) = replies[1] /\ Tail(replies) \in Seq(Replies)
  BY <1>1, TailIs
<1>5. Len(log) \in Nat
  BY <1>1
<1>. QED
  BY <1>1, <1>3, <1>4, <1>5

LEMMA ReplyLeft ==
  ASSUME SyncInv, Receiving, recovery' \in {recovery, "consuming", "caught-up", "failed"},
         copy' \in Maps, copyRev' \in Nat, cursor' \in 0..Len(log) \cup {NoCursor},
         owed' \in {owed, SyncKey}, PeerInv', FollowInv', ShownInv'
  PROVE  SyncInv'
<1>1. /\ replies' = Tail(replies) /\ UNCHANGED <<store, log, paths, sending, channel, requests>>
      /\ UNCHANGED <<listens, asking, asks>>
  BY DEF Receiving
<1>2. Tail(replies) \in Seq(Replies) /\ AreReplies(Tail(replies), log, store, channel)
  BY FirstReply DEF Receiving
<1>3. SyncTypes /\ RequestInv /\ LogInv(log, store)
  BY DEF SyncInv
<1>4. SyncTypes'
  BY <1>1, <1>2, <1>3 DEF SyncTypes, NoCursor
<1>5. RequestInv'
  BY <1>1, <1>3 DEF RequestInv, NoCursor
<1>6. AreReplies(replies', log', store', channel') /\ LogInv(log', store')
  BY <1>1, <1>2, <1>3
<1>. QED
  BY <1>4, <1>5, <1>6 DEF SyncInv

\* A recovery that fails.
LEMMA PeerFails ==
  ASSUME SyncInv, Receiving, recovery' = "failed", owed' = SyncKey, UNCHANGED <<copy, copyRev, cursor>>
  PROVE  SyncInv'
<1>1. replies # <<>> /\ replies' = Tail(replies) /\ UNCHANGED <<store, log, channel, asks>>
  BY DEF Receiving
<1>2. SyncTypes /\ PeerInv /\ FollowInv
  BY DEF SyncInv
<1>3. replies \in Seq(Replies) /\ Len(log) \in Nat
  BY <1>1, FirstReply
<1>4. PeerInv'
  BY <1>1, <1>2 DEF PeerInv, NoCursor
<1>5. FollowInv'
  <2>. SUFFICES ASSUME channel # 0
                PROVE  Follows(Tail(replies), channel, log, store, recovery', asks, cursor, copyRev)
    BY <1>1 DEF FollowInv
  <2>1. Follows(replies, channel, log, store, recovery, asks, cursor, copyRev)
    BY <1>2 DEF FollowInv
  <2>. QED
    BY <1>1, <1>3, <2>1, FollowsAway
<1>6. ShownInv'
  BY DEF ShownInv
<1>7. copy' \in Maps /\ copyRev' \in Nat /\ cursor' \in 0..Len(log) \cup {NoCursor}
  BY <1>2 DEF SyncTypes
<1>. QED
  BY <1>4, <1>5, <1>6, <1>7, ReplyLeft

\* What does not end a replay leaves what is shown behind its boundary.
LEMMA StillReplaying ==
  ASSUME SyncInv, Receiving, Replaying, ~IsBoundary(replies[1], channel),
         recovery' \in {"awaiting", "consuming"},
         recovery' = "awaiting" => recovery = "awaiting" /\ ~(replies[1].type = "plan" /\ replies[1].id = channel),
         UNCHANGED owed
  PROVE  FollowInv' /\ ShownInv'
<1>1. /\ replies # <<>> /\ replies' = Tail(replies)
      /\ UNCHANGED <<store, log, channel, listens, asks>>
  BY DEF Receiving
<1>2. FollowInv /\ ShownInv
  BY DEF SyncInv
<1>3. replies \in Seq(Replies) /\ Len(log) \in Nat
  BY <1>1, FirstReply
<1>4. FollowInv'
  <2>. SUFFICES ASSUME channel # 0
                PROVE  Follows(Tail(replies), channel, log, store, recovery', asks, cursor', copyRev')
    BY <1>1 DEF FollowInv
  <2>1. Follows(replies, channel, log, store, recovery, asks, cursor, copyRev)
    BY <1>2 DEF FollowInv
  <2>2. asks = channel /\ recovery \in {"awaiting", "consuming"}
    BY DEF Replaying
  <2>. QED
    BY <1>1, <1>3, <2>1, <2>2, FollowsReplay
<1>5. ShownInv'
  <2>. SUFFICES ASSUME listens, NEW k \in SyncKey \ owed
                PROVE  ShownLater(Tail(replies), channel, log, store, k, store[k])
    BY <1>1 DEF ShownInv, Replaying
  <2>1. ShownLater(replies, channel, log, store, k, store[k])
    BY <1>2 DEF ShownInv
  <2>. QED
    BY <1>1, <1>3, <2>1, ShownLaterLeft
<1>. QED
  BY <1>4, <1>5

\* A message that no listener takes: the client does not listen, or it is of
\* another recovery than its own.
LEMMA Ignores ==
  ASSUME SyncInv, Receiving,
         ~listens \/ (replies[1].type \notin Told /\ ~Takes(replies[1])),
         UNCHANGED <<recovery, copy, copyRev, cursor, owed>>
  PROVE  SyncInv'
<1>1. /\ replies # <<>> /\ replies' = Tail(replies)
      /\ UNCHANGED <<store, log, channel, listens, asks>>
  BY DEF Receiving
<1>2. SyncTypes /\ PeerInv /\ FollowInv /\ ShownInv
  BY DEF SyncInv
<1>3. /\ replies \in Seq(Replies) /\ replies[1] \in Replies /\ Len(log) \in Nat
      /\ IsReply(replies[1], log, store, channel)
  BY <1>1, FirstReply
<1>4. copy' \in Maps /\ copyRev' \in Nat /\ cursor' \in 0..Len(log) \cup {NoCursor}
  BY <1>2 DEF SyncTypes
<1>5. PeerInv'
  BY <1>1, <1>2 DEF PeerInv, NoCursor
<1>6. CASE Replaying
  <2>1. channel = asks /\ recovery \in {"awaiting", "consuming"} /\ listens /\ channel # 0
    BY <1>2, <1>6, BoundaryAhead DEF Replaying, PeerInv
  <2>2. replies[1].type \notin Told /\ ~Takes(replies[1])
    BY <2>1
  <2>3. ~IsBoundary(replies[1], channel)
    <3>1. CASE recovery = "consuming"
      BY <2>1, <2>2, <3>1 DEF Takes, IsBoundary
    <3>2. CASE recovery = "awaiting"
      <4>1. Follows(replies, channel, log, store, "awaiting", channel, cursor, copyRev)
        BY <1>2, <2>1, <3>2 DEF FollowInv
      <4>. QED
        BY <1>1, <1>3, <4>1, PlanFirst
    <3>. QED
      BY <2>1, <3>1, <3>2
  <2>4. recovery = "awaiting" => ~(replies[1].type = "plan" /\ replies[1].id = channel)
    BY <2>1, <2>2 DEF Takes
  <2>5. FollowInv' /\ ShownInv'
    BY <1>6, <2>1, <2>3, <2>4, StillReplaying
  <2>. QED
    BY <1>4, <1>5, <2>5, ReplyLeft
<1>7. CASE ~Replaying
  <2>1. channel # 0 => recovery \notin {"consuming", "caught-up"} /\ (recovery = "awaiting" => asks # channel)
    <3>. SUFFICES ASSUME channel # 0, recovery = "caught-up" PROVE FALSE
      BY <1>2, <1>7 DEF Replaying, PeerInv
    <3>1. listens /\ channel = asks
      BY <1>2 DEF PeerInv
    <3>2. Follows(replies, channel, log, store, "caught-up", asks, cursor, copyRev)
      BY <1>2 DEF FollowInv
    <3>3. replies[1].type \notin Replayed /\ (replies[1].type = "live" => replies[1].id = channel)
      BY <1>1, <1>3, <3>2, FollowsCaughtUp
    <3>4. replies[1].type = "live"
      BY <1>3, <3>1, <3>3 DEF Replies
    <3>. QED
      BY <3>1, <3>3, <3>4 DEF Takes, Told
  <2>2. FollowInv'
    <3>. SUFFICES ASSUME channel # 0
                  PROVE  Follows(Tail(replies), channel, log, store, recovery, asks, cursor, copyRev)
      BY <1>1 DEF FollowInv
    <3>1. Follows(replies, channel, log, store, recovery, asks, cursor, copyRev)
      BY <1>2 DEF FollowInv
    <3>. QED
      BY <1>1, <1>3, <2>1, <3>1, FollowsAway
  <2>3. ShownInv'
    <3>. SUFFICES ASSUME listens, NEW k \in SyncKey \ owed
                  PROVE  ShownNow(Tail(replies), copy, k, store[k])
      BY <1>1, <1>7 DEF ShownInv, Replaying
    <3>1. ShownNow(replies, copy, k, store[k])
      BY <1>2, <1>7 DEF ShownInv
    <3>2. ~Tells(replies[1], k)
      BY DEF Tells
    <3>. QED
      BY <1>1, <1>3, <3>1, <3>2, ShownNowLeft
  <2>. QED
    BY <1>4, <1>5, <2>2, <2>3, ReplyLeft
<1>. QED
  BY <1>6, <1>7

\* A value that was synced is written into the mirror.
LEMMA WritesTold ==
  ASSUME SyncInv, Receiving, listens, replies[1].type \in Told, OnSync(replies[1])
  PROVE  SyncInv'
<1>. DEFINE m == replies[1]
<1>1. /\ replies # <<>> /\ replies' = Tail(replies)
      /\ UNCHANGED <<store, log, channel, listens, asks>>
  BY DEF Receiving
<1>2. SyncTypes /\ PeerInv /\ FollowInv /\ ShownInv
  BY DEF SyncInv
<1>3. /\ replies \in Seq(Replies) /\ m \in Replies /\ Len(log) \in Nat /\ Len(log) <= MaxCommits
      /\ IsReply(m, log, store, channel)
  BY <1>1, FirstReply
<1>4. /\ m.at \in Paths /\ (m.at # RootPath => m.at \in SyncKey)
      /\ IF m.at = RootPath THEN m.body \in Maps ELSE m.body \in Values
  BY <1>3, SyncAssumption DEF IsReply, Paths
<1>5. /\ copy' = IF m.at = RootPath THEN m.body ELSE [copy EXCEPT ![m.at] = m.body]
      /\ copyRev' = IF copy' = copy THEN copyRev ELSE copyRev + 1
      /\ UNCHANGED <<recovery, cursor, owed>>
  BY DEF OnSync, WriteCopy
<1>6. copy \in Maps /\ copyRev \in Nat /\ cursor \in 0..Len(log) \cup {NoCursor}
  BY <1>2 DEF SyncTypes
<1>7. copy' \in Maps
  BY <1>4, <1>5, <1>6 DEF Maps
<1>8. \A k \in SyncKey : copy'[k] = IF Tells(m, k) THEN SaidOf(m, k) ELSE copy[k]
  BY <1>4, <1>5, <1>6 DEF Maps, Tells, Covered, SaidOf
<1>9. copyRev' \in Nat /\ cursor' \in 0..Len(log) \cup {NoCursor}
  BY <1>5, <1>6
<1>. HIDE DEF m
<1>10. PeerInv'
  <2>1. cursor # NoCursor => copyRev' >= cursor /\ (copyRev' = cursor => copy' = copy)
    <3>. SUFFICES ASSUME cursor # NoCursor PROVE copyRev' >= cursor /\ (copyRev' = cursor => copy' = copy)
      OBVIOUS
    <3>1. copyRev >= cursor /\ cursor \in Nat
      BY <1>2, <1>3, <1>6 DEF PeerInv
    <3>. QED
      BY <1>5, <1>6, <3>1
  <2>2. copy' = copy => copyRev' = copyRev
    BY <1>5
  <2>. QED
    BY <1>1, <1>2, <1>5, <2>1, <2>2 DEF PeerInv, NoCursor
<1>11. m.type # "plan" /\ m.type # "live" /\ ~IsBoundary(m, channel)
  BY DEF Told, IsBoundary, m
<1>12. CASE Replaying
  <2>1. recovery \in {"awaiting", "consuming"}
    BY <1>12 DEF Replaying
  <2>2. FollowInv' /\ ShownInv'
    BY <1>5, <1>11, <1>12, <2>1, StillReplaying DEF m
  <2>. QED
    BY <1>5, <1>7, <1>9, <1>10, <2>2, ReplyLeft
<1>13. CASE ~Replaying
  <2>1. ShownInv'
    <3>. SUFFICES ASSUME NEW k \in SyncKey \ owed
                  PROVE  ShownNow(Tail(replies), copy', k, store[k])
      BY <1>1, <1>5, <1>13 DEF ShownInv, Replaying
    <3>1. ShownNow(replies, copy, k, store[k])
      BY <1>2, <1>13 DEF ShownInv
    <3>2. copy'[k] = IF Tells(m, k) THEN SaidOf(m, k) ELSE copy[k]
      BY <1>8
    <3>3. /\ Tells(m, k) /\ SaidOf(m, k) = store[k] => copy'[k] = store[k]
          /\ copy[k] = store[k] /\ ~Tells(m, k) => copy'[k] = store[k]
      BY <3>2
    <3>. QED
      BY <1>1, <1>3, <3>1, <3>3, ShownNowLeft DEF m
  <2>2. FollowInv'
    <3>. SUFFICES ASSUME channel # 0
                  PROVE  Follows(Tail(replies), channel, log, store, recovery, asks, cursor, copyRev')
      BY <1>1, <1>5 DEF FollowInv
    <3>1. Follows(replies, channel, log, store, recovery, asks, cursor, copyRev)
      BY <1>2 DEF FollowInv
    <3>2. CASE recovery = "caught-up"
      <4>1. Follows(replies, channel, log, store, "caught-up", asks, cursor, copyRev)
        BY <3>1, <3>2
      <4>2. /\ cursor \in 0..Len(log) /\ copyRev = cursor
            /\ Agrees(m, Past(log, store, cursor))
            /\ Follows(Tail(replies), channel, log, store, "caught-up", asks, cursor, copyRev)
        BY <1>1, <1>3, <1>11, <4>1, FollowsCaughtUp DEF m
      <4>3. cursor # NoCursor
        BY <1>3, <4>2, SyncAssumption DEF NoCursor
      <4>4. copy = Past(log, store, cursor)
        BY <1>2, <4>2, <4>3 DEF PeerInv
      <4>5. \A k \in SyncKey : copy'[k] = copy[k]
        BY <1>8, <4>2, <4>4 DEF Agrees
      <4>6. copy' = copy
        BY <1>6, <1>7, <4>5 DEF Maps
      <4>. QED
        BY <1>5, <3>2, <4>2, <4>6
    <3>3. CASE recovery # "caught-up"
      <4>1. recovery # "consuming" /\ (recovery = "awaiting" => asks # channel)
        BY <1>2, <1>13 DEF Replaying, PeerInv
      <4>. QED
        BY <1>1, <1>3, <3>1, <3>3, <4>1, FollowsAway
    <3>. QED
      BY <3>2, <3>3
  <2>. QED
    BY <1>5, <1>7, <1>9, <1>10, <2>1, <2>2, ReplyLeft
<1>. QED
  BY <1>12, <1>13

LEMMA TakesPlan ==
  ASSUME SyncInv, Receiving, Takes(replies[1]), replies[1].type = "plan", OnPlanned(replies[1])
  PROVE  SyncInv'
<1>1. /\ replies # <<>> /\ replies' = Tail(replies)
      /\ UNCHANGED <<store, log, channel, listens, asks>>
  BY DEF Receiving
<1>2. SyncTypes /\ PeerInv
  BY DEF SyncInv
<1>3. recovery' = "consuming" /\ UNCHANGED <<copy, copyRev, cursor, owed>>
  BY DEF OnPlanned, Keep
<1>4. recovery = "awaiting" /\ replies[1].id = asks
  BY DEF Takes
<1>5. replies[1].id \in 1..channel
  BY <1>1, FirstReply DEF IsReply, Told
<1>6. channel = asks
  BY <1>2, <1>4, <1>5 DEF SyncTypes
<1>7. ~IsBoundary(replies[1], channel)
  BY DEF IsBoundary
<1>8. FollowInv' /\ ShownInv'
  BY <1>3, <1>4, <1>6, <1>7, StillReplaying DEF Replaying
<1>9. PeerInv'
  BY <1>1, <1>2, <1>3, <1>4, <1>6 DEF PeerInv, NoCursor
<1>10. copy' \in Maps /\ copyRev' \in Nat /\ cursor' \in 0..Len(log) \cup {NoCursor}
  BY <1>2, <1>3 DEF SyncTypes
<1>. QED
  BY <1>3, <1>8, <1>9, <1>10, ReplyLeft

\* The next commit moves a mirror from one state of the log to the next.
LEMMA Replays ==
  ASSUME SyncInv, Receiving, replies[1].type \in {"body", "live"}, replies[1].at = cursor + 1,
         copy' = [copy EXCEPT ![replies[1].body.key] = replies[1].body.next],
         copyRev' = copyRev + 1, cursor' = replies[1].at, UNCHANGED recovery
  PROVE  /\ PeerInv' /\ copy' \in Maps /\ copyRev' \in Nat /\ cursor' \in 0..Len(log)
         /\ replies[1].body \in Entries
         /\ \A k \in SyncKey : k # replies[1].body.key => copy'[k] = copy[k]
<1>. DEFINE m == replies[1]
<1>1. /\ replies # <<>> /\ UNCHANGED <<store, log, channel, listens, asks>>
  BY DEF Receiving
<1>2. SyncTypes /\ PeerInv /\ LogInv(log, store)
  BY DEF SyncInv
<1>3. /\ m.at \in 1..Len(log) /\ m.body = log[m.at]
      /\ Len(log) \in Nat /\ Len(log) <= MaxCommits /\ log \in Seq(Entries)
  BY <1>1, FirstReply DEF IsReply
<1>4. m.at = cursor + 1 /\ cursor' = m.at /\ copyRev' = copyRev + 1 /\ UNCHANGED recovery
      /\ copy' = [copy EXCEPT ![m.body.key] = m.body.next]
  OBVIOUS
<1>. HIDE DEF m
<1>5. m.body \in Entries
  BY <1>3
<1>6. copy \in Maps /\ copyRev \in Nat /\ cursor \in 0..Len(log) \cup {NoCursor}
  BY <1>2 DEF SyncTypes
<1>7. cursor # NoCursor /\ cursor \in 0..Len(log)
  BY <1>3, <1>4, <1>6, SyncAssumption DEF NoCursor
<1>8. cursor' # NoCursor /\ cursor' \in 0..Len(log) /\ copyRev' \in Nat
  BY <1>3, <1>4, <1>6, SyncAssumption DEF NoCursor
<1>9. copy' \in Maps /\ \A k \in SyncKey : k # m.body.key => copy'[k] = copy[k]
  BY <1>4, <1>5, <1>6 DEF Maps, Entries
<1>10. copyRev' >= cursor' /\ (copyRev' = cursor' => copyRev = cursor)
  <2>1. copyRev >= cursor
    BY <1>2, <1>7 DEF PeerInv
  <2>2. cursor' = cursor + 1 /\ copyRev' = copyRev + 1
    BY <1>4
  <2>. QED
    BY <1>6, <1>7, <2>1, <2>2
<1>11. copyRev' = cursor' => copy' = Past(log, store, cursor')
  <2>. SUFFICES ASSUME copyRev' = cursor' PROVE copy' = Past(log, store, cursor')
    OBVIOUS
  <2>1. copy = Past(log, store, cursor)
    BY <1>2, <1>7, <1>10 DEF PeerInv
  <2>2. Past(log, store, m.at) = [Past(log, store, m.at - 1) EXCEPT ![log[m.at].key] = log[m.at].next]
    BY <1>2, <1>3 DEF LogInv
  <2>3. m.at - 1 = cursor
    BY <1>4, <1>7
  <2>4. Past(log, store, m.at) = [copy EXCEPT ![m.body.key] = m.body.next]
    BY <1>3, <2>1, <2>2, <2>3
  <2>. QED
    BY <1>4, <2>4
<1>12. PeerInv'
  BY <1>1, <1>2, <1>4, <1>10, <1>11 DEF PeerInv, NoCursor
<1>. QED
  BY <1>5, <1>8, <1>9, <1>12 DEF m

\* A commit of the replay, or one behind the boundary.
LEMMA TakesCommit ==
  ASSUME SyncInv, Receiving, Takes(replies[1]), replies[1].type \in {"body", "live"}, OnCommitted(replies[1])
  PROVE  SyncInv'
<1>1. /\ replies # <<>> /\ replies' = Tail(replies)
      /\ UNCHANGED <<store, log, channel, listens, asks>>
  BY DEF Receiving
<1>2. SyncTypes /\ PeerInv /\ FollowInv /\ ShownInv
  BY DEF SyncInv
<1>3. /\ replies \in Seq(Replies) /\ Len(log) \in Nat /\ Len(log) <= MaxCommits
      /\ IsReply(replies[1], log, store, channel)
  BY <1>1, FirstReply
<1>4. \/ cursor # NoCursor /\ replies[1].at <= cursor /\ UNCHANGED <<copy, copyRev, cursor, owed, recovery>>
      \/ recovery' = "failed" /\ owed' = SyncKey /\ UNCHANGED <<copy, copyRev, cursor>>
      \/ /\ replies[1].at = cursor + 1
         /\ copy' = [copy EXCEPT ![replies[1].body.key] = replies[1].body.next]
         /\ copyRev' = copyRev + 1 /\ cursor' = replies[1].at /\ UNCHANGED <<recovery, owed>>
  BY DEF OnCommitted, Keep, FailPeer
<1>5. CASE recovery' = "failed" /\ owed' = SyncKey /\ UNCHANGED <<copy, copyRev, cursor>>
  BY <1>5, PeerFails
<1>6. replies[1].id = asks /\ channel # 0
  BY <1>2, <1>3 DEF Takes, IsReply, Told, SyncTypes
<1>7. CASE replies[1].type = "body"
  <2>1. recovery = "consuming"
    BY <1>7 DEF Takes
  <2>2. channel = asks /\ Replaying /\ ~IsBoundary(replies[1], channel)
    BY <1>2, <1>7, <2>1 DEF PeerInv, Replaying, IsBoundary
  <2>3. ASSUME UNCHANGED <<recovery, owed>> PROVE FollowInv' /\ ShownInv'
    BY <2>1, <2>2, <2>3, StillReplaying
  <2>4. CASE UNCHANGED <<copy, copyRev, cursor, owed, recovery>>
    <3>1. PeerInv'
      BY <1>1, <1>2, <2>4 DEF PeerInv, NoCursor
    <3>2. copy' \in Maps /\ copyRev' \in Nat /\ cursor' \in 0..Len(log) \cup {NoCursor}
      BY <1>2, <2>4 DEF SyncTypes
    <3>. QED
      BY <2>3, <2>4, <3>1, <3>2, ReplyLeft
  <2>5. CASE /\ replies[1].at = cursor + 1
             /\ copy' = [copy EXCEPT ![replies[1].body.key] = replies[1].body.next]
             /\ copyRev' = copyRev + 1 /\ cursor' = replies[1].at /\ UNCHANGED <<recovery, owed>>
    <3>1. PeerInv' /\ copy' \in Maps /\ copyRev' \in Nat /\ cursor' \in 0..Len(log)
      BY <2>5, Replays
    <3>. QED
      BY <2>3, <2>5, <3>1, ReplyLeft
  <2>. QED
    BY <1>4, <1>5, <2>4, <2>5
<1>8. CASE replies[1].type = "live"
  <2>1. recovery = "caught-up"
    BY <1>8 DEF Takes
  <2>2. Follows(replies, channel, log, store, "caught-up", asks, cursor, copyRev)
    BY <1>2, <1>6, <2>1 DEF FollowInv
  <2>3. /\ cursor \in 0..Len(log) /\ copyRev = cursor
        /\ replies[1].at = cursor + 1
        /\ Follows(Tail(replies), channel, log, store, "caught-up", asks, cursor + 1, cursor + 1)
    BY <1>1, <1>3, <1>8, <2>2, FollowsCaughtUp
  <2>4. ~(replies[1].at <= cursor)
    BY <2>3
  <2>5. CASE /\ replies[1].at = cursor + 1
             /\ copy' = [copy EXCEPT ![replies[1].body.key] = replies[1].body.next]
             /\ copyRev' = copyRev + 1 /\ cursor' = replies[1].at /\ UNCHANGED <<recovery, owed>>
    <3>1. /\ PeerInv' /\ copy' \in Maps /\ copyRev' \in Nat /\ cursor' \in 0..Len(log)
          /\ \A k \in SyncKey : k # replies[1].body.key => copy'[k] = copy[k]
      BY <1>8, <2>5, Replays
    <3>2. cursor' = cursor + 1 /\ copyRev' = cursor + 1
      BY <2>3, <2>5
    <3>3. FollowInv'
      BY <1>1, <2>1, <2>3, <2>5, <3>2 DEF FollowInv
    <3>4. ~Replaying /\ ~Replaying'
      BY <2>1, <2>5 DEF Replaying
    <3>5. ShownInv'
      <4>. SUFFICES ASSUME listens, NEW k \in SyncKey \ owed
                    PROVE  ShownNow(Tail(replies), copy', k, store[k])
        BY <1>1, <2>5, <3>4 DEF ShownInv
      <4>1. ShownNow(replies, copy, k, store[k])
        BY <1>2, <3>4 DEF ShownInv
      <4>2. ~Tells(replies[1], k)
        BY <1>8 DEF Tells, Told
      <4>3. k # replies[1].body.key => copy'[k] = copy[k]
        BY <3>1
      <4>. QED
        BY <1>1, <1>3, <1>8, <4>1, <4>2, <4>3, ShownNowLeft
    <3>. QED
      BY <2>5, <3>1, <3>3, <3>5, ReplyLeft
  <2>. QED
    BY <1>4, <1>5, <2>4, <2>5
<1>. QED
  BY <1>7, <1>8

\* A past state is a map: it has what the log says, or what the map still has.
LEMMA PastIsMap ==
  ASSUME NEW lg \in Seq(Entries), NEW st \in Maps, LogInv(lg, st), NEW n \in 0..Len(lg)
  PROVE  Past(lg, st, n) \in Maps
<1>. SUFFICES ASSUME NEW k \in SyncKey PROVE Past(lg, st, n)[k] \in Values
  BY DEF Past, Maps
<1>. DEFINE T(i) == Touching(lg, k, i)
<1>1. \A i \in 0..Len(lg) : T(i) \in SUBSET (1..Len(lg))
  BY DEF Touching
<1>2. \A i \in 0..Len(lg) : T(i) # {} =>
        (\E m \in T(i) : \A j \in T(i) : m <= j) /\ (\E m \in T(i) : \A j \in T(i) : m >= j)
  BY DEF LogInv
<1>3. Len(lg) \in 0..Len(lg) /\ \A i \in 1..Len(lg) : lg[i].prev \in Values /\ lg[i].next \in Values
  <2>1. Len(lg) \in Nat /\ \A i \in 1..Len(lg) : lg[i] \in Entries
    OBVIOUS
  <2>2. \A e \in Entries : e.prev \in Values /\ e.next \in Values
    BY DEF Entries
  <2>. QED
    BY <2>1, <2>2
<1>4. /\ Before(lg, st)[k] = IF T(Len(lg)) = {} THEN st[k] ELSE lg[Min(T(Len(lg)))].prev
      /\ Past(lg, st, n)[k] = IF T(n) = {} THEN Before(lg, st)[k] ELSE lg[Max(T(n))].next
  BY DEF Past, Before
<1>. HIDE DEF T
<1>5. Before(lg, st)[k] \in Values
  <2>1. CASE T(Len(lg)) = {}
    BY <1>4, <2>1 DEF Maps
  <2>2. CASE T(Len(lg)) # {}
    <3>1. PICK m \in T(Len(lg)) : \A j \in T(Len(lg)) : m <= j
      BY <1>2, <1>3, <2>2
    <3>2. T(Len(lg)) \in SUBSET Nat /\ m \in 1..Len(lg)
      BY <1>1, <1>3, <3>1
    <3>3. Min(T(Len(lg))) = m
      BY <3>1, <3>2, MinIs
    <3>. QED
      BY <1>3, <1>4, <2>2, <3>2, <3>3
  <2>. QED
    BY <2>1, <2>2
<1>6. CASE T(n) = {}
  BY <1>4, <1>5, <1>6
<1>7. CASE T(n) # {}
  <2>1. PICK m \in T(n) : \A j \in T(n) : m >= j
    BY <1>2, <1>7
  <2>2. T(n) \in SUBSET Nat /\ m \in 1..Len(lg)
    BY <1>1, <2>1
  <2>3. Max(T(n)) = m
    BY <2>1, <2>2, MaxIs
  <2>. QED
    BY <1>3, <1>4, <1>7, <2>2, <2>3
<1>. QED
  BY <1>6, <1>7

LEMMA TakesSnapshot ==
  ASSUME SyncInv, Receiving, Takes(replies[1]), replies[1].type = "snapshot", OnRestored(replies[1])
  PROVE  SyncInv'
<1>1. replies # <<>> /\ UNCHANGED <<store, log, channel, listens, asks>>
  BY DEF Receiving
<1>2. SyncTypes /\ PeerInv
  BY DEF SyncInv
<1>3. copy' = replies[1].body /\ copyRev' = replies[1].at /\ cursor' = replies[1].at
      /\ UNCHANGED <<recovery, owed>>
  BY DEF OnRestored
<1>4. /\ replies[1].at \in 0..Len(log) /\ replies[1].body = Past(log, store, replies[1].at)
      /\ Len(log) \in Nat /\ log \in Seq(Entries)
  BY <1>1, FirstReply DEF IsReply
<1>5. recovery = "consuming"
  BY DEF Takes
<1>6. channel = asks /\ Replaying /\ ~IsBoundary(replies[1], channel)
  BY <1>2, <1>5 DEF PeerInv, Replaying, IsBoundary
<1>7. FollowInv' /\ ShownInv'
  BY <1>3, <1>5, <1>6, StillReplaying
<1>8. copyRev' \in Nat /\ cursor' \in 0..Len(log) /\ copyRev' = cursor' /\ copy' = Past(log, store, cursor')
  BY <1>3, <1>4
<1>9. PeerInv'
  BY <1>1, <1>2, <1>3, <1>8 DEF PeerInv, NoCursor
<1>10. copy' \in Maps
  <2>1. store \in Maps /\ LogInv(log, store)
    BY DEF SyncInv, SyncTypes
  <2>. QED
    BY <1>4, <1>8, <2>1, PastIsMap
<1>. QED
  BY <1>3, <1>7, <1>8, <1>9, <1>10, ReplyLeft

\* A client that is told it has caught up: its revision, its cursor and the
\* boundary are one.
LEMMA TakesBoundary ==
  ASSUME SyncInv, Receiving, Takes(replies[1]), replies[1].type = "caught-up", OnBoundary(replies[1])
  PROVE  SyncInv'
<1>1. /\ replies # <<>> /\ replies' = Tail(replies)
      /\ UNCHANGED <<store, log, channel, listens, asks>>
  BY DEF Receiving
<1>2. SyncTypes /\ PeerInv /\ FollowInv /\ ShownInv
  BY DEF SyncInv
<1>3. /\ replies \in Seq(Replies) /\ Len(log) \in Nat /\ Len(log) <= MaxCommits
      /\ IsReply(replies[1], log, store, channel)
  BY <1>1, FirstReply
<1>4. \/ recovery' = "failed" /\ owed' = SyncKey /\ UNCHANGED <<copy, copyRev, cursor>>
      \/ /\ copyRev = cursor /\ cursor = replies[1].at /\ recovery' = "caught-up"
         /\ UNCHANGED <<copy, copyRev, cursor, owed>>
  BY DEF OnBoundary, Keep, FailPeer
<1>5. CASE recovery' = "failed" /\ owed' = SyncKey /\ UNCHANGED <<copy, copyRev, cursor>>
  BY <1>5, PeerFails
<1>6. CASE /\ copyRev = cursor /\ cursor = replies[1].at /\ recovery' = "caught-up"
           /\ UNCHANGED <<copy, copyRev, cursor, owed>>
  <2>1. recovery = "consuming" /\ replies[1].id = asks
    BY DEF Takes
  <2>2. channel = asks /\ Replaying /\ IsBoundary(replies[1], channel) /\ channel # 0
    BY <1>2, <2>1, BoundaryAhead DEF PeerInv, Replaying, IsBoundary
  <2>3. Follows(replies, channel, log, store, recovery, asks, cursor, copyRev)
    BY <1>2, <2>2 DEF FollowInv
  <2>4. /\ Follows(Tail(replies), channel, log, store, "caught-up", asks, cursor, copyRev)
        /\ \A i \in 1..Len(replies) : IsBoundary(replies[i], channel) => i = 1
    BY <1>1, <1>3, <1>6, <2>2, <2>3, FollowsBoundary
  <2>5. cursor \in 0..Len(log) /\ cursor # NoCursor
    BY <1>3, <1>6, SyncAssumption DEF IsReply, NoCursor
  <2>6. copy = Past(log, store, replies[1].at)
    BY <1>2, <1>6, <2>5 DEF PeerInv
  <2>7. FollowInv'
    BY <1>1, <1>6, <2>4 DEF FollowInv
  <2>8. ~Replaying'
    BY <1>6 DEF Replaying
  <2>9. ShownInv'
    <3>. SUFFICES ASSUME listens, NEW k \in SyncKey \ owed
                  PROVE  ShownNow(Tail(replies), copy, k, store[k])
      BY <1>1, <1>6, <2>8 DEF ShownInv
    <3>1. ShownLater(replies, channel, log, store, k, store[k])
      BY <1>2, <2>2 DEF ShownInv
    <3>. QED
      BY <1>1, <1>3, <2>4, <2>6, <3>1, ShownAtBoundary
  <2>10. PeerInv'
    BY <1>1, <1>2, <1>6, <2>1, <2>2 DEF PeerInv, NoCursor
  <2>11. copy' \in Maps /\ copyRev' \in Nat /\ cursor' \in 0..Len(log) \cup {NoCursor}
    BY <1>2, <1>6 DEF SyncTypes
  <2>. QED
    BY <1>6, <2>7, <2>9, <2>10, <2>11, ReplyLeft
<1>. QED
  BY <1>4, <1>5, <1>6

LEMMA Receives ==
  ASSUME SyncInv, ReceiveReply
  PROVE  SyncInv'
<1>1. Receiving
  BY DEF ReceiveReply, Receiving, hostVars
<1>2. Head(replies) = replies[1]
  BY <1>1, FirstReply DEF Receiving
<1>. DEFINE m == replies[1]
<1>3. \/ ~listens /\ Keep /\ UNCHANGED <<recovery, why>>
      \/ listens /\ m.type \in Told /\ OnSync(m)
      \/ listens /\ m.type \notin Told /\ Takes(m) /\ TakeRecovery(m)
      \/ listens /\ m.type \notin Told /\ ~Takes(m) /\ Keep /\ UNCHANGED <<recovery, why>>
  BY <1>2 DEF ReceiveReply, Told
<1>4. CASE (~listens \/ (m.type \notin Told /\ ~Takes(m))) /\ Keep /\ UNCHANGED recovery
  BY <1>1, <1>4, Ignores DEF Keep
<1>5. CASE listens /\ m.type \in Told /\ OnSync(m)
  BY <1>1, <1>5, WritesTold
<1>6. CASE Takes(m) /\ TakeRecovery(m)
  <2>1. CASE m.type = "plan" /\ OnPlanned(m)
    BY <1>1, <1>6, <2>1, TakesPlan
  <2>2. CASE m.type \in {"body", "live"} /\ OnCommitted(m)
    BY <1>1, <1>6, <2>2, TakesCommit
  <2>3. CASE m.type = "snapshot" /\ OnRestored(m)
    BY <1>1, <1>6, <2>3, TakesSnapshot
  <2>4. CASE m.type = "caught-up" /\ OnBoundary(m)
    BY <1>1, <1>6, <2>4, TakesBoundary
  <2>. QED
    BY <1>6, <2>1, <2>2, <2>3, <2>4 DEF TakeRecovery
<1>. QED
  BY <1>3, <1>4, <1>5, <1>6

-----------------------------------------------------------------------------
(* The conversation *)

LEMMA SyncKeeps ==
  ASSUME SyncInv, [SyncNext]_syncVars
  PROVE  SyncInv'
<1>1. CASE HostWrites \/ ActionWrites
  <2>1. PICK k \in SyncKey, v \in Values : Commit(k, v)
    BY <1>1 DEF HostWrites, ActionWrites, Values
  <2>. QED
    BY <2>1, Commits
<1>2. CASE ActionAnswered
  BY <1>2, Answers
<1>3. CASE HandleMessage
  BY <1>3, Handles
<1>4. CASE ConnectPeer
  BY <1>4, ConnectsPeer
<1>5. CASE AskRecovery
  BY <1>5, AsksRecovery
<1>6. CASE AskPath
  BY <1>6, AsksPath
<1>7. CASE ReceiveReply
  BY <1>7, Receives
<1>8. CASE StopListening \/ ListenAgain
  BY <1>8, StopsOrListens
<1>9. CASE LoseTransport
  BY <1>9, LosesTransport
<1>10. CASE UNCHANGED syncVars
  <2>1. UNCHANGED <<store, log, paths, sending, channel, requests, replies>>
    BY <1>10 DEF syncVars, hostVars
  <2>2. UNCHANGED <<listens, recovery, copy, copyRev, cursor, asking, asks, owed>>
    BY <1>10 DEF syncVars, peerVars
  <2>3. SyncTypes' /\ RequestInv' /\ PeerInv'
    BY <2>1, <2>2 DEF SyncInv, SyncTypes, RequestInv, PeerInv, NoCursor
  <2>4. FollowInv' /\ ShownInv'
    BY <2>1, <2>2 DEF SyncInv, FollowInv, ShownInv, Replaying
  <2>5. LogInv(log', store') /\ AreReplies(replies', log', store', channel')
    BY <2>1 DEF SyncInv
  <2>. QED
    BY <2>3, <2>4, <2>5 DEF SyncInv
<1>. QED
  BY <1>1, <1>2, <1>3, <1>4, <1>5, <1>6, <1>7, <1>8, <1>9, <1>10 DEF SyncNext

LEMMA SyncHolds ==
  ASSUME SyncInv
  PROVE  SyncIsSafe
<1>1. SyncTypes /\ LogInv(log, store) /\ PeerInv /\ FollowInv /\ ShownInv
  BY DEF SyncInv
<1>2. replies \in Seq(Replies) /\ log \in Seq(Entries) /\ Len(log) \in Nat /\ Len(log) <= MaxCommits
  BY <1>1 DEF SyncTypes
<1>3. CaughtUpIsExact
  <2>. SUFFICES ASSUME recovery = "caught-up"
                PROVE  copy = StateAt(First, cursor) /\ copyRev = cursor
    BY DEF CaughtUpIsExact
  <2>1. channel # 0
    BY <1>1 DEF PeerInv, SyncTypes
  <2>2. Follows(replies, channel, log, store, recovery, asks, cursor, copyRev)
    BY <1>1, <2>1 DEF FollowInv
  <2>3. PICK b \in 0..Len(replies), f \in [0..Len(replies) -> 0..Len(log)] :
          Meets(replies, channel, recovery, asks, cursor, copyRev, b, f)
    BY <2>2 DEF Follows
  <2>4. cursor = f[0] /\ copyRev = cursor
    BY <2>3 DEF Meets
  <2>5. 0 \in 0..Len(replies)
    BY <1>2
  <2>6. cursor \in 0..Len(log)
    BY <2>4, <2>5
  <2>7. cursor # NoCursor
    BY <1>2, <2>6, SyncAssumption DEF NoCursor
  <2>8. copy = Past(log, store, cursor)
    BY <1>1, <2>4, <2>7 DEF PeerInv
  <2>9. StateAt(First, cursor) = Past(log, store, cursor)
    BY <1>2, StateIsPast
  <2>. QED
    BY <2>4, <2>8, <2>9
<1>4. SyncedIsShown
  <2>. SUFFICES ASSUME listens, replies = <<>>, NEW k \in SyncKey \ owed
                PROVE  copy[k] = store[k]
    BY DEF SyncedIsShown
  <2>1. Len(replies) = 0
    OBVIOUS
  <2>2. ~Replaying
    BY <2>1, BoundaryAhead
  <2>3. ShownNow(replies, copy, k, store[k])
    BY <1>1, <2>2 DEF ShownInv
  <2>. QED
    BY <2>1, <2>3 DEF ShownNow
<1>. QED
  BY <1>3, <1>4 DEF SyncIsSafe

\* locus.sync.ts beside locus.recovery.ts, in the mirror of locus.client.ts:
\* a client that has caught up has exactly the state of its cursor, and a value
\* that was synced is shown once what was sent has arrived.
THEOREM SyncStaysSafe == SyncSpec => []SyncIsSafe
<1>1. SyncInit => SyncInv
  BY SyncStarts
<1>2. SyncInv /\ [SyncNext]_syncVars => SyncInv'
  BY SyncKeeps
<1>3. SyncInv => SyncIsSafe
  BY SyncHolds
<1>. QED
  BY <1>1, <1>2, <1>3, PTL DEF SyncSpec

\* A Locus and one of its connections: whichever part of it a behaviour follows,
\* no session has two speakers or outlives its grace time, and a client that is
\* told it has caught up, or was synced last, shows exactly that.
THEOREM ConversationStaysSound == MCSpec => []ConversationSound
<1>. DEFINE Both == SessionInv /\ SyncInv
<1>1. MCInit => Both
  BY SessionInit, SyncStarts DEF MCInit, NoSessions, NoSync
<1>2. Both /\ [MCNext]_<<system, vars, sVars, syncVars>> => Both'
  <2>. SUFFICES ASSUME SessionInv, SyncInv, [MCNext]_<<system, vars, sVars, syncVars>>
                PROVE  SessionInv' /\ SyncInv'
    OBVIOUS
  <2>1. [SessionStep]_sVars /\ [SyncNext]_syncVars
    BY DEF MCNext
  <2>. QED
    BY <2>1, SessionKeeps, SyncKeeps
<1>3. Both => ConversationSound
  BY SyncHolds DEF SessionInv, ConversationSound
<1>. HIDE DEF Both
<1>. QED
  BY <1>1, <1>2, <1>3, PTL DEF MCSpec
=============================================================================
