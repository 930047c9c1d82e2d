------------------------- MODULE LocusRecoveryProofs -------------------------
(***************************************************************************)
(* Proofs about LocusRecovery, for any history and tail limits, any number *)
(* of commits, incarnations, recoveries and lost connections, on a         *)
(* transport that keeps order and on one that does not.                    *)
(***************************************************************************)
EXTENDS LocusRecovery, SequenceTheorems, TLAPS

MessageType == {"plan", "commit", "snapshot", "caught-up", "error"}
How == Outcomes \cup {"body", "tail", "live", "end", "refused", "planning",
                      "aborted"}

\* The messages a server of incarnation i with head revision h may have sent.
MessageUpTo(i, h) ==
  [type : MessageType, id : Nat, inc : {i}, rev : 0..h, how : How]

Cursor == [id : Nat, inc : Nat, rev : Nat]

StreamInv ==
  /\ inc \in Nat /\ inc > 0
  /\ mapRev \in Nat /\ head \in Nat /\ floor \in Nat
  /\ floor <= head /\ head <= mapRev

\* Nothing on its way to the client is ahead of the authority.
ChannelInv ==
  /\ request \in Nat
  /\ cut \in 0..head
  /\ queued \in Seq(0..head)
  /\ outbox \in Seq(MessageUpTo(inc, head))
  /\ toClient \in Seq(MessageUpTo(inc, head))
  /\ toServer \in Seq(Cursor)

MirrorInv ==
  /\ calls \in Nat
  /\ cinc \in Nat /\ applied \in Nat
  /\ cinc <= inc
  /\ cinc = inc => applied <= head

RecoveryInv == StreamInv /\ ChannelInv /\ MirrorInv

-----------------------------------------------------------------------------
(* What the operators return.                                               *)

LEMMA Monotone ==
  ASSUME NEW i, NEW h \in Nat, NEW k \in Nat, h <= k
  PROVE  /\ \A s \in Seq(0..h) : s \in Seq(0..k)
         /\ \A s \in Seq(MessageUpTo(i, h)) : s \in Seq(MessageUpTo(i, k))
<1>1. 0..h \subseteq 0..k
  OBVIOUS
<1>2. MessageUpTo(i, h) \subseteq MessageUpTo(i, k)
  BY <1>1 DEF MessageUpTo
<1>3. QED
  BY <1>1, <1>2, SeqMonotonic

LEMMA EmptyQueues ==
  /\ \A S : << >> \in Seq(S)
  /\ \A i : Commits(i, 0) = << >>
<1>1. \A S : << >> \in Seq(S)
  OBVIOUS
<1>2. ASSUME NEW i PROVE Commits(i, 0) = << >>
  BY DEF Commits
<1>3. QED
  BY <1>1, <1>2

LEMMA MessageTyped ==
  ASSUME NEW h \in Nat,
         NEW type \in MessageType, NEW id \in Nat, NEW rev \in 0..h,
         NEW how \in How
  PROVE  Message(type, id, rev, how) \in MessageUpTo(inc, h)
  BY DEF Message, MessageUpTo

LEMMA CommitMessagesTyped ==
  ASSUME inc \in Nat, head \in Nat,
         NEW id \in Nat, NEW revs \in Seq(0..head), NEW phase \in How
  PROVE  CommitMessages(id, revs, phase) \in Seq(MessageUpTo(inc, head))
<1>1. Len(revs) \in Nat /\ \A k \in 1..Len(revs) : revs[k] \in 0..head
  OBVIOUS
<1>2. ASSUME NEW k \in 1..Len(revs)
      PROVE  Message("commit", id, revs[k], phase) \in MessageUpTo(inc, head)
  BY <1>1, MessageTyped DEF MessageType
<1>3. QED
  BY <1>1, <1>2 DEF CommitMessages

LEMMA ReplayTyped ==
  ASSUME head \in Nat, floor \in Nat, NEW from \in Nat
  PROVE  ReplayAfter(from) \in Seq(0..head)
<1>1. CASE from >= floor /\ from <= head
  <2>1. head - from \in Nat /\ \A k \in 1..(head - from) : from + k \in 0..head
    BY <1>1
  <2>2. QED
    BY <1>1, <2>1 DEF ReplayAfter, Following
<1>2. CASE from >= floor /\ from > head
  <2>1. 1..(head - from) = {}
    BY <1>2
  <2>2. ReplayAfter(from) = << >>
    BY <1>2, <2>1 DEF ReplayAfter, Following
  <2>3. QED
    BY <2>2, EmptyQueues
<1>3. CASE from < floor
  <2>1. ReplayAfter(from) = << >>
    BY <1>3 DEF ReplayAfter
  <2>2. QED
    BY <2>1, EmptyQueues
<1>4. QED
  BY <1>1, <1>2, <1>3

\* A commit that follows the cursor extends the mirror to the next state.
LEMMA CommitsGrow ==
  ASSUME NEW i \in Nat, NEW n \in Nat
  PROVE  Append(Commits(i, n), [inc |-> i, rev |-> n + 1]) = Commits(i, n + 1)
<1> DEFINE C == [inc : Nat, rev : Nat]
           s == Commits(i, n)
           t == Commits(i, n + 1)
           e == [inc |-> i, rev |-> n + 1]
<1>1. s \in Seq(C) /\ Len(s) = n /\ \A k \in 1..n : s[k] = [inc |-> i, rev |-> k]
  BY DEF Commits
<1>2. t \in Seq(C) /\ Len(t) = n + 1
      /\ \A k \in 1..(n + 1) : t[k] = [inc |-> i, rev |-> k]
  BY DEF Commits
<1>3. e \in C
  OBVIOUS
<1> HIDE DEF C, s, t, e
<1>4. /\ Append(s, e) \in Seq(C)
      /\ Len(Append(s, e)) = n + 1
      /\ \A k \in 1..n : Append(s, e)[k] = s[k]
      /\ Append(s, e)[n + 1] = e
  BY <1>1, <1>3, AppendProperties
<1>5. \A k \in 1..(n + 1) : Append(s, e)[k] = t[k]
  BY <1>1, <1>2, <1>4 DEF e
<1>6. Append(s, e) = t
  BY <1>2, <1>4, <1>5, SeqEqual
<1>7. QED
  BY <1>6 DEF s, t, e
-----------------------------------------------------------------------------
(* The server.                                                              *)

\* Client state stays valid when the authority only moves forward.
LEMMA MirrorKept ==
  ASSUME RecoveryInv, StreamInv', inc' = inc, head' >= head,
         UNCHANGED <<calls, cinc, applied>>
  PROVE  MirrorInv'
  BY DEF RecoveryInv, StreamInv, MirrorInv

LEMMA IngestStep ==
  ASSUME RecoveryInv, Ingest, UNCHANGED clientVars
  PROVE  RecoveryInv'
<1>1. head' = head + 1 /\ inc' = inc /\ mapRev' = mapRev /\ head \in Nat
      /\ head' \in Nat
  BY DEF RecoveryInv, StreamInv, Ingest
<1>2. floor' \in Nat /\ floor' <= head'
  BY <1>1, HistoryAssumption
  DEF RecoveryInv, StreamInv, Ingest, TrimmedFloor
<1>3. StreamInv'
  BY <1>1, <1>2 DEF RecoveryInv, StreamInv, Ingest
<1>4. /\ queued \in Seq(0..head')
      /\ outbox \in Seq(MessageUpTo(inc, head'))
      /\ toClient \in Seq(MessageUpTo(inc, head'))
      /\ head' \in 0..head'
  BY <1>1, Monotone DEF RecoveryInv, ChannelInv
<1>5. Message("commit", request, head', "live") \in MessageUpTo(inc, head')
  BY <1>1, <1>4, MessageTyped DEF RecoveryInv, ChannelInv, MessageType, How
<1>6. queued' \in Seq(0..head')
  <2>1. queued' \in {queued, << >>, Append(queued, head')}
    BY DEF Ingest, Observe, EnqueueTail, HoldLive, SendLive, Send
  <2>2. Append(queued, head') \in Seq(0..head') /\ << >> \in Seq(0..head')
    BY <1>4, AppendProperties, EmptyQueues
  <2>3. QED
    BY <1>4, <2>1, <2>2
<1>7. toClient' \in Seq(MessageUpTo(inc, head'))
  <2>1. toClient' \in
          {toClient, Append(toClient, Message("commit", request, head', "live"))}
    BY DEF Ingest, Observe, EnqueueTail, HoldLive, SendLive, Send
  <2>2. Append(toClient, Message("commit", request, head', "live"))
          \in Seq(MessageUpTo(inc, head'))
    BY <1>4, <1>5, AppendProperties
  <2>3. QED
    BY <1>4, <2>1, <2>2
<1>8. ChannelInv'
  BY <1>1, <1>4, <1>6, <1>7 DEF RecoveryInv, ChannelInv, Ingest
<1>9. QED
  BY <1>1, <1>3, <1>8, MirrorKept DEF RecoveryInv, clientVars

LEMMA HandleRecoverStep ==
  ASSUME RecoveryInv, HandleRecover, UNCHANGED clientVars
  PROVE  RecoveryInv'
<1> DEFINE c == Head(toServer)
           M == MessageUpTo(inc, head)
<1>1. c \in Cursor /\ Tail(toServer) \in Seq(Cursor)
  BY HeadTailProperties DEF RecoveryInv, ChannelInv, HandleRecover
<1>2. c.id \in Nat /\ c.inc \in Nat /\ c.rev \in Nat
  BY <1>1 DEF Cursor
<1>3. Outcome(c) \in Outcomes
  BY DEF Outcome, Outcomes
<1>4. inc \in Nat /\ head \in Nat /\ floor \in Nat /\ head \in 0..head
      /\ 0 \in 0..head
  BY DEF RecoveryInv, StreamInv
<1>5. ~SnapshotTorn(c) => PlanHead(c) = head
  BY DEF SnapshotTorn, PlanHead
<1>6. /\ Message("error", c.id, 0, "refused") \in M
      /\ Message("error", c.id, 0, "planning") \in M
      /\ Message("plan", c.id, head, "reject") \in M
      /\ Message("plan", c.id, head, Outcome(c)) \in M
      /\ Message("snapshot", c.id, head, "body") \in M
  BY <1>2, <1>3, <1>4, MessageTyped DEF MessageType, How, Outcomes
<1>7. ~SnapshotTorn(c) => Body(c) \in Seq(M)
  <2> SUFFICES ASSUME ~SnapshotTorn(c) PROVE Body(c) \in Seq(M)
    OBVIOUS
  <2>1. CASE Outcome(c) = "snapshot"
    <3>1. mapRev = head
      BY <2>1 DEF SnapshotTorn
    <3>2. Body(c) = <<Message("snapshot", c.id, mapRev, "body")>>
      BY <2>1 DEF Body
    <3>3. \A m \in M : <<m>> \in Seq(M)
      OBVIOUS
    <3>4. QED
      BY <1>6, <3>1, <3>2, <3>3
  <2>2. CASE Outcome(c) = "replay"
    <3>1. ReplayAfter(c.rev) \in Seq(0..head)
      BY <1>2, <1>4, ReplayTyped
    <3>2. CommitMessages(c.id, ReplayAfter(c.rev), "body") \in Seq(M)
      BY <1>2, <1>4, <3>1, CommitMessagesTyped DEF How
    <3>3. QED
      BY <2>2, <3>2 DEF Body
  <2>3. CASE Outcome(c) \notin {"snapshot", "replay"}
    <3>1. Body(c) = << >>
      BY <2>3 DEF Body
    <3>2. QED
      BY <3>1, EmptyQueues
  <2>4. QED
    BY <2>1, <2>2, <2>3
<1> HIDE DEF M, c
<1>8. \A m \in M : Append(toClient, m) \in Seq(M)
  BY AppendProperties DEF RecoveryInv, ChannelInv, M
<1>9. StreamInv' /\ inc' = inc /\ head' = head
  BY DEF RecoveryInv, StreamInv, HandleRecover, streamVars
<1>10. toServer' \in Seq(Cursor)
  BY <1>1 DEF HandleRecover, c
<1>11. << >> \in Seq(0..head) /\ << >> \in Seq(M)
  BY EmptyQueues
<1>12. /\ request' \in Nat /\ cut' \in 0..head /\ queued' \in Seq(0..head)
       /\ outbox' \in Seq(M) /\ toClient' \in Seq(M)
  <2>1. CASE Refuse(c)
    BY <1>6, <1>8, <2>1 DEF Refuse, Send, RecoveryInv, ChannelInv, M
  <2>2. CASE PlanFails(c)
    BY <1>2, <1>4, <1>6, <1>8, <1>11, <2>2 DEF PlanFails, Send, ChannelIdle
  <2>3. CASE Reject(c)
    BY <1>2, <1>4, <1>6, <1>8, <1>11, <2>3 DEF Reject, Send, ChannelIdle
  <2>4. CASE Plan(c)
    BY <1>2, <1>4, <1>5, <1>6, <1>7, <1>8, <1>11, <2>4 DEF Plan, Send
  <2>5. QED
    BY <2>1, <2>2, <2>3, <2>4 DEF HandleRecover, c
<1>13. ChannelInv'
  BY <1>9, <1>10, <1>12 DEF ChannelInv, M
<1>14. QED
  BY <1>4, <1>9, <1>13, MirrorKept DEF RecoveryInv, clientVars

LEMMA ChannelStep ==
  ASSUME RecoveryInv, SendNext \/ Complete \/ Drain \/ Abort,
         UNCHANGED clientVars
  PROVE  RecoveryInv'
<1> DEFINE M == MessageUpTo(inc, head)
<1>1. inc \in Nat /\ head \in Nat /\ 0 \in 0..head /\ request \in Nat
  BY DEF RecoveryInv, StreamInv, ChannelInv
<1>2. /\ queued \in Seq(0..head) /\ outbox \in Seq(M) /\ toClient \in Seq(M)
      /\ cut \in 0..head
  BY DEF RecoveryInv, ChannelInv
<1>3. /\ outbox # << >> => Head(outbox) \in M /\ Tail(outbox) \in Seq(M)
      /\ queued # << >> => Head(queued) \in 0..head /\ Tail(queued) \in Seq(0..head)
  BY <1>2, HeadTailProperties
<1>4. queued # << >> => Message("commit", request, Head(queued), "live") \in M
  BY <1>1, <1>3, MessageTyped DEF MessageType, How
<1>5. Message("error", request, 0, "aborted") \in M
  BY <1>1, MessageTyped DEF MessageType, How
<1>6. ThroughRev \in 0..head
  <2>1. queued # << >> => queued[Len(queued)] \in 0..head
    BY <1>1, <1>2
  <2>2. QED
    BY <1>2, <2>1 DEF ThroughRev
<1>7. Message("caught-up", request, ThroughRev, "end") \in M
  BY <1>1, <1>6, MessageTyped DEF MessageType, How
<1>8. CommitMessages(request, queued, "tail") \in Seq(M)
  BY <1>1, <1>2, CommitMessagesTyped DEF How
<1> HIDE DEF M
<1>9. \A m \in M : Append(toClient, m) \in Seq(M)
  BY <1>2, AppendProperties
<1>10. << >> \in Seq(0..head) /\ << >> \in Seq(M)
  BY EmptyQueues
<1>11. StreamInv' /\ inc' = inc /\ head' = head /\ toServer' = toServer
       /\ request' = request
  BY DEF RecoveryInv, StreamInv, streamVars, SendNext, Complete, Drain, Abort
<1>12. /\ cut' \in 0..head /\ queued' \in Seq(0..head)
       /\ outbox' \in Seq(M) /\ toClient' \in Seq(M)
  <2>1. CASE SendNext
    BY <1>2, <1>3, <1>9, <2>1 DEF SendNext, Send
  <2>2. CASE Complete
    <3> DEFINE rest == Append(CommitMessages(request, queued, "tail"),
                              Message("caught-up", request, ThroughRev, "end"))
    <3>1. rest \in Seq(M) /\ rest # << >>
      BY <1>7, <1>8, AppendProperties
    <3>2. toClient' = Append(toClient, Head(rest)) /\ outbox' = Tail(rest)
          /\ queued' = << >> /\ cut' = cut
      BY <2>2 DEF Complete, Send
    <3> HIDE DEF rest
    <3>3. Head(rest) \in M /\ Tail(rest) \in Seq(M)
      BY <3>1, HeadTailProperties
    <3>4. QED
      BY <1>2, <1>9, <1>10, <3>2, <3>3
  <2>3. CASE Drain
    BY <1>1, <1>2, <1>3, <1>4, <1>9, <1>10, <2>3 DEF Drain, Send, ChannelIdle
  <2>4. CASE Abort
    BY <1>1, <1>5, <1>9, <1>10, <2>4 DEF Abort, Send, ChannelIdle
  <2>5. QED
    BY <2>1, <2>2, <2>3, <2>4
<1>13. ChannelInv'
  BY <1>1, <1>11, <1>12 DEF RecoveryInv, ChannelInv, M
<1>14. QED
  BY <1>1, <1>11, <1>13, MirrorKept DEF RecoveryInv, clientVars
-----------------------------------------------------------------------------
(* The client and the transport.                                            *)

LEMMA ReceiveStep ==
  ASSUME RecoveryInv, Receive
  PROVE  RecoveryInv'
<1> DEFINE m == Head(toClient)
           M == MessageUpTo(inc, head)
<1>1. m \in M /\ Tail(toClient) \in Seq(M)
  BY HeadTailProperties DEF RecoveryInv, ChannelInv, Receive
<1>2. m.inc = inc /\ m.rev \in 0..head /\ m.type \in MessageType
  BY <1>1 DEF MessageUpTo
<1> HIDE DEF M, m
<1>3. StreamInv'
  BY DEF Receive, streamVars, RecoveryInv, StreamInv
<1>4. ChannelInv'
  BY <1>1 DEF Receive, streamVars, channelVars, RecoveryInv, ChannelInv, M
<1>5. inc' = inc /\ head' = head /\ calls' = calls
  BY DEF Receive, streamVars
<1>6. inc \in Nat /\ head \in Nat /\ MirrorInv
  BY DEF RecoveryInv, StreamInv
<1>7. \/ UNCHANGED <<cinc, applied>>
      \/ cinc' = m.inc /\ applied' = m.rev
  <2>1. CASE Ignored(m)
    BY <2>1 DEF Receive, KeepMirror, m
  <2>2. CASE ~Ignored(m) /\ m.type = "plan"
    BY <2>2 DEF Receive, OnPlan, KeepMirror, m
  <2>3. CASE ~Ignored(m) /\ m.type = "commit"
    <3>1. OnCommit(m)
      BY <2>3 DEF Receive, m
    <3>2. QED
      BY <3>1 DEF OnCommit, Apply, KeepMirror
  <2>4. CASE ~Ignored(m) /\ m.type = "snapshot"
    <3>1. OnSnapshot(m)
      BY <2>4 DEF Receive, m
    <3>2. QED
      BY <3>1 DEF OnSnapshot, InstallFails, KeepMirror
  <2>5. CASE ~Ignored(m) /\ m.type = "caught-up"
    BY <2>5 DEF Receive, OnCaughtUp, KeepMirror, m
  <2>6. CASE ~Ignored(m) /\ m.type = "error"
    BY <2>6 DEF Receive, KeepMirror, m
  <2>7. QED
    BY <1>2, <2>1, <2>2, <2>3, <2>4, <2>5, <2>6 DEF MessageType
<1>8. MirrorInv'
  BY <1>2, <1>5, <1>6, <1>7 DEF MirrorInv
<1>9. QED
  BY <1>3, <1>4, <1>8 DEF RecoveryInv

\* A lost connection leaves the mirror, and nothing on its way.
LEMMA ConnectionLost ==
  ASSUME RecoveryInv, LoseConnection, StreamInv',
         \/ inc' = inc /\ head' >= head
         \/ inc' = inc + 1
  PROVE  RecoveryInv'
<1>1. ChannelInv'
  <2>1. request' = 0 /\ cut' = 0 /\ queued' = << >> /\ outbox' = << >>
        /\ toClient' = << >> /\ toServer' = << >>
    BY DEF LoseConnection, CloseChannel, ChannelIdle
  <2>2. 0 \in 0..head'
    BY DEF StreamInv
  <2>3. QED
    BY <2>1, <2>2, EmptyQueues DEF ChannelInv
<1>2. MirrorInv'
  <2>1. UNCHANGED <<calls, cinc, applied>>
    BY DEF LoseConnection, DisconnectClient
  <2>2. inc \in Nat /\ head \in Nat /\ head' \in Nat /\ MirrorInv
    BY DEF RecoveryInv, StreamInv
  <2>3. CASE inc' = inc /\ head' >= head
    BY <2>1, <2>2, <2>3 DEF MirrorInv
  <2>4. CASE inc' = inc + 1
    BY <2>1, <2>2, <2>4 DEF MirrorInv
  <2>5. QED
    BY <2>3, <2>4
<1>3. QED
  BY <1>1, <1>2 DEF RecoveryInv

\* Messages lost, repeated or overtaken are still the messages there were.
LEMMA MisdeliverKeeps ==
  ASSUME NEW M, toClient \in Seq(M), Misdeliver
  PROVE  toClient' \in Seq(M)
<1>2. PICK k \in 1..Len(toClient) :
        \/ toClient' = RemoveAt(toClient, k)
        \/ toClient' = InsertAt(toClient, k, toClient[k])
        \/ /\ k < Len(toClient)
           /\ toClient' = [toClient EXCEPT ![k] = toClient[k + 1],
                                           ![k + 1] = toClient[k]]
  BY DEF Misdeliver
<1>3. Len(toClient) \in Nat /\ k \in Int /\ toClient[k] \in M
      /\ \A i \in 1..Len(toClient) : toClient[i] \in M
  OBVIOUS
<1>4. /\ SubSeq(toClient, 1, k - 1) \in Seq(M)
      /\ SubSeq(toClient, k, Len(toClient)) \in Seq(M)
      /\ SubSeq(toClient, k + 1, Len(toClient)) \in Seq(M)
  BY <1>3, SubSeqProperties
<1>5. <<toClient[k]>> \in Seq(M)
  BY <1>3
<1>6. CASE toClient' = RemoveAt(toClient, k)
  BY <1>4, <1>6, ConcatProperties DEF RemoveAt
<1>7. CASE toClient' = InsertAt(toClient, k, toClient[k])
  BY <1>4, <1>5, <1>7, ConcatProperties DEF InsertAt
<1>8. CASE /\ k < Len(toClient)
           /\ toClient' = [toClient EXCEPT ![k] = toClient[k + 1], ![k + 1] = toClient[k]]
  <2>1. toClient[k + 1] \in M
    BY <1>3, <1>8
  <2>2. QED
    BY <1>3, <1>8, <2>1
<1>9. QED
  BY <1>2, <1>6, <1>7, <1>8

LEMMA MisdeliverStep ==
  ASSUME RecoveryInv, Misdeliver
  PROVE  RecoveryInv'
<1>1. toClient' \in Seq(MessageUpTo(inc, head))
  BY MisdeliverKeeps DEF RecoveryInv, ChannelInv
<1>2. QED
  BY <1>1 DEF Misdeliver, streamVars, channelVars, clientVars, RecoveryInv,
              StreamInv, ChannelInv, MirrorInv

-----------------------------------------------------------------------------
(* The invariant.                                                           *)

LEMMA RecoveryInit == Init => RecoveryInv
<1> SUFFICES ASSUME Init PROVE RecoveryInv
  OBVIOUS
<1>1. StreamInv
  BY DEF Init, ServerInit, StreamInit, StreamInv
<1>2. ChannelInv
  <2>1. \A S : << >> \in Seq(S)
    BY EmptyQueues
  <2>2. QED
    BY <2>1 DEF Init, ServerInit, StreamInit, ChannelInv
<1>3. MirrorInv
  BY EmptyQueues DEF Init, ServerInit, StreamInit, MirrorInv
<1>4. QED
  BY <1>1, <1>2, <1>3 DEF RecoveryInv

LEMMA RecoveryStep == RecoveryInv /\ [Next]_vars => RecoveryInv'
<1> SUFFICES ASSUME RecoveryInv, [Next]_vars PROVE RecoveryInv'
  OBVIOUS
<1>1. CASE Serve
  <2>1. CASE Install
    BY <1>1, <2>1 DEF Install, Serve, channelVars, clientVars, RecoveryInv,
                      StreamInv, ChannelInv, MirrorInv
  <2>2. CASE Ingest
    BY <1>1, <2>2, IngestStep DEF Serve
  <2>3. CASE HandleRecover
    BY <1>1, <2>3, HandleRecoverStep DEF Serve
  <2>4. CASE SendNext \/ Complete \/ Drain \/ Abort
    BY <1>1, <2>4, ChannelStep DEF Serve
  <2>5. QED
    BY <1>1, <2>1, <2>2, <2>3, <2>4 DEF Serve, ServerStep
<1>2. CASE Connect \/ Disconnect \/ DisposeRecovery
  BY <1>2 DEF Connect, Disconnect, DisconnectClient, DisposeRecovery, streamVars,
              channelVars, RecoveryInv, StreamInv, ChannelInv, MirrorInv
<1>3. CASE Recover
  <2>1. CursorMessage \in Cursor /\ toServer \in Seq(Cursor)
    BY DEF CursorMessage, Cursor, RecoveryInv, ChannelInv, MirrorInv
  <2>2. toServer' \in Seq(Cursor)
    BY <1>3, <2>1, AppendProperties DEF Recover
  <2>3. QED
    BY <1>3, <2>2 DEF Recover, streamVars, channelVars, RecoveryInv, StreamInv,
                      ChannelInv, MirrorInv
<1>4. CASE Receive
  BY <1>4, ReceiveStep
<1>5. CASE Drop
  <2>1. StreamInv' /\ inc' = inc /\ head' >= head
    BY <1>5 DEF Drop, streamVars, RecoveryInv, StreamInv
  <2>2. QED
    BY <1>5, <2>1, ConnectionLost DEF Drop
<1>6. CASE RestartFresh
  <2>1. StreamInv' /\ inc' = inc + 1
    BY <1>6 DEF RestartFresh, RecoveryInv, StreamInv
  <2>2. QED
    BY <1>6, <2>1, ConnectionLost DEF RestartFresh
<1>7. CASE RestartRestored
  <2>1. StreamInv' /\ inc' = inc /\ head' >= head
    BY <1>7, HistoryAssumption
    DEF RestartRestored, TrimmedFloor, RecoveryInv, StreamInv
  <2>2. QED
    BY <1>7, <2>1, ConnectionLost DEF RestartRestored
<1>8. CASE Halt
  <2>1. 0 \in 0..head
    BY DEF RecoveryInv, StreamInv
  <2>2. QED
    BY <1>8, <2>1, EmptyQueues
    DEF Halt, CloseChannel, ChannelIdle, clientVars, RecoveryInv, StreamInv,
        ChannelInv, MirrorInv
<1>9. CASE Misdeliver
  BY <1>9, MisdeliverStep
<1>10. CASE UNCHANGED vars
  BY <1>10 DEF vars, streamVars, channelVars, clientVars, RecoveryInv, StreamInv,
               ChannelInv, MirrorInv
<1>11. QED
  BY <1>1, <1>2, <1>3, <1>4, <1>5, <1>6, <1>7, <1>8, <1>9, <1>10 DEF Next

(* What holds of recovery whatever the mirror shows: no message, queued     *)
(* commit or cursor is ahead of the authority of its incarnation.           *)
LEMMA NeverAhead == Spec => []RecoveryInv
<1>1. Init => RecoveryInv
  BY RecoveryInit
<1>2. RecoveryInv /\ [Next]_vars => RecoveryInv'
  BY RecoveryStep
<1>3. QED
  BY <1>1, <1>2, PTL DEF Spec

-----------------------------------------------------------------------------
(* Recovery implements MirroredLog.  What is beyond the mirror itself is     *)
(* when it may say it is up to date: a plan that answers the last request    *)
(* was made after it, so neither the plan's head nor the boundary behind it  *)
(* is older than what the log had at the call of recover().                  *)

AnyMessage == [type : MessageType, id : Nat, inc : Nat, rev : Nat, how : How]

\* The messages to a client that has made n requests, the last one, while it is
\* pending, at revision r; and those that follow a plan.
Answers(n, r, pending) ==
  {m \in AnyMessage : m.id <= n /\ (pending /\ m.type = "plan" /\ m.id = n => m.rev >= r)}
Unplanned(n) == {m \in AnyMessage : m.id <= n /\ m.type # "plan"}

AskedInv ==
  /\ request <= calls
  /\ toServer \in Seq({c \in Cursor : c.id <= calls})
  /\ outbox \in Seq(Unplanned(calls))
  /\ toClient \in Seq(Answers(calls, asked.rev, Recovering))
  /\ asked \in [inc : Nat, rev : Nat]
  /\ Recovering =>
       /\ asked.inc = inc /\ asked.rev <= head
       /\ cinc = inc /\ ~got /\ plan \in {"none", "snapshot"} => applied <= asked.rev
  /\ life = "awaiting-plan" => plan = "none" /\ ~got
  /\ life = "consuming" => plan # "none" /\ planInc = inc /\ planRev \in Nat /\ planRev >= asked.rev

LEMMA AnswersGrow ==
  ASSUME NEW n \in Nat, NEW r, NEW b
  PROVE  /\ \A s \in Seq(Unplanned(n)) : s \in Seq(Answers(n, r, b))
         /\ \A s \in Seq(Answers(n, r, b)) :
              s \in Seq(Answers(n, r, FALSE)) /\ \A q, c : s \in Seq(Answers(n + 1, q, c))
<1>1. Unplanned(n) \subseteq Answers(n, r, b) /\ Answers(n, r, b) \subseteq Answers(n, r, FALSE)
  BY DEF Unplanned, Answers
<1>2. \A q, c : Answers(n, r, b) \subseteq Answers(n + 1, q, c)
  BY DEF Answers, AnyMessage
<1>. QED
  BY <1>1, <1>2, SeqMonotonic

LEMMA CommitsUnplanned ==
  ASSUME inc \in Nat, NEW n \in Nat, NEW id \in 0..n, NEW revs \in Seq(Nat), NEW phase \in How
  PROVE  CommitMessages(id, revs, phase) \in Seq(Unplanned(n))
<1>1. Len(revs) \in Nat /\ \A k \in 1..Len(revs) : revs[k] \in Nat
  OBVIOUS
<1>2. ASSUME NEW k \in 1..Len(revs)
      PROVE  Message("commit", id, revs[k], phase) \in Unplanned(n)
  BY <1>1 DEF Message, Unplanned, AnyMessage, MessageType
<1>. QED
  BY <1>1, <1>2 DEF CommitMessages

LEMMA BodyUnplanned ==
  ASSUME RecoveryInv, NEW n \in Nat, NEW c \in Cursor, c.id <= n
  PROVE  Body(c) \in Seq(Unplanned(n))
<1>1. inc \in Nat /\ head \in Nat /\ floor \in Nat /\ mapRev \in Nat /\ c.id \in 0..n /\ c.rev \in Nat
  BY DEF RecoveryInv, StreamInv, Cursor
<1>2. CASE Outcome(c) = "snapshot"
  <2>1. Message("snapshot", c.id, mapRev, "body") \in Unplanned(n)
    BY <1>1 DEF Message, Unplanned, AnyMessage, MessageType, How
  <2>2. QED
    BY <1>2, <2>1 DEF Body
<1>3. CASE Outcome(c) = "replay"
  <2>1. ReplayAfter(c.rev) \in Seq(0..head)
    BY <1>1, ReplayTyped
  <2>2. ReplayAfter(c.rev) \in Seq(Nat)
    BY <1>1, <2>1, SeqMonotonic
  <2>3. QED
    BY <1>1, <1>3, <2>2, CommitsUnplanned DEF Body, How
<1>4. CASE Outcome(c) \notin {"snapshot", "replay"}
  BY <1>4, EmptyQueues DEF Body
<1>. QED
  BY <1>2, <1>3, <1>4

\* The server answers the requests it has received, at the head it has by then.
LEMMA AskedServed ==
  ASSUME RecoveryInv, AskedInv, Serve
  PROVE  AskedInv'
<1>. DEFINE U == Unplanned(calls)
            A == Answers(calls, asked.rev, Recovering)
<1>1. /\ inc \in Nat /\ head \in Nat /\ mapRev \in Nat /\ calls \in Nat /\ request \in Nat
      /\ inc' = inc /\ head' \in Nat /\ head' >= head /\ UNCHANGED clientVars
  BY DEF RecoveryInv, StreamInv, ChannelInv, MirrorInv, Serve, ServerStep, Install, Ingest, HandleRecover,
     SendNext, Complete, Drain, Abort, streamVars
<1>2. request <= calls /\ toServer \in Seq({c \in Cursor : c.id <= calls}) /\ outbox \in Seq(U)
      /\ toClient \in Seq(A)
  BY DEF AskedInv
<1>3. SUFFICES /\ request' <= calls /\ toServer' \in Seq({c \in Cursor : c.id <= calls})
               /\ outbox' \in Seq(U) /\ toClient' \in Seq(A)
  BY <1>1 DEF AskedInv, clientVars, Recovering
<1>4. << >> \in Seq(U) /\ \A m \in A : Append(toClient, m) \in Seq(A)
  BY <1>2, EmptyQueues, AppendProperties
<1>5. U \subseteq A
  BY DEF Unplanned, Answers
<1>6. queued \in Seq(Nat)
  <2>1. queued \in Seq(0..head) /\ 0..head \subseteq Nat
    BY <1>1 DEF RecoveryInv, ChannelInv
  <2>2. QED
    BY <2>1, SeqMonotonic
<1>7. ASSUME NEW id \in 0..calls, NEW rev \in Nat, NEW type \in MessageType \ {"plan"}, NEW how \in How
      PROVE  Message(type, id, rev, how) \in U
  BY <1>1 DEF Message, Unplanned, AnyMessage
<1>8. ASSUME NEW id \in 0..calls, NEW how \in How PROVE Message("plan", id, head, how) \in A
  <2>1. Recovering => asked.rev <= head
    BY DEF AskedInv
  <2>2. QED
    BY <1>1, <2>1 DEF Message, Answers, AnyMessage, MessageType
<1>9. CASE Install
  BY <1>2, <1>9 DEF Install, channelVars
<1>10. CASE Ingest
  <2>1. toClient' = toClient \/ toClient' = Append(toClient, Message("commit", request, head', "live"))
    BY <1>10 DEF Ingest, Observe, EnqueueTail, HoldLive, SendLive, Send
  <2>2. Message("commit", request, head', "live") \in A
    BY <1>1, <1>2, <1>5, <1>7 DEF MessageType, How
  <2>3. QED
    BY <1>2, <1>4, <1>10, <2>1, <2>2 DEF Ingest
<1>11. CASE HandleRecover
  <2>. DEFINE c == Head(toServer)
  <2>1. c \in Cursor /\ c.id \in 0..calls /\ Tail(toServer) \in Seq({d \in Cursor : d.id <= calls})
    <3>1. c \in {d \in Cursor : d.id <= calls}
      BY <1>2, <1>11, HeadTailProperties DEF HandleRecover
    <3>2. QED
      BY <1>2, <1>11, <3>1, HeadTailProperties DEF HandleRecover, Cursor
  <2>2. Outcome(c) \in How
    BY DEF Outcome, How, Outcomes
  <2>. HIDE DEF c
  <2>3. Body(c) \in Seq(U)
    BY <1>1, <2>1, BodyUnplanned
  <2>4. ~SnapshotTorn(c) => PlanHead(c) = head
    BY DEF SnapshotTorn, PlanHead
  <2>5. /\ Message("error", c.id, 0, "refused") \in A /\ Message("error", c.id, 0, "planning") \in A
        /\ Message("plan", c.id, head, "reject") \in A /\ Message("plan", c.id, head, Outcome(c)) \in A
    BY <1>5, <1>7, <1>8, <2>1, <2>2 DEF MessageType, How, Outcomes
  <2>6. toServer' = Tail(toServer) /\ (Refuse(c) \/ PlanFails(c) \/ Reject(c) \/ Plan(c))
    BY <1>11 DEF HandleRecover, c
  <2>. HIDE DEF U, A
  <2>7. CASE Refuse(c)
    BY <1>2, <1>4, <2>1, <2>5, <2>6, <2>7 DEF Refuse, Send
  <2>8. CASE PlanFails(c) \/ Reject(c)
    <3>1. request' = c.id /\ outbox' = << >> /\ toServer' = Tail(toServer)
          /\ \E m \in A : toClient' = Append(toClient, m)
      BY <2>5, <2>6, <2>8 DEF PlanFails, Reject, Send, ChannelIdle
    <3>2. QED
      BY <1>1, <1>2, <1>4, <2>1, <3>1
  <2>9. CASE Plan(c)
    BY <1>2, <1>4, <2>1, <2>3, <2>4, <2>5, <2>6, <2>9 DEF Plan, Send
  <2>. QED
    BY <2>6, <2>7, <2>8, <2>9
<1>12. CASE SendNext
  <2>1. Head(outbox) \in U /\ Tail(outbox) \in Seq(U)
    BY <1>2, <1>12, HeadTailProperties DEF SendNext
  <2>2. QED
    BY <1>2, <1>4, <1>5, <1>12, <2>1 DEF SendNext, Send
<1>13. CASE Complete
  <2>. DEFINE rest == Append(CommitMessages(request, queued, "tail"),
                             Message("caught-up", request, ThroughRev, "end"))
  <2>1. ThroughRev \in Nat
    BY <1>1, <1>6 DEF ThroughRev, RecoveryInv, ChannelInv
  <2>2. Message("caught-up", request, ThroughRev, "end") \in U
    BY <1>1, <1>2, <1>7, <2>1 DEF MessageType, How
  <2>3. CommitMessages(request, queued, "tail") \in Seq(U)
    BY <1>1, <1>2, <1>6, CommitsUnplanned DEF How
  <2>4. rest \in Seq(U) /\ rest # << >>
    BY <2>2, <2>3, AppendProperties
  <2>5. Send(Head(rest)) /\ outbox' = Tail(rest) /\ UNCHANGED <<request, toServer>>
    BY <1>13 DEF Complete
  <2>. HIDE DEF rest
  <2>6. Head(rest) \in U /\ Tail(rest) \in Seq(U)
    BY <2>4, HeadTailProperties
  <2>7. QED
    BY <1>2, <1>4, <1>5, <2>5, <2>6 DEF Send
<1>14. CASE Drain
  <2>1. queued # << >> => Message("commit", request, Head(queued), "live") \in A
    BY <1>1, <1>2, <1>5, <1>6, <1>7, HeadTailProperties DEF MessageType, How
  <2>2. QED
    BY <1>2, <1>4, <1>14, <2>1 DEF Drain, Send, ChannelIdle
<1>15. CASE Abort
  <2>1. Message("error", request, 0, "aborted") \in A
    BY <1>1, <1>2, <1>5, <1>7 DEF MessageType, How
  <2>2. QED
    BY <1>2, <1>4, <1>15, <2>1 DEF Abort, Send, ChannelIdle
<1>. QED
  BY <1>9, <1>10, <1>11, <1>12, <1>13, <1>14, <1>15 DEF Serve, ServerStep

LEMMA AskedReceived ==
  ASSUME RecoveryInv, AskedInv, Receive
  PROVE  AskedInv'
<1>. DEFINE m == Head(toClient)
<1>1. /\ m \in MessageUpTo(inc, head) /\ m \in Answers(calls, asked.rev, Recovering)
      /\ Tail(toClient) \in Seq(Answers(calls, asked.rev, Recovering))
  BY HeadTailProperties DEF RecoveryInv, ChannelInv, AskedInv, Receive
<1>2. /\ m.inc = inc /\ m.rev \in Nat /\ m.type \in MessageType
      /\ (Recovering /\ m.type = "plan" /\ m.id = calls => m.rev >= asked.rev)
  BY <1>1 DEF MessageUpTo, Answers
<1>. HIDE DEF m
<1>3. /\ UNCHANGED <<calls, asked, inc, head, request, toServer, outbox>> /\ toClient' = Tail(toClient)
      /\ calls \in Nat /\ inc \in Nat /\ applied \in Nat /\ asked.rev \in Nat
  BY DEF Receive, streamVars, channelVars, RecoveryInv, StreamInv, MirrorInv, AskedInv
<1>. DEFINE Pending == Recovering =>
              /\ asked.inc = inc /\ asked.rev <= head
              /\ cinc = inc /\ ~got /\ plan \in {"none", "snapshot"} => applied <= asked.rev
            Planned == /\ life = "awaiting-plan" => plan = "none" /\ ~got
                       /\ life = "consuming" => plan # "none" /\ planInc = inc /\ planRev \in Nat
                                                /\ planRev >= asked.rev
<1>4. Pending /\ Planned
  BY DEF AskedInv
<1>5. SUFFICES (Recovering' => Recovering) /\ Pending' /\ Planned'
  <2>1. CASE Recovering' = Recovering
    BY <1>1, <1>3, <1>5, <2>1 DEF AskedInv
  <2>2. CASE ~Recovering'
    <3>1. toClient' \in Seq(Answers(calls, asked.rev, FALSE))
      BY <1>1, <1>3, AnswersGrow
    <3>2. toClient' \in Seq(Answers(calls, asked.rev, Recovering)')
      <4>1. Answers(calls, asked.rev, FALSE) = Answers(calls, asked.rev, Recovering)'
        BY <1>3, <2>2 DEF Answers
      <4>2. QED
        BY <3>1, <4>1
    <3>3. QED
      BY <1>3, <1>5, <2>2, <3>2 DEF AskedInv
  <2>3. QED
    BY <1>5, <2>1, <2>2 DEF Recovering
<1>6. \A why : Fail(why) => life' = "failed"
  BY DEF Fail
<1>7. CASE life' = "failed"
  BY <1>7 DEF Recovering
<1>8. CASE GoOn(got, tailing) /\ KeepMirror
  BY <1>3, <1>4, <1>8 DEF GoOn, KeepMirror, Recovering
<1>9. CASE ~Ignored(m) /\ m.type = "plan"
  <2>1. OnPlan(m) /\ m.id = calls
    BY <1>9 DEF Receive, m, Ignored
  <2>2. CASE \E why : Fail(why)
    BY <1>6, <1>7, <2>2
  <2>3. CASE /\ life = "awaiting-plan" /\ life' = "consuming" /\ m.how # "reject"
             /\ plan' = m.how /\ planRev' = m.rev /\ planInc' = m.inc /\ got' = FALSE
    <3>1. m.how # "none"
      BY <1>1 DEF m, MessageUpTo, How, Outcomes
    <3>2. cinc' = cinc /\ applied' = applied
      BY <2>1 DEF OnPlan, KeepMirror
    <3>3. QED
      BY <1>2, <1>3, <1>4, <1>9, <2>1, <2>3, <3>1, <3>2 DEF Recovering
  <2>4. QED
    BY <2>1, <2>2, <2>3 DEF OnPlan
<1>10. CASE ~Ignored(m) /\ m.type = "commit"
  <2>1. OnCommit(m)
    BY <1>10 DEF Receive, m
  <2>2. CASE CommitInOrder(m) /\ \E t : GoOn(got, t)
    BY <1>3, <1>4, <2>2 DEF CommitInOrder, GoOn, Recovering
  <2>3. QED
    BY <1>6, <1>7, <2>1, <2>2 DEF OnCommit, Apply, Shown
<1>11. CASE ~Ignored(m) /\ m.type = "snapshot"
  <2>1. OnSnapshot(m)
    BY <1>11 DEF Receive, m
  <2>2. QED
    BY <1>3, <1>4, <1>6, <1>7, <2>1 DEF OnSnapshot, InstallFails, Shown, GoOn, Recovering
<1>12. CASE ~Ignored(m) /\ m.type = "caught-up"
  <2>1. OnCaughtUp(m)
    BY <1>12 DEF Receive, m
  <2>2. QED
    BY <1>6, <1>7, <2>1 DEF OnCaughtUp, Recovering
<1>13. CASE ~Ignored(m) /\ m.type = "error"
  <2>1. Fail("server")
    BY <1>13 DEF Receive, m
  <2>2. QED
    BY <1>6, <1>7, <2>1
<1>14. CASE Ignored(m)
  BY <1>8, <1>14 DEF Receive, m
<1>. QED
  BY <1>2, <1>9, <1>10, <1>11, <1>12, <1>13, <1>14 DEF MessageType

\* A lost connection leaves no request pending and nothing on its way.
LEMMA AskedLost ==
  ASSUME RecoveryInv, AskedInv, LoseConnection
  PROVE  AskedInv'
<1>1. /\ request' = 0 /\ outbox' = << >> /\ toClient' = << >> /\ toServer' = << >>
      /\ UNCHANGED <<calls, asked>> /\ life' \notin {"awaiting-plan", "consuming"} /\ calls \in Nat
  BY DEF LoseConnection, CloseChannel, ChannelIdle, DisconnectClient, RecoveryInv, MirrorInv
<1>. QED
  BY <1>1, EmptyQueues DEF AskedInv, Recovering

LEMMA AskedStep == RecoveryInv /\ AskedInv /\ [Next]_vars => AskedInv'
<1>. SUFFICES ASSUME RecoveryInv, AskedInv, [Next]_vars PROVE AskedInv'
  OBVIOUS
<1>0. calls \in Nat /\ inc \in Nat /\ head \in Nat /\ applied \in Nat /\ cinc \in Nat
      /\ (cinc = inc => applied <= head)
  BY DEF RecoveryInv, StreamInv, MirrorInv
<1>1. CASE Connect \/ Disconnect \/ DisposeRecovery
  <2>1. UNCHANGED <<calls, asked, inc, head, request, toServer, outbox, toClient>>
        /\ life' \notin {"awaiting-plan", "consuming"}
    BY <1>1 DEF Connect, Disconnect, DisconnectClient, DisposeRecovery, streamVars, channelVars
  <2>2. toClient' \in Seq(Answers(calls, asked.rev, FALSE))
    BY <1>0, <2>1, AnswersGrow DEF AskedInv
  <2>3. Answers(calls, asked.rev, FALSE) = Answers(calls, asked.rev, Recovering)'
    BY <2>1 DEF Answers, Recovering
  <2>4. QED
    BY <2>1, <2>2, <2>3 DEF AskedInv, Recovering
<1>2. CASE Recover
  <2>1. /\ calls' = calls + 1 /\ asked' = [inc |-> inc, rev |-> head] /\ life' = "awaiting-plan"
        /\ toServer' = Append(toServer, CursorMessage) /\ plan' = "none" /\ got' = FALSE
        /\ UNCHANGED <<inc, head, cinc, applied, request, outbox, toClient>>
    BY <1>2 DEF Recover, NoPlan, streamVars, channelVars
  <2>2. CursorMessage \in {c \in Cursor : c.id <= calls + 1}
    BY <1>0 DEF CursorMessage, Cursor
  <2>3. {c \in Cursor : c.id <= calls} \subseteq {c \in Cursor : c.id <= calls + 1}
    BY <1>0 DEF Cursor
  <2>4. toServer' \in Seq({c \in Cursor : c.id <= calls + 1})
    BY <2>1, <2>2, <2>3, SeqMonotonic, AppendProperties DEF AskedInv
  <2>5. outbox' \in Seq(Unplanned(calls + 1))
    <3>1. Unplanned(calls) \subseteq Unplanned(calls + 1)
      BY <1>0 DEF Unplanned, AnyMessage
    <3>2. QED
      BY <2>1, <3>1, SeqMonotonic DEF AskedInv
  <2>6. toClient' \in Seq(Answers(calls, asked.rev, Recovering)')
    <3>1. Answers(calls, asked.rev, Recovering)' = Answers(calls + 1, asked'.rev, Recovering')
      BY <2>1 DEF Answers
    <3>2. QED
      BY <1>0, <2>1, <3>1, AnswersGrow DEF AskedInv
  <2>7. request' <= calls'
    BY <1>0, <2>1 DEF AskedInv, RecoveryInv, ChannelInv
  <2>8. QED
    BY <1>0, <2>1, <2>4, <2>5, <2>6, <2>7 DEF AskedInv
<1>3. CASE Drop \/ RestartFresh \/ RestartRestored
  BY <1>3, AskedLost DEF Drop, RestartFresh, RestartRestored
<1>4. CASE Halt
  <2>1. /\ request' = 0 /\ outbox' = << >>
        /\ UNCHANGED <<clientVars, inc, head, toClient, toServer>>
    BY <1>4 DEF Halt, CloseChannel, ChannelIdle
  <2>2. QED
    BY <1>0, <2>1, EmptyQueues DEF AskedInv, Recovering, clientVars
<1>5. CASE Misdeliver
  <2>1. toClient' \in Seq(Answers(calls, asked.rev, Recovering))
    BY <1>5, MisdeliverKeeps DEF AskedInv
  <2>2. QED
    BY <1>5, <2>1 DEF AskedInv, Recovering, Misdeliver, streamVars, channelVars, clientVars
<1>6. CASE UNCHANGED vars
  BY <1>6 DEF AskedInv, Recovering, vars, streamVars, channelVars, clientVars
<1>. QED
  BY <1>1, <1>2, <1>3, <1>4, <1>5, <1>6, AskedServed, AskedReceived DEF Next

LEMMA CommitsPrefix ==
  ASSUME NEW i \in Nat, NEW j \in Nat, NEW n \in Nat, NEW k \in Nat
  PROVE  /\ Len(Commits(i, n)) = n
         /\ n <= k => Mirrored!IsPrefix(Commits(i, n), Commits(i, k))
         /\ Mirrored!IsPrefix(Commits(j, n), Commits(i, k)) => n <= k /\ (n = 0 \/ j = i)
<1>. DEFINE C == [inc : Nat, rev : Nat]
<1>1. \A h \in Nat, p \in Nat : /\ Commits(h, p) \in Seq(C) /\ Len(Commits(h, p)) = p
                                /\ \A x \in 1..p : Commits(h, p)[x] = [inc |-> h, rev |-> x]
  BY DEF Commits
<1>. HIDE DEF C
<1>2. ASSUME NEW h \in Nat, NEW p \in Nat, n <= p
      PROVE  /\ Len(SubSeq(Commits(h, p), 1, n)) = n
             /\ SubSeq(Commits(h, p), 1, n) \in Seq(C)
             /\ \A x \in 1..n : SubSeq(Commits(h, p), 1, n)[x] = [inc |-> h, rev |-> x]
  <2>. DEFINE s == Commits(h, p)
  <2>1. s \in Seq(C) /\ Len(s) = p /\ \A x \in 1..p : s[x] = [inc |-> h, rev |-> x]
    BY <1>1
  <2>. HIDE DEF s
  <2>2. 1 \in 1..Len(s)+1 /\ n \in 0..Len(s)
    BY <1>2, <2>1
  <2>3. /\ SubSeq(s, 1, n) \in Seq(C) /\ Len(SubSeq(s, 1, n)) = n
        /\ \A x \in 1..n : SubSeq(s, 1, n)[x] = s[x]
    BY <1>2, <2>1, <2>2, SubSeqProperties
  <2>4. QED
    BY <1>2, <2>1, <2>3 DEF s
<1>3. ASSUME n <= k PROVE Mirrored!IsPrefix(Commits(i, n), Commits(i, k))
  <2>1. SubSeq(Commits(i, n), 1, n) = SubSeq(Commits(i, k), 1, n)
    <3>. DEFINE s == SubSeq(Commits(i, n), 1, n)
                t == SubSeq(Commits(i, k), 1, n)
    <3>1. /\ s \in Seq(C) /\ Len(s) = n /\ \A x \in 1..n : s[x] = [inc |-> i, rev |-> x]
          /\ t \in Seq(C) /\ Len(t) = n /\ \A x \in 1..n : t[x] = [inc |-> i, rev |-> x]
      BY <1>2, <1>3
    <3>. HIDE DEF s, t
    <3>2. s = t
      BY <3>1, SeqEqual
    <3>3. QED
      BY <3>2 DEF s, t
  <2>2. QED
    BY <1>1, <1>3, <2>1 DEF Mirrored!IsPrefix
<1>4. ASSUME Mirrored!IsPrefix(Commits(j, n), Commits(i, k)) PROVE n <= k /\ (n = 0 \/ j = i)
  <2>1. n <= k /\ SubSeq(Commits(j, n), 1, n) = SubSeq(Commits(i, k), 1, n)
    BY <1>1, <1>4 DEF Mirrored!IsPrefix
  <2>2. n # 0 => [inc |-> j, rev |-> 1] = [inc |-> i, rev |-> 1]
    BY <1>2, <2>1
  <2>3. QED
    BY <2>1, <2>2
<1>. QED
  BY <1>1, <1>3, <1>4

-----------------------------------------------------------------------------
(* What the mirror shows.  It is the state at the client's cursor, or one   *)
(* that a snapshot whose install threw has left behind.  Then the cursor is *)
(* one the planner can answer with a snapshot only, now and ever after, so  *)
(* a plan that goes on from the cursor finds the mirror there.              *)

Installing == life = "consuming" /\ plan = "snapshot" /\ ~got

\* The last request carries the cursor, as long as its plan is awaited.
OwnRequests ==
  {c \in Cursor : life = "awaiting-plan" /\ c.id = calls => c.inc = cinc /\ c.rev = applied}

\* A plan that answers it replays from a cursor the mirror is at.
OwnPlans ==
  {m \in AnyMessage :
     life = "awaiting-plan" /\ m.type = "plan" /\ m.id = calls =>
       IF m.how = "snapshot" THEN CursorOutrun ELSE m.how = "reject" \/ AtCursor}

\* The mirror shows n commits of incarnation i, no more than the log had at
\* the last recover() while its answer may still replace them.
Showing(i, n) ==
  /\ mirror = Commits(i, n)
  /\ i = inc => n <= head /\ (life = "awaiting-plan" \/ Installing => n <= asked.rev)

ShownInv ==
  /\ AtCursor \/ CursorOutrun
  /\ \E i \in 1..inc, n \in Nat : Showing(i, n)
  /\ toServer \in Seq(OwnRequests)
  /\ toClient \in Seq(OwnPlans)
  /\ Installing => CursorOutrun
  /\ life = "caught-up" \/ (life = "consuming" /\ ~Installing) => AtCursor

\* The planner replays from the floor on, and snapshots what is below it.
LEMMA OutcomeMeans ==
  ASSUME RecoveryInv, NEW c \in Cursor
  PROVE  /\ Outcome(c) = "snapshot" => c.inc # inc \/ c.rev < floor
         /\ Outcome(c) \in {"current", "replay"} => c.inc = inc /\ c.rev >= floor
<1>1. head \in Nat /\ floor \in Nat /\ floor <= head /\ c.rev \in Nat
  BY DEF RecoveryInv, StreamInv, Cursor
<1>2. c.rev < floor => ReplayAfter(c.rev) = << >>
  BY <1>1 DEF ReplayAfter
<1>3. c.rev >= floor /\ c.rev < head => ReplayAfter(c.rev) # << >>
  <2> SUFFICES ASSUME c.rev >= floor, c.rev < head PROVE ReplayAfter(c.rev) # << >>
    OBVIOUS
  <2>1. Len(ReplayAfter(c.rev)) = head - c.rev
    BY <1>1 DEF ReplayAfter, Following
  <2>2. QED
    BY <1>1, <2>1
<1>4. QED
  BY <1>1, <1>2, <1>3 DEF Outcome

\* A cursor the stream has outrun stays so until it moves.
LEMMA OutrunStays ==
  ASSUME RecoveryInv, CursorOutrun, UNCHANGED <<cinc, applied>>,
         \/ inc' = inc /\ floor' \in Nat /\ floor' >= floor
         \/ inc' = inc + 1
  PROVE  CursorOutrun'
  BY DEF RecoveryInv, StreamInv, MirrorInv, CursorOutrun

\* What the server sends: a plan for the cursor it was asked about, or else.
LEMMA Answered ==
  ASSUME RecoveryInv, AskedInv, Serve
  PROVE  \/ toClient' = toClient
         \/ \E m : toClient' = Append(toClient, m) /\ m.type # "plan"
         \/ \E c \in Range(toServer) : \E m :
              /\ toClient' = Append(toClient, m)
              /\ m.id = c.id /\ (m.how = "reject" \/ m.how = Outcome(c))
<1>1. CASE Install
  BY <1>1 DEF Install
<1>2. CASE Ingest
  <2>1. toClient' = toClient \/ toClient' = Append(toClient, Message("commit", request, head', "live"))
    BY <1>2 DEF Ingest, Observe, EnqueueTail, HoldLive, SendLive, Send
  <2>2. Message("commit", request, head', "live").type # "plan"
    BY DEF Message
  <2>3. QED
    BY <2>1, <2>2
<1>3. CASE HandleRecover
  <2> DEFINE c == Head(toServer)
  <2>1. c \in Range(toServer)
    BY <1>3 DEF HandleRecover, RecoveryInv, ChannelInv, Range
  <2>2. Refuse(c) \/ PlanFails(c) \/ Reject(c) \/ Plan(c)
    BY <1>3 DEF HandleRecover
  <2> HIDE DEF c
  <2>3. CASE Refuse(c)
    BY <2>3 DEF Refuse, Send, Message
  <2>4. CASE PlanFails(c)
    BY <2>4 DEF PlanFails, Send, Message
  <2>5. CASE Reject(c)
    BY <2>1, <2>5 DEF Reject, Send, Message
  <2>6. CASE Plan(c)
    BY <2>1, <2>6 DEF Plan, Send, Message
  <2>7. QED
    BY <2>2, <2>3, <2>4, <2>5, <2>6
<1>4. CASE SendNext
  <2>1. Head(outbox) \in Unplanned(calls)
    BY <1>4, HeadTailProperties DEF SendNext, AskedInv
  <2>2. QED
    BY <1>4, <2>1 DEF SendNext, Send, Unplanned
<1>5. CASE Complete
  <2> DEFINE rest == Append(CommitMessages(request, queued, "tail"),
                            Message("caught-up", request, ThroughRev, "end"))
             U == {Message("commit", request, queued[k], "tail") : k \in 1..Len(queued)}
                    \cup {Message("caught-up", request, ThroughRev, "end")}
  <2>1. \A m \in U : m.type # "plan"
    BY DEF Message
  <2>2. Message("caught-up", request, ThroughRev, "end") \in U
    OBVIOUS
  <2>3. CommitMessages(request, queued, "tail") \in Seq(U)
    <3>1. Len(queued) \in Nat
      BY DEF RecoveryInv, ChannelInv
    <3>2. QED
      BY <3>1 DEF CommitMessages
  <2> HIDE DEF U
  <2>4. rest \in Seq(U) /\ rest # << >>
    BY <2>2, <2>3, AppendProperties
  <2>5. Send(Head(rest))
    BY <1>5 DEF Complete
  <2> HIDE DEF rest
  <2>6. Head(rest) \in U
    BY <2>4, HeadTailProperties
  <2>7. QED
    BY <2>1, <2>5, <2>6 DEF Send
<1>6. CASE Drain
  BY <1>6 DEF Drain, Send, Message
<1>7. CASE Abort
  BY <1>7 DEF Abort, Send, Message
<1>8. QED
  BY <1>1, <1>2, <1>3, <1>4, <1>5, <1>6, <1>7 DEF Serve, ServerStep

\* The server moves forward only, and plans for the cursor it was sent.
LEMMA ShownServed ==
  ASSUME RecoveryInv, RecoveryInv', AskedInv, ShownInv, Serve
  PROVE  ShownInv'
<1>1. /\ UNCHANGED clientVars /\ inc' = inc /\ head' >= head /\ floor' >= floor
      /\ head \in Nat /\ head' \in Nat /\ floor' \in Nat
      /\ (toServer' = toServer \/ (toServer # << >> /\ toServer' = Tail(toServer)))
  <2>1. floor \in Nat /\ head \in Nat /\ head' \in Nat /\ floor' \in Nat /\ floor <= head
    BY DEF RecoveryInv, StreamInv
  <2>2. UNCHANGED clientVars /\ inc' = inc
    BY DEF Serve, ServerStep, Install, Ingest, HandleRecover, SendNext, Complete, Drain, Abort, streamVars
  <2>3. toServer' = toServer \/ (toServer # << >> /\ toServer' = Tail(toServer))
    BY DEF Serve, ServerStep, Install, Ingest, HandleRecover, SendNext, Complete, Drain, Abort
  <2>4. CASE Ingest
    <3>1. head' = head + 1 /\ floor' = TrimmedFloor(floor, head + 1)
      BY <2>4 DEF Ingest, RecoveryInv, StreamInv
    <3>2. floor' >= floor
      BY <2>1, <3>1, HistoryAssumption DEF TrimmedFloor
    <3>3. QED
      BY <2>1, <2>2, <2>3, <3>1, <3>2
  <2>5. CASE ~Ingest
    <3>1. head' = head /\ floor' = floor
      BY <2>5 DEF Serve, ServerStep, Install, HandleRecover, SendNext, Complete, Drain, Abort, streamVars
    <3>2. QED
      BY <2>1, <2>2, <2>3, <3>1
  <2>6. QED
    BY <2>4, <2>5
<1>2. AtCursor' = AtCursor /\ (CursorOutrun => CursorOutrun') /\ Installing' = Installing
  BY <1>1, OutrunStays DEF AtCursor, Installing, Commits, clientVars
<1>3. \E i \in 1..inc', n \in Nat : Showing(i, n)'
  BY <1>1, <1>2 DEF ShownInv, Showing, clientVars, Commits
<1>4. toServer' \in Seq(OwnRequests')
  <2>1. OwnRequests' = OwnRequests
    BY <1>1 DEF OwnRequests, clientVars
  <2>2. QED
    BY <1>1, <2>1, HeadTailProperties DEF ShownInv
<1>5. toClient' \in Seq(OwnPlans')
  <2>1. toClient \in Seq(OwnPlans')
    <3>1. OwnPlans \subseteq OwnPlans'
      BY <1>1, <1>2 DEF OwnPlans, clientVars
    <3>2. QED
      BY <3>1, SeqMonotonic DEF ShownInv
  <2>2. ASSUME NEW m, toClient' = Append(toClient, m) PROVE m \in AnyMessage
    <3>1. toClient' \in Seq(MessageUpTo(inc', head'))
      BY DEF RecoveryInv, ChannelInv
    <3>2. Len(toClient') = Len(toClient) + 1 /\ toClient'[Len(toClient) + 1] = m
      BY <2>1, <2>2
    <3>3. m \in MessageUpTo(inc', head')
      BY <2>1, <3>1, <3>2
    <3>4. QED
      BY <3>3 DEF MessageUpTo, AnyMessage, RecoveryInv, StreamInv
  <2>3. ASSUME NEW m, toClient' = Append(toClient, m), m \in OwnPlans' PROVE toClient' \in Seq(OwnPlans')
    BY <2>1, <2>3, AppendProperties
  <2>4. ASSUME NEW m, toClient' = Append(toClient, m), m.type # "plan" PROVE m \in OwnPlans'
    BY <2>2, <2>4 DEF OwnPlans
  <2>5. ASSUME NEW c \in Range(toServer), NEW m, toClient' = Append(toClient, m), m.id = c.id,
               m.how = "reject" \/ m.how = Outcome(c)
        PROVE  m \in OwnPlans'
    <3>1. c \in OwnRequests
      BY <2>5 DEF ShownInv, Range
    <3>2. SUFFICES ASSUME life = "awaiting-plan", m.id = calls, m.how # "reject"
                   PROVE  IF m.how = "snapshot" THEN CursorOutrun ELSE AtCursor
      BY <1>1, <1>2, <2>2, <2>5 DEF OwnPlans, clientVars
    <3>3. c \in Cursor /\ c.inc = cinc /\ c.rev = applied /\ m.how = Outcome(c)
      BY <2>5, <3>1, <3>2 DEF OwnRequests
    <3>4. Outcome(c) \in {"current", "replay", "snapshot"}
      BY <3>2, <3>3 DEF Outcome
    <3>5. CASE Outcome(c) = "snapshot"
      BY <3>3, <3>5, OutcomeMeans DEF CursorOutrun
    <3>6. CASE Outcome(c) \in {"current", "replay"}
      <4>1. cinc = inc /\ applied >= floor /\ applied \in Nat /\ floor \in Nat
        BY <3>3, <3>6, OutcomeMeans DEF RecoveryInv, StreamInv, MirrorInv
      <4>2. ~CursorOutrun
        BY <4>1 DEF CursorOutrun
      <4>3. QED
        BY <3>3, <3>6, <4>2 DEF ShownInv
    <3>7. QED
      BY <3>4, <3>5, <3>6
  <2>6. QED
    BY <2>1, <2>3, <2>4, <2>5, Answered
<1>6. QED
  BY <1>1, <1>2, <1>3, <1>4, <1>5 DEF ShownInv, clientVars

\* The client: a commit is replayed only when the mirror is at the cursor, and
\* a snapshot replaces whatever the mirror shows.
LEMMA ShownReceived ==
  ASSUME RecoveryInv, RecoveryInv', ShownInv, Receive
  PROVE  ShownInv'
<1> DEFINE m == Head(toClient)
           Good == /\ AtCursor \/ CursorOutrun
                   /\ \E i \in 1..inc, n \in Nat : Showing(i, n)
                   /\ Installing => CursorOutrun
                   /\ life = "caught-up" \/ (life = "consuming" /\ ~Installing) => AtCursor
           Waits == life' = "awaiting-plan" => life = "awaiting-plan" /\ KeepMirror
<1>1. /\ m \in OwnPlans /\ m \in MessageUpTo(inc, head) /\ Tail(toClient) \in Seq(OwnPlans)
  BY HeadTailProperties DEF RecoveryInv, ChannelInv, ShownInv, Receive
<1>2. /\ m.inc = inc /\ m.rev \in 0..head /\ m.type \in MessageType
  BY <1>1 DEF MessageUpTo
<1>3. m.type = "plan" /\ m.id = calls /\ life = "awaiting-plan" =>
        IF m.how = "snapshot" THEN CursorOutrun ELSE m.how = "reject" \/ AtCursor
  BY <1>1 DEF OwnPlans
<1> HIDE DEF m
<1>4. /\ UNCHANGED <<calls, asked, inc, head, floor, toServer>> /\ toClient' = Tail(toClient)
      /\ inc \in Nat /\ inc > 0 /\ head \in Nat /\ floor \in Nat /\ cinc \in Nat /\ applied \in Nat
      /\ applied' \in Nat
  BY DEF Receive, streamVars, RecoveryInv, StreamInv, MirrorInv
<1>5. SUFFICES Waits /\ Good'
  <2>1. OwnRequests \subseteq OwnRequests' /\ OwnPlans \subseteq OwnPlans'
    BY <1>4, <1>5 DEF OwnRequests, OwnPlans, AtCursor, CursorOutrun, KeepMirror, Commits
  <2>2. QED
    BY <1>1, <1>4, <1>5, <2>1, SeqMonotonic DEF ShownInv
<1>6. Good
  BY DEF ShownInv
<1>7. ASSUME KeepMirror, life' = "failed" \/ UNCHANGED <<life, plan, got>> PROVE Waits /\ Good'
  <2>1. /\ AtCursor' = AtCursor /\ CursorOutrun' = CursorOutrun
        /\ life' = "failed" \/ Installing' = Installing
    BY <1>4, <1>7 DEF KeepMirror, AtCursor, CursorOutrun, Installing, Commits
  <2>2. ASSUME NEW i \in 1..inc, NEW n \in Nat, Showing(i, n) PROVE Showing(i, n)'
    BY <1>4, <1>7, <2>1, <2>2 DEF Showing, KeepMirror, Commits, Installing
  <2>3. \E i \in 1..inc', n \in Nat : Showing(i, n)'
    BY <1>4, <1>6, <2>2
  <2>4. life' = "failed" => ~Installing'
    BY DEF Installing
  <2>5. QED
    BY <1>6, <1>7, <2>1, <2>3, <2>4
<1> DEFINE Shows == \E i \in 1..inc', n \in Nat : Showing(i, n)'
<1>8. CASE Ignored(m)
  BY <1>5, <1>7, <1>8 DEF Receive, GoOn, m
<1>9. CASE ~Ignored(m) /\ m.type = "plan"
  <2>1. OnPlan(m) /\ m.id = calls
    BY <1>9 DEF Receive, m, Ignored
  <2>2. CASE life' = "failed"
    BY <1>5, <1>7, <2>1, <2>2 DEF OnPlan
  <2>3. CASE /\ life = "awaiting-plan" /\ life' = "consuming" /\ m.how # "reject"
             /\ plan' = m.how /\ got' = FALSE /\ KeepMirror
    <3>1. AtCursor' = AtCursor /\ CursorOutrun' = CursorOutrun /\ (Installing' <=> m.how = "snapshot")
      BY <1>4, <2>3 DEF KeepMirror, AtCursor, CursorOutrun, Installing, Commits
    <3>2. ASSUME NEW i \in 1..inc, NEW n \in Nat, Showing(i, n) PROVE Showing(i, n)'
      BY <1>4, <2>3, <3>2 DEF Showing, KeepMirror, Commits
    <3>3. Shows
      BY <1>4, <1>6, <3>2
    <3>4. QED
      BY <1>3, <1>5, <1>6, <1>9, <2>1, <2>3, <3>1, <3>3
  <2>4. QED
    BY <2>1, <2>2, <2>3 DEF OnPlan, Fail
<1>10. CASE ~Ignored(m) /\ m.type = "commit"
  <2>1. OnCommit(m)
    BY <1>10 DEF Receive, m
  <2>2. CASE KeepMirror
    BY <1>5, <1>7, <2>1, <2>2 DEF OnCommit, Apply, Shown, GoOn, Fail
  <2>3. CASE /\ CommitInOrder(m) /\ m.inc = cinc /\ m.rev = applied + 1 /\ \E t : Shown(got, t)
             /\ mirror' = Append(mirror, [inc |-> m.inc, rev |-> m.rev]) /\ applied' = m.rev /\ cinc' = cinc
    <3>1. AtCursor
      BY <1>6, <2>3 DEF CommitInOrder, Installing
    <3>2. mirror' = Commits(inc, applied') /\ applied' = applied + 1 /\ applied' <= head
      BY <1>2, <1>4, <2>3, <3>1, CommitsGrow DEF AtCursor
    <3>3. AtCursor'
      BY <1>2, <2>3, <3>2 DEF AtCursor, Commits
    <3>4. life' = "failed" \/ (life' = life /\ plan' = plan /\ got' = got)
      BY <2>3 DEF Shown, GoOn, Fail
    <3>5. ~Installing' /\ life' # "awaiting-plan"
      BY <2>3, <3>4 DEF Installing, CommitInOrder
    <3>6. PICK n \in Nat : n = applied'
      BY <1>4
    <3>7. Shows
      <4>1. Showing(inc, n)'
        BY <1>4, <3>2, <3>5, <3>6 DEF Showing, Commits
      <4>2. QED
        BY <1>4, <4>1
    <3>8. QED
      BY <1>5, <3>3, <3>5, <3>7
  <2>4. QED
    BY <2>1, <2>2, <2>3 DEF OnCommit, Apply
<1>11. CASE ~Ignored(m) /\ m.type = "snapshot"
  <2>1. OnSnapshot(m)
    BY <1>11 DEF Receive, m
  <2>2. CASE KeepMirror /\ life' = "failed"
    BY <1>5, <1>7, <2>2
  <2>3. ASSUME mirror' = Commits(m.inc, m.rev), life' # "awaiting-plan", ~Installing' PROVE Shows
    <3>1. PICK n \in 0..head : n = m.rev
      BY <1>2
    <3>2. Showing(inc, n)'
      BY <1>2, <1>4, <2>3, <3>1 DEF Showing, Commits
    <3>3. QED
      BY <1>4, <3>2
  <2>4. CASE Installing /\ InstallFails(m)
    <3>1. life' = "failed" /\ ~Installing' /\ UNCHANGED <<cinc, applied>>
      BY <2>4 DEF InstallFails, Fail, Installing
    <3>2. CASE KeepMirror
      BY <2>2, <3>1, <3>2
    <3>3. CASE mirror' = Commits(m.inc, m.rev)
      <4>1. CursorOutrun'
        BY <1>4, <1>6, <2>4, <3>1 DEF CursorOutrun
      <4>2. Shows
        BY <2>3, <3>1, <3>3
      <4>3. QED
        BY <1>5, <3>1, <4>1, <4>2
    <3>4. QED
      BY <2>4, <3>1, <3>2, <3>3 DEF InstallFails, KeepMirror
  <2>5. CASE mirror' = Commits(m.inc, m.rev) /\ applied' = m.rev /\ cinc' = m.inc /\ life = "consuming"
             /\ Shown(TRUE, tailing)
    <3>1. ~Installing' /\ life' # "awaiting-plan"
      BY <2>5 DEF Shown, GoOn, Fail, Installing
    <3>2. AtCursor'
      BY <2>5 DEF AtCursor, Commits
    <3>3. QED
      BY <1>5, <2>3, <2>5, <3>1, <3>2
  <2>6. QED
    BY <2>1, <2>2, <2>4, <2>5 DEF OnSnapshot, Installing, Fail
<1>12. CASE ~Ignored(m) /\ m.type = "caught-up"
  <2>1. OnCaughtUp(m)
    BY <1>12 DEF Receive, m
  <2>2. CASE life' = "failed"
    BY <1>5, <1>7, <2>1, <2>2 DEF OnCaughtUp
  <2>3. CASE life = "consuming" /\ ~Installing /\ life' = "caught-up" /\ KeepMirror
    <3>1. AtCursor' /\ ~Installing'
      BY <1>6, <2>3 DEF KeepMirror, AtCursor, Commits, Installing
    <3>2. ASSUME NEW i \in 1..inc, NEW n \in Nat, Showing(i, n) PROVE Showing(i, n)'
      BY <1>4, <2>3, <3>1, <3>2 DEF Showing, KeepMirror, Commits
    <3>3. Shows
      BY <1>4, <1>6, <3>2
    <3>4. QED
      BY <1>5, <2>3, <3>1, <3>3
  <2>4. QED
    BY <2>1, <2>2, <2>3 DEF OnCaughtUp, Fail, Installing
<1>13. CASE ~Ignored(m) /\ m.type = "error"
  BY <1>5, <1>7, <1>13 DEF Receive, Fail, m
<1>14. QED
  BY <1>2, <1>8, <1>9, <1>10, <1>11, <1>12, <1>13 DEF MessageType

\* A lost connection leaves nothing on its way and nothing awaited.
LEMMA ShownLost ==
  ASSUME RecoveryInv, StreamInv', ShownInv, LoseConnection,
         \/ inc' = inc /\ head' >= head /\ floor' >= floor
         \/ inc' = inc + 1
  PROVE  ShownInv'
<1>1. /\ toClient' = << >> /\ toServer' = << >> /\ UNCHANGED <<cinc, applied, mirror>>
      /\ life' \in {"disconnected", "disposed"}
  BY DEF LoseConnection, DisconnectClient
<1>2. /\ inc \in Nat /\ head \in Nat /\ head' \in Nat /\ inc' \in Nat
      /\ ~Installing' /\ AtCursor' = AtCursor /\ (CursorOutrun => CursorOutrun')
  BY <1>1, OutrunStays DEF RecoveryInv, StreamInv, Installing, AtCursor, Commits
<1>3. \E i \in 1..inc', n \in Nat : Showing(i, n)'
  <2>1. PICK i \in 1..inc, n \in Nat : Showing(i, n)
    BY DEF ShownInv
  <2>2. Showing(i, n)'
    BY <1>1, <1>2, <2>1 DEF Showing, Commits
  <2>3. QED
    BY <1>2, <2>1, <2>2
<1>4. QED
  BY <1>1, <1>2, <1>3, EmptyQueues DEF ShownInv

LEMMA ShownStep ==
  RecoveryInv /\ RecoveryInv' /\ AskedInv /\ ShownInv /\ [Next]_vars => ShownInv'
<1> SUFFICES ASSUME RecoveryInv, RecoveryInv', AskedInv, ShownInv, [Next]_vars PROVE ShownInv'
  OBVIOUS
<1>0. calls \in Nat /\ inc \in Nat /\ head \in Nat /\ floor \in Nat /\ applied \in Nat /\ cinc \in Nat
  BY DEF RecoveryInv, StreamInv, MirrorInv
<1>1. CASE Connect \/ Disconnect \/ DisposeRecovery
  <2>1. /\ UNCHANGED <<calls, asked, inc, head, floor, cinc, applied, mirror, toServer, toClient>>
        /\ life' \in {"idle", "disconnected", "disposed"}
    BY <1>1 DEF Connect, Disconnect, DisconnectClient, DisposeRecovery, streamVars
  <2>2. AtCursor' = AtCursor /\ CursorOutrun' = CursorOutrun /\ ~Installing'
    BY <2>1 DEF AtCursor, CursorOutrun, Installing, Commits
  <2>3. \E i \in 1..inc', n \in Nat : Showing(i, n)'
    <3>1. PICK i \in 1..inc, n \in Nat : Showing(i, n)
      BY DEF ShownInv
    <3>2. Showing(i, n)'
      BY <2>1, <2>2, <3>1 DEF Showing, Commits
    <3>3. QED
      BY <2>1, <3>1, <3>2
  <2>4. OwnRequests \subseteq OwnRequests' /\ OwnPlans \subseteq OwnPlans'
    BY <2>1 DEF OwnRequests, OwnPlans
  <2>5. QED
    BY <2>1, <2>2, <2>3, <2>4, SeqMonotonic DEF ShownInv
<1>2. CASE Recover
  <2>1. /\ calls' = calls + 1 /\ asked' = [inc |-> inc, rev |-> head] /\ life' = "awaiting-plan"
        /\ toServer' = Append(toServer, CursorMessage)
        /\ UNCHANGED <<inc, head, floor, cinc, applied, mirror, toClient>>
    BY <1>2 DEF Recover, streamVars
  <2>2. AtCursor' = AtCursor /\ CursorOutrun' = CursorOutrun /\ ~Installing'
    BY <2>1 DEF AtCursor, CursorOutrun, Installing, Commits
  <2>3. \E i \in 1..inc', n \in Nat : Showing(i, n)'
    <3>1. PICK i \in 1..inc, n \in Nat : Showing(i, n)
      BY DEF ShownInv
    <3>2. Showing(i, n)'
      BY <2>1, <2>2, <3>1 DEF Showing, Commits
    <3>3. QED
      BY <2>1, <3>1, <3>2
  <2>4. toServer' \in Seq(OwnRequests')
    <3>1. CursorMessage \in OwnRequests'
      BY <1>0, <2>1 DEF CursorMessage, OwnRequests, Cursor
    <3>2. {c \in Cursor : c.id <= calls} \subseteq OwnRequests'
      BY <1>0, <2>1 DEF OwnRequests, Cursor
    <3>3. QED
      BY <2>1, <3>1, <3>2, SeqMonotonic, AppendProperties DEF AskedInv
  <2>5. toClient' \in Seq(OwnPlans')
    <3>1. Answers(calls, asked.rev, Recovering) \subseteq OwnPlans'
      BY <1>0, <2>1 DEF OwnPlans, Answers, AnyMessage
    <3>2. QED
      BY <2>1, <3>1, SeqMonotonic DEF AskedInv
  <2>6. QED
    BY <2>1, <2>2, <2>3, <2>4, <2>5 DEF ShownInv
<1>3. CASE Drop
  BY <1>3, <1>0, ShownLost DEF Drop, streamVars, RecoveryInv
<1>4. CASE RestartFresh
  BY <1>4, ShownLost DEF RestartFresh, RecoveryInv
<1>5. CASE RestartRestored
  <2>1. head' >= head /\ inc' = inc /\ floor' >= floor
    <3>1. PICK checkpoint \in floor..mapRev : floor' = TrimmedFloor(checkpoint, mapRev)
      BY <1>5 DEF RestartRestored
    <3>2. floor' >= floor
      BY <1>0, <3>1, HistoryAssumption DEF TrimmedFloor, RecoveryInv, StreamInv
    <3>3. QED
      BY <1>5, <3>2 DEF RestartRestored, RecoveryInv, StreamInv
  <2>2. QED
    BY <1>5, <2>1, ShownLost DEF RestartRestored, RecoveryInv
<1>6. CASE Halt \/ Misdeliver \/ UNCHANGED vars
  <2>1. UNCHANGED <<clientVars, inc, head, floor, toServer>>
    BY <1>6 DEF Halt, Misdeliver, vars, streamVars
  <2>2. toClient' \in Seq(OwnPlans)
    BY <1>6, MisdeliverKeeps DEF ShownInv, Halt, vars
  <2>3. OwnPlans' = OwnPlans /\ OwnRequests' = OwnRequests
    BY <2>1 DEF OwnPlans, OwnRequests, AtCursor, CursorOutrun, Commits, clientVars
  <2>4. QED
    BY <2>1, <2>2, <2>3 DEF ShownInv, Showing, AtCursor, CursorOutrun, Installing, Commits, clientVars
<1>. QED
  BY <1>1, <1>2, <1>3, <1>4, <1>5, <1>6, ShownServed, ShownReceived DEF Next

(* The inductive invariant of recovery.  No message, queued commit or       *)
(* cursor is ahead of the authority of its incarnation; a plan is no older  *)
(* than the request it answers; and whichever install threw half way, the   *)
(* mirror shows a state the authority has had, at the cursor or with a      *)
(* cursor that only a snapshot can answer.                                  *)
THEOREM RecoveryInvariant == Spec => [](RecoveryInv /\ AskedInv /\ ShownInv)
<1>1. Init => AskedInv
  BY EmptyQueues DEF Init, ServerInit, StreamInit, AskedInv, Recovering
<1>2. Init => ShownInv
  <2> SUFFICES ASSUME Init PROVE ShownInv
    OBVIOUS
  <2>1. mirror = << >> /\ cinc = 0 /\ applied = 0 /\ life = "disconnected" /\ inc = 1 /\ head = 0
    BY DEF Init, ServerInit, StreamInit
  <2>2. AtCursor /\ Showing(1, 0)
    <3>1. Commits(0, 0) = << >> /\ Commits(1, 0) = << >>
      BY EmptyQueues
    <3>2. QED
      BY <2>1, <3>1 DEF AtCursor, Showing, Installing
  <2>3. toServer = << >> /\ toClient = << >>
    BY DEF Init, ServerInit
  <2>4. QED
    BY <2>1, <2>2, <2>3, EmptyQueues DEF ShownInv, Installing
<1>3. QED
  BY <1>1, <1>2, NeverAhead, AskedStep, ShownStep, PTL DEF Spec

(* The mirror a client keeps shows the state the authority had at the       *)
(* client's cursor, or, between a snapshot whose install threw and the next *)
(* one, another state it has had, of which the client says nothing and on   *)
(* which it replays nothing: for any limits and on any transport that does  *)
(* not change what a message says.                                          *)
THEOREM MirrorAuthoritative == Spec => []MirrorIsAuthoritative
<1>1. RecoveryInv /\ ShownInv => MirrorIsAuthoritative
  <2> SUFFICES ASSUME RecoveryInv, ShownInv PROVE MirrorIsAuthoritative
    OBVIOUS
  <2>1. PICK i \in 1..inc, n \in Nat : Showing(i, n)
    BY DEF ShownInv
  <2>2. Len(mirror) = n
    BY <2>1 DEF Showing, Commits
  <2>3. ShowsAuthority
    BY <2>1, <2>2 DEF Showing, ShowsAuthority
  <2>4. QED
    BY <2>3 DEF RecoveryInv, MirrorInv, ShownInv, Installing, MirrorIsAuthoritative
<1>2. QED
  BY <1>1, RecoveryInvariant, PTL

-----------------------------------------------------------------------------
\* Every step of recovery is one of the mirrored log, or none.
LEMMA MirrorStep ==
  RecoveryInv /\ RecoveryInv' /\ AskedInv /\ ShownInv /\ ShownInv' /\ [Next]_vars =>
    [Mirrored!MirrorNext]_(Mirrored!mvars)
<1>. SUFFICES ASSUME RecoveryInv, RecoveryInv', AskedInv, ShownInv, ShownInv', [Next]_vars
              PROVE  [Mirrored!MirrorNext]_(Mirrored!mvars)
  OBVIOUS
<1>. DEFINE synced == life = "caught-up"
            Same == UNCHANGED <<Log, mirror, Commits(asked.inc, asked.rev)>>
<1>0. /\ inc \in Nat /\ head \in Nat /\ cinc \in Nat /\ applied \in Nat
      /\ inc' \in Nat /\ head' \in Nat /\ cinc' \in Nat /\ applied' \in Nat
      /\ asked.inc \in Nat /\ asked.rev \in Nat
      /\ (cinc = inc => applied <= head) /\ (cinc' = inc' => applied' <= head')
  BY DEF RecoveryInv, StreamInv, MirrorInv, AskedInv
<1>1. ASSUME UNCHANGED <<inc, head, asked>> PROVE UNCHANGED <<Log, Commits(asked.inc, asked.rev)>>
  BY <1>1 DEF Log, Commits
<1>2. ASSUME Same, synced' \in {synced, FALSE} PROVE [Mirrored!MirrorNext]_(Mirrored!mvars)
  BY <1>2 DEF Mirrored!MirrorNext, Mirrored!Forget, Mirrored!mvars
<1>3. ASSUME inc' = inc, head' > head, UNCHANGED <<asked, mirror>>, synced' \in {synced, FALSE}
      PROVE  Mirrored!Grow
  <2>1. Log' = Commits(inc, head') /\ Commits(asked.inc, asked.rev)' = Commits(asked.inc, asked.rev)
    BY <1>3 DEF Log, Commits
  <2>2. Len(Log') > Len(Log) /\ Mirrored!IsPrefix(Log, Log')
    BY <1>0, <1>3, <2>1, CommitsPrefix DEF Log
  <2>3. QED
    BY <1>3, <2>1, <2>2 DEF Mirrored!Grow
<1>4. CASE Serve
  <2>1. /\ UNCHANGED <<inc, asked, mirror, life>> /\ (head' = head \/ head' > head)
    BY <1>0, <1>4 DEF Serve, ServerStep, Install, Ingest, HandleRecover, SendNext, Complete, Drain, Abort,
       streamVars, clientVars
  <2>2. QED
    BY <1>1, <1>2, <1>3, <2>1 DEF Mirrored!MirrorNext
<1>5. CASE Connect \/ Disconnect \/ DisposeRecovery \/ Drop \/ Halt \/ Misdeliver \/ UNCHANGED vars
  <2>1. UNCHANGED <<inc, head, asked, mirror>> /\ synced' \in {synced, FALSE}
    BY <1>5 DEF Connect, Disconnect, DisposeRecovery, Drop, Halt, Misdeliver, LoseConnection,
       DisconnectClient, vars, streamVars, clientVars
  <2>2. QED
    BY <1>1, <1>2, <2>1
<1>6. CASE Recover
  <2>1. UNCHANGED <<inc, head, mirror>> /\ asked' = [inc |-> inc, rev |-> head] /\ ~synced'
    BY <1>6 DEF Recover, streamVars
  <2>2. Log' = Log /\ Commits(asked.inc, asked.rev)' = Log
    BY <2>1 DEF Log, Commits
  <2>3. Mirrored!Ask
    BY <2>1, <2>2 DEF Mirrored!Ask
  <2>4. QED
    BY <2>3 DEF Mirrored!MirrorNext
<1>7. CASE RestartFresh
  <2>1. head' = 0 /\ UNCHANGED <<mirror, asked>> /\ ~synced'
    BY <1>7 DEF RestartFresh, LoseConnection, DisconnectClient
  <2>2. Log' = << >> /\ Commits(asked.inc, asked.rev)' = Commits(asked.inc, asked.rev)
    BY <2>1, EmptyQueues DEF Log, Commits
  <2>3. Mirrored!Replace
    BY <2>1, <2>2 DEF Mirrored!Replace
  <2>4. QED
    BY <2>3 DEF Mirrored!MirrorNext
<1>8. CASE RestartRestored
  <2>1. inc' = inc /\ head' = mapRev /\ head' >= head /\ UNCHANGED <<mirror, asked>> /\ ~synced'
    BY <1>8 DEF RestartRestored, LoseConnection, DisconnectClient, RecoveryInv, StreamInv
  <2>2. QED
    <3>1. CASE head' = head
      BY <1>1, <1>2, <2>1, <3>1
    <3>2. CASE head' > head
      BY <1>3, <2>1, <3>2 DEF Mirrored!MirrorNext
    <3>3. QED
      BY <1>0, <2>1, <3>1, <3>2
<1>9. ASSUME UNCHANGED <<inc, head, asked>>, synced' \in {synced, FALSE},
             NEW i \in 1..inc, NEW n \in Nat, Showing(i, n),
             NEW k \in 0..head, mirror' = Commits(inc, k), i = inc => n <= k
      PROVE  [Mirrored!MirrorNext]_(Mirrored!mvars)
  <2>1. Mirrored!IsPrefix(mirror', Log)
    BY <1>0, <1>9, CommitsPrefix DEF Log
  <2>2. Mirrored!IsPrefix(mirror, Log) => Len(mirror') >= Len(mirror)
    BY <1>0, <1>9, CommitsPrefix DEF Log, Showing
  <2>3. Mirrored!Advance
    BY <1>1, <1>9, <2>1, <2>2 DEF Mirrored!Advance
  <2>4. QED
    BY <2>3 DEF Mirrored!MirrorNext
<1>10. CASE Receive
  <2>. DEFINE m == Head(toClient)
  <2>1. UNCHANGED <<inc, head, asked>>
    BY <1>10 DEF Receive, streamVars
  <2>2. m.inc = inc /\ m.type \in MessageType /\ m.rev \in 0..head
    <3>1. m \in MessageUpTo(inc, head)
      BY <1>10, HeadTailProperties DEF RecoveryInv, ChannelInv, Receive
    <3>2. QED
      BY <3>1 DEF MessageUpTo
  <2>. HIDE DEF m
  <2>3. ASSUME UNCHANGED <<life, mirror>> PROVE [Mirrored!MirrorNext]_(Mirrored!mvars)
    BY <1>1, <1>2, <2>1, <2>3
  <2>4. ASSUME \E why : Fail(why), UNCHANGED mirror PROVE [Mirrored!MirrorNext]_(Mirrored!mvars)
    BY <1>1, <1>2, <2>1, <2>4 DEF Fail
  <2>5. \A g, t : Shown(g, t) => synced' \in {synced, FALSE}
    BY DEF Shown, GoOn, Fail
  <2>6. CASE Ignored(m)
    BY <1>10, <2>3, <2>6 DEF Receive, m, KeepMirror, GoOn
  <2>7. CASE ~Ignored(m) /\ m.type = "plan"
    <3>1. OnPlan(m)
      BY <1>10, <2>7 DEF Receive, m
    <3>2. CASE life' = "consuming" /\ UNCHANGED mirror
      BY <1>1, <1>2, <2>1, <3>2
    <3>3. QED
      BY <2>4, <3>1, <3>2 DEF OnPlan, KeepMirror
  <2>8. CASE ~Ignored(m) /\ m.type = "commit"
    <3>1. OnCommit(m)
      BY <1>10, <2>8 DEF Receive, m
    <3>2. CASE /\ CommitInOrder(m) /\ m.inc = cinc /\ m.rev = applied + 1 /\ \E g, t : Shown(g, t)
               /\ mirror' = Append(mirror, [inc |-> m.inc, rev |-> m.rev])
      <4>1. mirror = Commits(inc, applied)
        BY <2>2, <3>2 DEF ShownInv, AtCursor, CommitInOrder, Installing
      <4>2. mirror' = Commits(inc, m.rev)
        BY <1>0, <2>2, <3>2, <4>1, CommitsGrow
      <4>3. inc \in 1..inc /\ applied <= head
        BY <1>0, <2>2, <3>2 DEF RecoveryInv, StreamInv
      <4>4. Showing(inc, applied)
        <5>1. ~(life = "awaiting-plan") /\ ~Installing
          BY <3>2 DEF CommitInOrder, Installing
        <5>2. QED
          BY <4>1, <4>3, <5>1 DEF Showing
      <4>5. synced' \in {synced, FALSE}
        BY <2>5, <3>2
      <4>6. /\ inc \in 1..inc /\ applied \in Nat /\ m.rev \in 0..head /\ applied <= m.rev
            /\ mirror' = Commits(inc, m.rev)
        BY <1>0, <2>2, <3>2, <4>2, <4>3
      <4>7. QED
        BY <1>9, <2>1, <4>4, <4>5, <4>6
    <3>3. QED
      BY <2>3, <2>4, <3>1, <3>2 DEF OnCommit, Apply, KeepMirror, GoOn
  <2>9. CASE ~Ignored(m) /\ m.type = "snapshot"
    <3>1. OnSnapshot(m)
      BY <1>10, <2>9 DEF Receive, m
    <3>2. CASE Installing /\ m.rev = planRev /\ mirror' = Commits(m.inc, m.rev) /\ synced' \in {synced, FALSE}
      <4>1. PICK i \in 1..inc, n \in Nat : Showing(i, n)
        BY DEF ShownInv
      <4>2. i = inc => n <= m.rev
        <5>1. asked.rev <= m.rev
          BY <1>0, <3>2 DEF AskedInv, Installing
        <5>2. QED
          BY <1>0, <2>2, <3>2, <4>1, <5>1 DEF Showing
      <4>3. QED
        BY <1>9, <2>1, <2>2, <3>2, <4>1, <4>2
    <3>3. QED
      <4>1. CASE KeepMirror /\ \E why : Fail(why)
        BY <2>4, <4>1 DEF KeepMirror
      <4>2. CASE Installing /\ m.rev = planRev /\ InstallFails(m)
        <5>1. life' = "failed" /\ \E why : Fail(why)
          BY <4>2 DEF InstallFails, Fail
        <5>2. CASE UNCHANGED mirror
          BY <2>4, <5>1, <5>2
        <5>3. CASE mirror' = Commits(m.inc, m.rev)
          BY <3>2, <4>2, <5>1, <5>3
        <5>4. QED
          BY <4>2, <5>2, <5>3 DEF InstallFails
      <4>3. CASE Installing /\ m.rev = planRev /\ mirror' = Commits(m.inc, m.rev) /\ Shown(TRUE, tailing)
        BY <2>5, <3>2, <4>3
      <4>4. QED
        BY <3>1, <4>1, <4>2, <4>3 DEF OnSnapshot, Installing
  <2>10. CASE ~Ignored(m) /\ m.type = "caught-up"
    <3>1. OnCaughtUp(m)
      BY <1>10, <2>10 DEF Receive, m
    <3>2. CASE life = "consuming" /\ ~Installing /\ AtBoundary(m) /\ life' = "caught-up" /\ UNCHANGED mirror
      <4>1. cinc = inc /\ applied >= asked.rev /\ asked.inc = inc
        BY <1>0, <2>2, <3>2 DEF AtBoundary, AskedInv, Recovering
      <4>2. mirror = Commits(cinc, applied)
        BY <3>2 DEF ShownInv, AtCursor
      <4>3. Mirrored!IsPrefix(mirror, Log) /\ Len(mirror) >= Len(Commits(asked.inc, asked.rev))
        BY <1>0, <4>1, <4>2, CommitsPrefix DEF Log
      <4>4. Mirrored!Tell
        BY <1>1, <2>1, <3>2, <4>3 DEF Mirrored!Tell
      <4>5. QED
        BY <4>4 DEF Mirrored!MirrorNext
    <3>3. QED
      BY <2>4, <3>1, <3>2 DEF OnCaughtUp, KeepMirror, Installing
  <2>11. CASE ~Ignored(m) /\ m.type = "error"
    <3>1. Fail("server") /\ KeepMirror
      BY <1>10, <2>11 DEF Receive, m
    <3>2. QED
      BY <2>4, <3>1 DEF KeepMirror
  <2>12. QED
    BY <2>2, <2>6, <2>7, <2>8, <2>9, <2>10, <2>11 DEF MessageType
<1>. QED
  BY <1>4, <1>5, <1>6, <1>7, <1>8, <1>10 DEF Next

(* The mirror follows the authoritative log: the client's copy only becomes *)
(* a state the log has now, never goes back within an incarnation, and      *)
(* "caught up" covers all the log had at the call of recover()              *)
(* (handle_recovery_message, handle_recover), whatever is lost, repeated,   *)
(* overtaken, restarted or disposed on the way.                             *)
THEOREM FollowsMirroredLog == Spec => FollowsAuthority
<1>1. Init => Mirrored!MirrorInit
  <2> SUFFICES ASSUME Init PROVE Mirrored!MirrorInit
    OBVIOUS
  <2>1. Log = << >> /\ Commits(asked.inc, asked.rev) = << >> /\ mirror = << >> /\ life # "caught-up"
    BY EmptyQueues DEF Init, ServerInit, StreamInit, Log
  <2>2. QED
    BY <2>1 DEF Mirrored!MirrorInit
<1>2. QED
  BY <1>1, RecoveryInvariant, MirrorStep, PTL
  DEF Spec, FollowsAuthority, Mirrored!MirrorSpec

-----------------------------------------------------------------------------
(* Order.  First the server: while it serves a request, its outbox is the    *)
(* rest of the body up to the cut, or of the tail and its boundary, and what *)
(* it has queued continues that up to the head, all of it without a gap.     *)

Reached == head - Len(queued)

QueueInv ==
  /\ conn \in Conn /\ step \in Step
  /\ step \in {"body", "tail", "aborted"} => conn = "recovering"
  /\ step = "drain" => conn = "caught-up" /\ outbox = << >>
  /\ step = "idle" => conn # "recovering" /\ outbox = << >> /\ queued = << >>
  /\ step = "aborted" => queued = << >>
  /\ step \in {"body", "tail", "drain"} =>
       Reached >= cut /\ \A k \in 1..Len(queued) : queued[k] = Reached + k
  /\ step = "body" =>
       /\ cut = Reached
       /\ \A k \in 1..Len(outbox) :
            /\ outbox[k].id = request /\ outbox[k].rev = Reached - Len(outbox) + k
            /\ \/ outbox[k].type = "snapshot" /\ Len(outbox) = 1
               \/ outbox[k].type = "commit" /\ outbox[k].how = "body"
  /\ step = "tail" /\ outbox # << >> =>
       /\ Reached - Len(outbox) + 1 >= cut
       /\ \A k \in 1..Len(outbox) :
            /\ outbox[k].id = request
            /\ IF k = Len(outbox)
               THEN outbox[k].type = "caught-up" /\ outbox[k].rev = Reached
               ELSE /\ outbox[k].type = "commit" /\ outbox[k].how = "tail"
                    /\ outbox[k].rev = Reached - Len(outbox) + 1 + k

\* Requests come in order, and none with a cursor ahead of the authority.
NoRejection == {m \in AnyMessage : m.type = "plan" => m.how \in Outcomes \ {"reject"}}

RequestInv ==
  /\ \A k \in 1..Len(toServer) :
       /\ toServer[k].id > request
       /\ toServer[k].inc = inc => toServer[k].rev <= head
       /\ \A j \in 1..(k - 1) : toServer[j].id < toServer[k].id
  /\ toClient \in Seq(NoRejection)
  /\ failure # "rejected"

(* Then the answer.  A run is what the plan of a request promises: its kind, *)
(* the revision the body starts from (for a snapshot the one before it) and  *)
(* the head it was made at.                                                  *)
Run == {r \in [kind : {"current", "replay", "snapshot"}, base : Int, at : Nat] :
          /\ r.kind = "current" => r.base = r.at
          /\ r.kind = "snapshot" => r.base = r.at - 1
          /\ r.kind = "replay" => r.base \in Nat}

\* The phase of the lifecycle a message leads to, and its cursor.
Phase(m) ==
  CASE m.type = "commit" -> (IF m.how = "live" THEN "end" ELSE m.how)
    [] m.type = "caught-up" -> "end"
    [] OTHER -> "body"

Cur(r, m) == IF m.type = "plan" THEN r.base ELSE m.rev

\* What may come next in a phase, at a cursor.
Accepts(r, phase, cur, m) ==
  \/ m.type = "error"
  \/ /\ m.type = "snapshot" /\ r.kind = "snapshot" /\ phase = "body"
     /\ m.rev = cur + 1 /\ m.rev = r.at
  \/ /\ m.type = "commit" /\ m.rev = cur + 1
     /\ \/ m.how = "body" /\ r.kind = "replay" /\ phase = "body"
        \/ m.how = "tail" /\ phase \in {"body", "tail"} /\ m.rev > r.at
        \/ m.how = "live" /\ phase = "end"
  \/ m.type = "caught-up" /\ phase \in {"body", "tail"} /\ m.rev = cur /\ m.rev >= r.at

\* Where the client is in the run, once it has the plan.
ClientPhase ==
  IF life = "caught-up" THEN "end" ELSE IF tailing THEN "tail" ELSE "body"
ClientCur(r) ==
  IF life = "consuming" /\ plan = "snapshot" /\ ~got THEN r.base ELSE applied

ClientAccepts(r, m) ==
  \/ m.type = "error"
  \/ life = "awaiting-plan" /\ m.type = "plan" /\ m.how = r.kind /\ m.rev = r.at
  \/ life # "awaiting-plan" /\ Accepts(r, ClientPhase, ClientCur(r), m)

ClientFollows(r) ==
  /\ life = "awaiting-plan" /\ r.kind # "snapshot" => cinc = inc /\ applied = r.base
  /\ life = "consuming" =>
       /\ plan = r.kind /\ planRev = r.at /\ planInc = inc
       /\ plan # "snapshot" => ~got
       /\ got => applied >= r.at
       /\ plan # "snapshot" \/ got => cinc = inc
       /\ plan = "snapshot" /\ ~got => ~tailing
  /\ life = "caught-up" => cinc = inc

Mine(k) == toClient[k].id = calls
Lasting(k) == Mine(k) /\ toClient[k].type # "error"
IsLive(m, rev) == m.type = "error" \/ (m.type = "commit" /\ m.how = "live" /\ m.rev = rev)

\* f messages of other requests, and then the answer to the last one, each
\* message such that the client accepts it after those before it.
InLine(r, f) ==
  /\ f \in 0..Len(toClient)
  /\ \A k \in 1..f : ~Mine(k)
  /\ f < Len(toClient) => Mine(f + 1) /\ ClientAccepts(r, toClient[f + 1])
  /\ \A j, k \in 1..Len(toClient) : j < k /\ Lasting(j) =>
       /\ Mine(k)
       /\ k = j + 1 => Accepts(r, Phase(toClient[j]), Cur(r, toClient[j]), toClient[k])
       /\ Phase(toClient[j]) = "end" => IsLive(toClient[k], Cur(r, toClient[j]) + k - j)
  /\ life = "caught-up" =>
       \A k \in (f + 1)..Len(toClient) : Mine(k) => IsLive(toClient[k], applied + k - f)

\* The client will be in one of the phases and at the cursor when it has all
\* that is on its way.
EndsAt(r, f, phases, cur) ==
  LET n == Len(toClient) IN
  IF f < n THEN Lasting(n) /\ Phase(toClient[n]) \in phases /\ Cur(r, toClient[n]) = cur
  ELSE life # "awaiting-plan" /\ ClientPhase \in phases /\ ClientCur(r) = cur

\* The server goes on where what is on its way ends.
Serving == request = calls /\ conn \in {"recovering", "caught-up"} /\ step # "aborted"
Link(r, f) == Serving =>
  /\ \A k \in 1..Len(toClient) : Mine(k) => Lasting(k)
  /\ step \in {"body", "tail"} => r.at = cut
  /\ step = "body" =>
       /\ EndsAt(r, f, {"body"}, Reached - Len(outbox))
       /\ \A k \in 1..Len(outbox) :
            \/ r.kind = "snapshot" /\ outbox[k].type = "snapshot"
            \/ r.kind = "replay" /\ outbox[k].type = "commit"
  /\ step = "tail" /\ outbox # << >> =>
       EndsAt(r, f, {"body", "tail"}, Reached - Len(outbox) + 1)
  /\ step \in {"drain", "idle"} \/ (step = "tail" /\ outbox = << >>) =>
       EndsAt(r, f, {"end"}, Reached)

\* The last request is either on its way, with the cursor the client has, or
\* is the one the server has, or was refused.
Pending ==
  /\ \A k \in 1..Len(toServer) : toServer[k].id = calls =>
       /\ life = "awaiting-plan" /\ toServer[k].inc = cinc /\ toServer[k].rev = applied
       /\ \A j \in 1..Len(toClient) : ~Mine(j)
  /\ life # "awaiting-plan" \/ (\E k \in 1..Len(toClient) : Lasting(k)) =>
       request = calls \/ conn = "closed"

Listening == life \in {"awaiting-plan", "consuming", "caught-up"}

OrderInv ==
  ~misdelivered =>
    /\ failure \notin OrderFailures
    /\ Listening => /\ calls > 0 /\ Pending
                    /\ \E r \in Run, f \in Nat : ClientFollows(r) /\ InLine(r, f) /\ Link(r, f)

-----------------------------------------------------------------------------
(* The server's side.                                                       *)

LEMMA QueueIngest ==
  ASSUME RecoveryInv, QueueInv, Ingest
  PROVE  QueueInv'
<1>1. /\ head \in Nat /\ cut \in Nat /\ cut <= head /\ queued \in Seq(0..head) /\ Len(queued) \in Nat
      /\ head' = head + 1 /\ UNCHANGED <<conn, request, cut, outbox>>
  <2>1. queued \in Seq(0..head) /\ cut \in 0..head /\ head \in Nat
    BY DEF RecoveryInv, ChannelInv, StreamInv
  <2>2. Len(queued) \in Nat
    BY <2>1
  <2>3. QED
    BY <2>1, <2>2 DEF Ingest
<1>. USE DEF QueueInv, Step, Conn
<1>2. CASE UNCHANGED <<step, queued>> /\ step \in {"idle", "aborted"}
  BY <1>1, <1>2 DEF Reached
<1>3. CASE step = "body" /\ step' = "aborted" /\ queued' = << >>
  BY <1>1, <1>3 DEF Reached
<1>4. CASE step \in {"body", "tail", "drain"} /\ step' = step /\ queued' = Append(queued, head')
  <2>1. /\ Len(queued') = Len(queued) + 1 /\ \A k \in 1..Len(queued) : queued'[k] = queued[k]
        /\ queued'[Len(queued) + 1] = head + 1
    BY <1>1, <1>4, AppendProperties
  <2>2. Reached' = Reached
    BY <1>1, <2>1 DEF Reached
  <2>3. ASSUME NEW k \in 1..Len(queued') PROVE queued'[k] = Reached + k
    <3>1. CASE k = Len(queued) + 1
      BY <1>1, <2>1, <3>1 DEF Reached
    <3>2. CASE k # Len(queued) + 1
      <4>1. k \in 1..Len(queued) /\ queued'[k] = queued[k]
        BY <1>1, <2>1, <3>2
      <4>2. QED
        BY <1>4, <4>1
    <3>3. QED
      BY <3>1, <3>2
  <2>4. /\ conn \in Conn /\ step \in Step /\ Reached >= cut
        /\ step \in {"body", "tail", "aborted"} => conn = "recovering"
        /\ step = "drain" => conn = "caught-up" /\ outbox = << >>
    BY <1>4
  <2>5. QED
    BY <1>1, <1>4, <2>2, <2>3, <2>4
<1>5. step = "body" => mapRev = head + 1 /\ head' > cut
  BY <1>1 DEF Ingest
<1>. QED
  BY <1>1, <1>2, <1>3, <1>4, <1>5
  DEF Ingest, Observe, EnqueueTail, HoldLive, SendLive, LiveReady, Unobserved

\* What planning puts in the outbox.
LEMMA BodyRun ==
  ASSUME RecoveryInv, NEW c \in Cursor, ~SnapshotTorn(c), Outcome(c) # "reject"
  PROVE  /\ Len(Body(c)) \in Nat
         /\ \A k \in 1..Len(Body(c)) :
              /\ Body(c)[k].id = c.id /\ Body(c)[k].rev = head - Len(Body(c)) + k
              /\ IF Outcome(c) = "snapshot"
                 THEN Body(c)[k].type = "snapshot" /\ Len(Body(c)) = 1
                 ELSE Body(c)[k].type = "commit" /\ Body(c)[k].how = "body" /\ Outcome(c) = "replay"
         /\ Outcome(c) = "snapshot" => Len(Body(c)) = 1
         /\ Outcome(c) = "replay" => c.inc = inc /\ Len(Body(c)) = head - c.rev /\ c.rev < head
         /\ Outcome(c) = "current" => c.inc = inc /\ c.rev = head /\ Len(Body(c)) = 0
<1>1. head \in Nat /\ c.rev \in Nat
  BY DEF RecoveryInv, StreamInv, Cursor
<1>2. CASE Outcome(c) = "snapshot"
  <2>1. mapRev = head /\ Body(c) = <<Message("snapshot", c.id, head, "body")>>
    BY <1>2 DEF SnapshotTorn, Body
  <2>2. QED
    BY <1>1, <1>2, <2>1 DEF Message
<1>3. CASE Outcome(c) = "replay"
  <2>1. c.inc = inc /\ c.rev < head /\ ReplayAfter(c.rev) # << >>
    BY <1>3 DEF Outcome
  <2>2. ReplayAfter(c.rev) = [k \in 1..(head - c.rev) |-> c.rev + k]
    BY <2>1 DEF ReplayAfter, Following
  <2>3. head - c.rev \in Nat /\ Len(ReplayAfter(c.rev)) = head - c.rev
        /\ \A k \in 1..(head - c.rev) : ReplayAfter(c.rev)[k] = c.rev + k
    BY <1>1, <2>1, <2>2
  <2>4. Body(c) = [k \in 1..(head - c.rev) |-> Message("commit", c.id, c.rev + k, "body")]
    BY <1>3, <2>3 DEF Body, CommitMessages
  <2>5. Len(Body(c)) = head - c.rev
        /\ \A k \in 1..(head - c.rev) : Body(c)[k] = Message("commit", c.id, c.rev + k, "body")
    BY <2>3, <2>4
  <2>. DEFINE B == Body(c)
              n == head - c.rev
  <2>6. ASSUME NEW k \in 1..n
        PROVE  B[k].id = c.id /\ B[k].rev = c.rev + k /\ B[k].type = "commit" /\ B[k].how = "body"
    <3>1. B[k] = Message("commit", c.id, c.rev + k, "body")
      BY <2>5
    <3>. HIDE DEF B
    <3>2. QED
      BY <3>1 DEF Message
  <2>7. Len(B) = n /\ n \in Nat /\ \A k \in 1..n : head - n + k = c.rev + k
    BY <1>1, <2>3, <2>5
  <2>. HIDE DEF B, n
  <2>8. \A k \in 1..n : B[k].rev = head - n + k
    BY <2>6, <2>7
  <2>9. QED
    BY <1>3, <2>1, <2>6, <2>7, <2>8 DEF B, n
<1>4. CASE Outcome(c) = "current"
  BY <1>1, <1>4 DEF Outcome, Body
<1>. QED
  BY <1>2, <1>3, <1>4 DEF Outcome

\* What Complete sends: the tail without a gap, and the boundary it reaches.
Rest == Append(CommitMessages(request, queued, "tail"), Message("caught-up", request, ThroughRev, "end"))

LEMMA RestRun ==
  ASSUME RecoveryInv, QueueInv, step = "body", outbox = << >>
  PROVE  /\ Len(Rest) = Len(queued) + 1 /\ Len(queued) \in Nat /\ Reached \in Nat
         /\ \A k \in 1..Len(queued) : Rest[k] = Message("commit", request, Reached + k, "tail")
         /\ Rest[Len(queued) + 1] = Message("caught-up", request, head, "end")
         /\ Rest \in Seq(AnyMessage)
<1>1. /\ head \in Nat /\ queued \in Seq(0..head) /\ queued \in Seq(Nat) /\ inc \in Nat /\ request \in Nat
      /\ cut \in Nat /\ cut = Reached
  <2>1. queued \in Seq(0..head) /\ head \in Nat /\ 0..head \subseteq Nat
    BY DEF RecoveryInv, ChannelInv, StreamInv
  <2>2. queued \in Seq(Nat)
    BY <2>1, SeqMonotonic
  <2>3. QED
    BY <2>1, <2>2 DEF RecoveryInv, ChannelInv, StreamInv, QueueInv
<1>2. Len(queued) \in Nat /\ \A k \in 1..Len(queued) : queued[k] = Reached + k
  BY <1>1 DEF QueueInv
<1>3. ThroughRev = head
  <2>1. CASE queued = << >>
    BY <1>1, <2>1 DEF ThroughRev, Reached
  <2>2. CASE queued # << >>
    <3>1. Len(queued) \in 1..Len(queued)
      BY <1>1, <2>2
    <3>2. queued[Len(queued)] = Reached + Len(queued)
      BY <1>2, <3>1
    <3>3. QED
      BY <1>1, <1>2, <2>2, <3>2 DEF ThroughRev, Reached
  <2>3. QED
    BY <2>1, <2>2
<1>. DEFINE s == CommitMessages(request, queued, "tail")
            b == Message("caught-up", request, ThroughRev, "end")
<1>4. /\ s \in Seq(AnyMessage) /\ Len(s) = Len(queued)
      /\ \A k \in 1..Len(queued) : s[k] = Message("commit", request, Reached + k, "tail")
  <2>1. \A k \in 1..Len(queued) : Message("commit", request, queued[k], "tail") \in AnyMessage
    BY <1>1 DEF Message, AnyMessage, MessageType, How
  <2>2. QED
    BY <1>2, <2>1 DEF CommitMessages
<1>5. b \in AnyMessage
  BY <1>1, <1>3 DEF Message, AnyMessage, MessageType, How
<1>6. Rest = Append(s, b)
  BY DEF Rest
<1>. HIDE DEF s, b
<1>7. /\ Rest \in Seq(AnyMessage) /\ Len(Rest) = Len(s) + 1 /\ Rest[Len(s) + 1] = b
      /\ \A k \in 1..Len(s) : Rest[k] = s[k]
  BY <1>4, <1>5, <1>6, AppendProperties
<1>. QED
  BY <1>1, <1>2, <1>3, <1>4, <1>7 DEF b

LEMMA QueueIdle ==
  ASSUME ChannelIdle, conn' \in Conn \ {"recovering"}
  PROVE  QueueInv'
  BY DEF ChannelIdle, QueueInv, Step

LEMMA QueuePlanned ==
  ASSUME RecoveryInv, NEW c \in Cursor, Plan(c), head' = head
  PROVE  QueueInv'
<1>1. /\ conn' = "recovering" /\ request' = c.id /\ step' = "body" /\ queued' = << >>
      /\ outbox' = Body(c) /\ ~SnapshotTorn(c) /\ Outcome(c) # "reject"
      /\ head \in Nat /\ cut' = head
  BY DEF Plan, PlanHead, SnapshotTorn, RecoveryInv, StreamInv
<1>2. Reached' = head
  BY <1>1 DEF Reached
<1>3. \A k \in 1..Len(outbox') :
         /\ outbox'[k].id = c.id /\ outbox'[k].rev = head - Len(outbox') + k
         /\ \/ outbox'[k].type = "snapshot" /\ Len(outbox') = 1
            \/ outbox'[k].type = "commit" /\ outbox'[k].how = "body"
  BY <1>1, BodyRun
<1>. QED
  BY <1>1, <1>2, <1>3 DEF QueueInv, Step, Conn

LEMMA QueueSent ==
  ASSUME RecoveryInv, QueueInv, SendNext
  PROVE  QueueInv'
<1>. DEFINE n == Len(outbox)
            o == outbox'
<1>1. /\ outbox # << >> /\ o = Tail(outbox) /\ step \in {"body", "tail"} /\ conn = "recovering"
      /\ UNCHANGED <<head, conn, request, step, cut, queued>> /\ Reached' = Reached
      /\ outbox \in Seq(MessageUpTo(inc, head)) /\ queued \in Seq(0..head) /\ head \in Nat /\ cut \in Nat
  BY DEF SendNext, streamVars, Reached, RecoveryInv, ChannelInv, StreamInv
<1>2. n \in Nat /\ n > 0 /\ Len(o) = n - 1 /\ Reached \in Int /\ \A k \in 1..Len(o) : k + 1 \in 1..n /\ o[k] = outbox[k + 1]
  <2>1. Len(queued) \in Nat
    BY <1>1
  <2>2. Len(outbox) \in Nat /\ Len(outbox) > 0 /\ Len(Tail(outbox)) = Len(outbox) - 1
        /\ \A k \in 1..Len(Tail(outbox)) : Tail(outbox)[k] = outbox[k + 1]
    BY <1>1
  <2>3. QED
    BY <1>1, <2>1, <2>2 DEF Reached
<1>. HIDE DEF n, o
<1>3. CASE step = "body"
  <2>1. \A k \in 1..n : /\ outbox[k].id = request /\ outbox[k].rev = Reached - n + k
                        /\ \/ outbox[k].type = "snapshot" /\ n = 1
                           \/ outbox[k].type = "commit" /\ outbox[k].how = "body"
    BY <1>3 DEF QueueInv, n
  <2>2. ASSUME NEW k \in 1..Len(o)
        PROVE  /\ o[k].id = request /\ o[k].rev = Reached - Len(o) + k
               /\ o[k].type = "commit" /\ o[k].how = "body"
    <3>1. k + 1 \in 1..n /\ o[k] = outbox[k + 1] /\ n # 1 /\ Reached - n + (k + 1) = Reached - Len(o) + k
      BY <1>2
    <3>2. QED
      BY <2>1, <3>1
  <2>3. QED
    BY <1>1, <1>3, <2>2 DEF QueueInv, o
<1>4. CASE step = "tail"
  <2>1. /\ Reached - n + 1 >= cut
        /\ \A k \in 1..n :
            /\ outbox[k].id = request
            /\ IF k = n
               THEN outbox[k].type = "caught-up" /\ outbox[k].rev = Reached
               ELSE /\ outbox[k].type = "commit" /\ outbox[k].how = "tail"
                    /\ outbox[k].rev = Reached - n + 1 + k
    BY <1>1, <1>4 DEF QueueInv, n
  <2>2. Reached - Len(o) + 1 >= cut
    BY <1>1, <1>2, <2>1
  <2>3. ASSUME NEW k \in 1..Len(o)
        PROVE  /\ o[k].id = request
               /\ IF k = Len(o)
                  THEN o[k].type = "caught-up" /\ o[k].rev = Reached
                  ELSE /\ o[k].type = "commit" /\ o[k].how = "tail"
                       /\ o[k].rev = Reached - Len(o) + 1 + k
    <3>1. k + 1 \in 1..n /\ o[k] = outbox[k + 1] /\ (k + 1 = n <=> k = Len(o))
          /\ Reached - n + 1 + (k + 1) = Reached - Len(o) + 1 + k
      BY <1>2
    <3>2. QED
      BY <2>1, <3>1
  <2>4. QED
    BY <1>1, <1>4, <2>2, <2>3 DEF QueueInv, o
<1>. QED
  BY <1>1, <1>3, <1>4

LEMMA QueueCompleted ==
  ASSUME RecoveryInv, QueueInv, Complete
  PROVE  QueueInv'
<1>. DEFINE n == Len(queued)
            o == outbox'
<1>1. /\ step = "body" /\ outbox = << >> /\ conn = "recovering" /\ step' = "tail" /\ queued' = << >>
      /\ o = Tail(Rest) /\ UNCHANGED <<head, conn, request, cut>>
      /\ head \in Nat /\ cut \in Nat /\ cut = Reached
  BY DEF Complete, Rest, streamVars, RecoveryInv, ChannelInv, StreamInv, QueueInv
<1>2. /\ Len(Rest) = n + 1 /\ n \in Nat /\ Reached \in Nat
      /\ \A k \in 1..n : Rest[k] = Message("commit", request, Reached + k, "tail")
      /\ Rest[n + 1] = Message("caught-up", request, head, "end")
      /\ Rest \in Seq(AnyMessage)
  BY <1>1, RestRun
<1>3. Reached' = head /\ head = Reached + n
  BY <1>1, <1>2 DEF Reached
<1>4. Len(o) = n /\ \A k \in 1..n : o[k] = Rest[k + 1]
  <2>1. Rest # << >>
    BY <1>2
  <2>2. QED
    BY <1>1, <1>2, <2>1
<1>. HIDE DEF n, o
<1>5. ASSUME NEW k \in 1..n
      PROVE  /\ o[k].id = request
             /\ IF k = n
                THEN o[k].type = "caught-up" /\ o[k].rev = head
                ELSE /\ o[k].type = "commit" /\ o[k].how = "tail"
                     /\ o[k].rev = head - n + 1 + k
  <2>1. CASE k = n
    BY <1>2, <1>4, <2>1 DEF Message
  <2>2. CASE k # n
    <3>1. k + 1 \in 1..n /\ Reached + (k + 1) = head - n + 1 + k
      BY <1>2, <1>3, <2>2
    <3>2. o[k] = Message("commit", request, Reached + (k + 1), "tail")
      BY <1>2, <1>4, <3>1
    <3>3. QED
      BY <2>2, <3>1, <3>2 DEF Message
  <2>3. QED
    BY <2>1, <2>2
<1>6. head - n + 1 >= cut /\ head >= cut
  BY <1>1, <1>2, <1>3
<1>7. /\ conn' = "recovering" /\ step' = "tail" /\ queued' = << >> /\ Len(outbox') = n /\ Reached' = head
      /\ request' = request /\ cut' = cut /\ n \in Nat
      /\ \A k \in 1..n : /\ outbox'[k].id = request
                        /\ IF k = n
                           THEN outbox'[k].type = "caught-up" /\ outbox'[k].rev = head
                           ELSE /\ outbox'[k].type = "commit" /\ outbox'[k].how = "tail"
                                /\ outbox'[k].rev = head - n + 1 + k
  BY <1>1, <1>2, <1>3, <1>4, <1>5 DEF o
<1>. QED
  BY <1>6, <1>7 DEF QueueInv, Step, Conn

LEMMA QueueDrained ==
  ASSUME RecoveryInv, QueueInv, Drain
  PROVE  QueueInv'
<1>1. CASE queued = << >>
  BY <1>1, QueueIdle DEF Drain, Conn
<1>2. CASE queued # << >>
  <2>1. /\ step \in {"tail", "drain"} /\ outbox = << >> /\ conn' = "caught-up" /\ step' = "drain"
        /\ queued' = Tail(queued) /\ UNCHANGED <<head, cut, outbox>>
        /\ head \in Nat /\ cut \in Nat /\ queued \in Seq(0..head)
    BY <1>2 DEF Drain, streamVars, RecoveryInv, ChannelInv, StreamInv
  <2>2. /\ Len(queued) \in Nat /\ Len(queued) > 0 /\ Len(queued') = Len(queued) - 1
        /\ \A k \in 1..Len(queued') : queued'[k] = queued[k + 1]
    BY <1>2, <2>1
  <2>3. Reached' = Reached + 1 /\ Reached \in Int
    <3>1. head' = head /\ head \in Nat /\ Len(queued) \in Nat /\ Len(queued') = Len(queued) - 1
      BY <2>1, <2>2
    <3>2. QED
      BY <3>1 DEF Reached
  <2>4. Reached >= cut /\ \A k \in 1..Len(queued) : queued[k] = Reached + k
    BY <2>1 DEF QueueInv
  <2>5. Reached + 1 >= cut /\ \A k \in 1..Len(queued') : queued'[k] = Reached + 1 + k
    BY <2>1, <2>2, <2>3, <2>4
  <2>6. QED
    BY <2>1, <2>3, <2>5 DEF QueueInv, Step, Conn
<1>. QED
  BY <1>1, <1>2

LEMMA QueueStep ==
  RecoveryInv /\ RequestInv /\ QueueInv /\ [Next]_vars => QueueInv'
<1>. SUFFICES ASSUME RecoveryInv, RequestInv, QueueInv, [Next]_vars PROVE QueueInv'
  OBVIOUS
<1>1. CASE UNCHANGED <<head, channelVars>>
  BY <1>1 DEF QueueInv, Reached, channelVars
<1>2. CASE Serve
  <2>1. CASE HandleRecover
    <3>. DEFINE c == Head(toServer)
    <3>1. c \in Cursor /\ c.id > request /\ head' = head
      <4>1. toServer # << >> /\ toServer \in Seq(Cursor) /\ head' = head
        BY <2>1 DEF HandleRecover, streamVars, RecoveryInv, ChannelInv
      <4>2. c = toServer[1] /\ 1 \in 1..Len(toServer) /\ c \in Cursor
        BY <4>1
      <4>3. QED
        BY <4>1, <4>2 DEF RequestInv
    <3>2. Refuse(c) \/ PlanFails(c) \/ Reject(c) \/ Plan(c)
      BY <2>1 DEF HandleRecover
    <3>. HIDE DEF c
    <3>3. CASE Refuse(c)
      <4>1. request \in Nat /\ c.id \in Nat
        BY <3>1 DEF RecoveryInv, ChannelInv, Cursor
      <4>2. UNCHANGED channelVars
        BY <3>1, <3>3, <4>1 DEF Refuse, channelVars
      <4>3. QED
        BY <1>1, <3>1, <4>2
    <3>4. CASE PlanFails(c) \/ Reject(c)
      BY <3>4, QueueIdle DEF PlanFails, Reject, Conn
    <3>5. CASE Plan(c)
      BY <3>1, <3>5, QueuePlanned
    <3>6. QED
      BY <3>2, <3>3, <3>4, <3>5
  <2>2. CASE Abort
    BY <2>2, QueueIdle DEF Abort, Conn
  <2>3. CASE Install
    BY <1>1, <2>3 DEF Install
  <2>4. QED
    BY <1>2, <2>1, <2>2, <2>3, QueueIngest, QueueSent, QueueCompleted, QueueDrained DEF Serve, ServerStep
<1>3. CASE Connect
  <2>1. UNCHANGED <<head, request, step, cut, outbox, queued>> /\ conn' = (IF up /\ conn = "closed" THEN "awaiting" ELSE conn)
    BY <1>3 DEF Connect, streamVars
  <2>2. CASE conn' = conn
    BY <1>1, <2>1, <2>2 DEF channelVars
  <2>3. CASE conn = "closed" /\ conn' = "awaiting"
    BY <2>1, <2>3 DEF QueueInv, Reached, Conn, Step
  <2>4. QED
    BY <2>1, <2>2, <2>3
<1>4. CASE Recover \/ Disconnect \/ DisposeRecovery \/ Receive \/ Misdeliver \/ UNCHANGED vars
  BY <1>1, <1>4 DEF Recover, Disconnect, DisposeRecovery, Receive, Misdeliver, vars, streamVars
<1>5. CASE Drop \/ RestartFresh \/ RestartRestored \/ Halt
  BY <1>5, QueueIdle DEF Drop, RestartFresh, RestartRestored, Halt, LoseConnection, CloseChannel, Conn
<1>. QED
  BY <1>2, <1>3, <1>4, <1>5 DEF Next

LEMMA CursorsTyped ==
  ASSUME RecoveryInv
  PROVE  \A k \in 1..Len(toServer) : toServer[k].id \in Nat /\ toServer[k].rev \in Nat
<1>1. toServer \in Seq(Cursor)
  BY DEF RecoveryInv, ChannelInv
<1>2. \A k \in 1..Len(toServer) : toServer[k] \in Cursor
  BY <1>1
<1>. QED
  BY <1>2 DEF Cursor

\* The request that is next is newer than the one the server has, and can be met.
LEMMA NextRequest ==
  ASSUME RecoveryInv, AskedInv, RequestInv, toServer # << >>
  PROVE  LET c == Head(toServer) IN
         /\ c = toServer[1] /\ 1 \in 1..Len(toServer) /\ c \in Cursor
         /\ c.id > request /\ c.id <= calls /\ Outcome(c) # "reject"
         /\ Len(toServer) \in Nat /\ Len(Tail(toServer)) = Len(toServer) - 1
         /\ \A k \in 1..Len(Tail(toServer)) :
              k + 1 \in 1..Len(toServer) /\ Tail(toServer)[k] = toServer[k + 1]
<1>1. toServer \in Seq({d \in Cursor : d.id <= calls})
  BY DEF AskedInv
<1>2. /\ Head(toServer) = toServer[1] /\ 1 \in 1..Len(toServer)
      /\ Head(toServer) \in {d \in Cursor : d.id <= calls}
      /\ Len(toServer) \in Nat /\ Len(Tail(toServer)) = Len(toServer) - 1
      /\ \A k \in 1..Len(Tail(toServer)) :
           k + 1 \in 1..Len(toServer) /\ Tail(toServer)[k] = toServer[k + 1]
  BY <1>1
<1>3. Outcome(toServer[1]) # "reject"
  <2>1. toServer[1].inc = inc => ~(toServer[1].rev > head)
    BY <1>2 DEF RequestInv, RecoveryInv, StreamInv, Cursor
  <2>2. QED
    BY <2>1 DEF Outcome
<1>. QED
  BY <1>2, <1>3 DEF RequestInv

LEMMA RequestServed ==
  ASSUME RecoveryInv, AskedInv, RequestInv, Serve
  PROVE  RequestInv'
<1>1. /\ inc \in Nat /\ head \in Nat /\ mapRev \in Nat /\ request \in Nat /\ calls \in Nat /\ request <= calls
      /\ inc' = inc /\ head' \in Nat /\ head' >= head /\ failure' = failure
  BY DEF RecoveryInv, StreamInv, ChannelInv, MirrorInv, AskedInv, Serve, ServerStep, Install, Ingest,
     HandleRecover, SendNext, Complete, Drain, Abort, streamVars, clientVars
<1>2. toClient \in Seq(NoRejection) /\ (\A m \in NoRejection : Append(toClient, m) \in Seq(NoRejection))
  BY AppendProperties DEF RequestInv
<1>3. ASSUME NEW id \in 0..calls, NEW rev \in Nat, NEW type \in MessageType, NEW how \in How,
             type # "plan" \/ how \in Outcomes \ {"reject"}
      PROVE  Message(type, id, rev, how) \in NoRejection
  BY <1>1, <1>3 DEF Message, NoRejection, AnyMessage
<1>4. Unplanned(calls) \subseteq NoRejection
  BY DEF Unplanned, NoRejection
<1>5. queued \in Seq(Nat) /\ outbox \in Seq(NoRejection)
  <2>1. queued \in Seq(0..head) /\ 0..head \subseteq Nat
    BY <1>1 DEF RecoveryInv, ChannelInv
  <2>2. outbox \in Seq(Unplanned(calls))
    BY DEF AskedInv
  <2>3. QED
    BY <1>4, <2>1, <2>2, SeqMonotonic
<1>6. ASSUME UNCHANGED <<request, toServer>>, toClient' \in Seq(NoRejection) PROVE RequestInv'
  BY <1>1, <1>6, CursorsTyped DEF RequestInv
<1>7. CASE Install
  BY <1>2, <1>6, <1>7 DEF Install, channelVars
<1>8. CASE Ingest
  <2>1. toClient' = toClient \/ toClient' = Append(toClient, Message("commit", request, head', "live"))
    BY <1>8 DEF Ingest, Observe, EnqueueTail, HoldLive, SendLive, Send
  <2>2. Message("commit", request, head', "live") \in NoRejection
    BY <1>1, <1>3 DEF MessageType, How
  <2>3. QED
    BY <1>2, <1>6, <1>8, <2>1, <2>2 DEF Ingest
<1>9. CASE HandleRecover
  <2>. DEFINE c == Head(toServer)
              t == toServer'
  <2>1. /\ c = toServer[1] /\ 1 \in 1..Len(toServer) /\ c \in Cursor
        /\ c.id > request /\ c.id \in 0..calls /\ Outcome(c) # "reject"
        /\ Len(toServer) \in Nat /\ Len(t) = Len(toServer) - 1
        /\ \A k \in 1..Len(t) : k + 1 \in 1..Len(toServer) /\ t[k] = toServer[k + 1]
    BY <1>1, <1>9, NextRequest DEF HandleRecover, Cursor
  <2>2. Refuse(c) \/ PlanFails(c) \/ Reject(c) \/ Plan(c)
    BY <1>9 DEF HandleRecover
  <2>3. \A k \in 1..Len(toServer) : toServer[k].id \in Nat /\ toServer[k].rev \in Nat
    BY CursorsTyped
  <2>. HIDE DEF c, t
  <2>4. request' \in {request, c.id}
    BY <2>2 DEF Refuse, PlanFails, Reject, Plan
  <2>5. ASSUME NEW k \in 1..Len(t)
        PROVE  /\ t[k].id > request' /\ (t[k].inc = inc => t[k].rev <= head')
               /\ \A j \in 1..(k - 1) : t[j].id < t[k].id
    <3>1. /\ k + 1 \in 1..Len(toServer) /\ t[k] = toServer[k + 1] /\ 1 \in 1..(k + 1 - 1)
          /\ \A j \in 1..(k - 1) : j \in 1..Len(t) /\ j + 1 \in 1..(k + 1 - 1)
      BY <2>1
    <3>2. /\ toServer[k + 1].id > request /\ (toServer[k + 1].inc = inc => toServer[k + 1].rev <= head)
          /\ \A j \in 1..(k + 1 - 1) : toServer[j].id < toServer[k + 1].id
      BY <3>1 DEF RequestInv
    <3>3. t[k].id > request'
      BY <2>1, <2>4, <3>1, <3>2, <2>3
    <3>4. t[k].inc = inc => t[k].rev <= head'
      BY <1>1, <2>3, <3>1, <3>2
    <3>5. \A j \in 1..(k - 1) : t[j].id < t[k].id
      BY <2>1, <3>1, <3>2
    <3>6. QED
      BY <3>3, <3>4, <3>5
  <2>6. toClient' \in Seq(NoRejection)
    <3>1. Outcome(c) \in How /\ Outcome(c) \in Outcomes \ {"reject"}
      BY <2>1 DEF Outcome, How, Outcomes
    <3>2. PlanHead(c) \in Nat
      BY <1>1 DEF PlanHead
    <3>3. /\ Message("error", c.id, 0, "refused") \in NoRejection
          /\ Message("error", c.id, 0, "planning") \in NoRejection
          /\ Message("plan", c.id, PlanHead(c), Outcome(c)) \in NoRejection
      BY <1>3, <2>1, <3>1, <3>2 DEF MessageType, How
    <3>4. QED
      BY <1>2, <2>1, <2>2, <3>3 DEF Refuse, PlanFails, Reject, Plan, Send
  <2>7. QED
    BY <1>1, <2>5, <2>6 DEF RequestInv, t
<1>10. CASE SendNext
  <2>1. Head(outbox) \in NoRejection
    BY <1>5, <1>10, HeadTailProperties DEF SendNext
  <2>2. QED
    BY <1>2, <1>6, <1>10, <2>1 DEF SendNext, Send
<1>11. CASE Complete
  <2>. DEFINE rest == Append(CommitMessages(request, queued, "tail"),
                             Message("caught-up", request, ThroughRev, "end"))
  <2>1. ThroughRev \in Nat
    BY <1>1, <1>5 DEF ThroughRev, RecoveryInv, ChannelInv
  <2>2. Message("caught-up", request, ThroughRev, "end") \in NoRejection
    BY <1>1, <1>3, <2>1 DEF MessageType, How
  <2>3. CommitMessages(request, queued, "tail") \in Seq(NoRejection)
    <3>1. CommitMessages(request, queued, "tail") \in Seq(Unplanned(calls))
      BY <1>1, <1>5, CommitsUnplanned DEF How
    <3>2. QED
      BY <1>4, <3>1, SeqMonotonic
  <2>4. rest \in Seq(NoRejection) /\ rest # << >>
    BY <2>2, <2>3, AppendProperties
  <2>5. Send(Head(rest)) /\ UNCHANGED <<request, toServer>>
    BY <1>11 DEF Complete
  <2>. HIDE DEF rest
  <2>6. Head(rest) \in NoRejection
    BY <2>4, HeadTailProperties
  <2>7. QED
    BY <1>2, <1>6, <2>5, <2>6 DEF Send
<1>12. CASE Drain
  <2>1. queued # << >> => Message("commit", request, Head(queued), "live") \in NoRejection
    BY <1>1, <1>3, <1>5, HeadTailProperties DEF MessageType, How
  <2>2. toClient' \in Seq(NoRejection) /\ UNCHANGED <<request, toServer>>
    BY <1>2, <1>12, <2>1 DEF Drain, Send
  <2>3. QED
    BY <1>6, <2>2
<1>13. CASE Abort
  <2>1. Message("error", request, 0, "aborted") \in NoRejection
    BY <1>1, <1>3 DEF MessageType, How
  <2>2. QED
    BY <1>2, <1>6, <1>13, <2>1 DEF Abort, Send
<1>. QED
  BY <1>7, <1>8, <1>9, <1>10, <1>11, <1>12, <1>13 DEF Serve, ServerStep

\* No plan that arrives refuses the cursor.
LEMMA NeverToldAhead ==
  ASSUME RequestInv, Receive, failure' = "rejected"
  PROVE  FALSE
<1>. DEFINE m == Head(toClient)
<1>1. m \in NoRejection
  BY HeadTailProperties DEF RequestInv, Receive
<1>. HIDE DEF m
<1>2. m.type \in MessageType /\ (m.type = "plan" => m.how # "reject") /\ failure # "rejected"
  BY <1>1 DEF NoRejection, AnyMessage, RequestInv
<1>3. CASE Ignored(m)
  BY <1>2, <1>3 DEF Receive, m, GoOn
<1>4. CASE ~Ignored(m) /\ m.type = "plan"
  <2>1. OnPlan(m)
    BY <1>4 DEF Receive, m
  <2>2. QED
    BY <1>2, <1>4, <2>1 DEF OnPlan, Fail
<1>5. CASE ~Ignored(m) /\ m.type = "commit"
  <2>1. OnCommit(m)
    BY <1>5 DEF Receive, m
  <2>2. QED
    BY <1>2, <2>1 DEF OnCommit, Apply, Shown, GoOn, Fail
<1>6. CASE ~Ignored(m) /\ m.type = "snapshot"
  <2>1. OnSnapshot(m)
    BY <1>6 DEF Receive, m
  <2>2. QED
    BY <1>2, <2>1 DEF OnSnapshot, InstallFails, Shown, GoOn, Fail
<1>7. CASE ~Ignored(m) /\ m.type = "caught-up"
  <2>1. OnCaughtUp(m)
    BY <1>7 DEF Receive, m
  <2>2. QED
    BY <1>2, <2>1 DEF OnCaughtUp, Fail
<1>8. CASE ~Ignored(m) /\ m.type = "error"
  BY <1>8 DEF Receive, m, Fail
<1>. QED
  BY <1>2, <1>3, <1>4, <1>5, <1>6, <1>7, <1>8 DEF MessageType

LEMMA RequestStep ==
  RecoveryInv /\ AskedInv /\ RequestInv /\ [Next]_vars => RequestInv'
<1>. SUFFICES ASSUME RecoveryInv, AskedInv, RequestInv, [Next]_vars PROVE RequestInv'
  OBVIOUS
<1>1. CASE Connect \/ Disconnect \/ DisposeRecovery \/ UNCHANGED vars
  BY <1>1 DEF Connect, Disconnect, DisconnectClient, DisposeRecovery, vars, streamVars, channelVars,
     clientVars, RequestInv
<1>2. CASE Recover
  <2>. DEFINE n == Len(toServer)
              t == toServer'
  <2>1. /\ n \in Nat /\ Len(t) = n + 1 /\ t[n + 1] = CursorMessage
        /\ \A k \in 1..n : t[k] = toServer[k] /\ toServer[k].id <= calls
    <3>1. toServer \in Seq({c \in Cursor : c.id <= calls})
      BY DEF AskedInv
    <3>2. \A k \in 1..n : toServer[k] \in {c \in Cursor : c.id <= calls}
      BY <3>1
    <3>3. t = Append(toServer, CursorMessage)
      BY <1>2 DEF Recover
    <3>4. n \in Nat /\ Len(t) = n + 1 /\ t[n + 1] = CursorMessage /\ \A k \in 1..n : t[k] = toServer[k]
      BY <3>1, <3>3
    <3>5. QED
      BY <3>2, <3>4
  <2>2. /\ UNCHANGED <<inc, head, request, toClient, failure>>
        /\ request \in Nat /\ calls \in Nat /\ request <= calls
        /\ CursorMessage.id = calls + 1 /\ (CursorMessage.inc = inc => CursorMessage.rev <= head)
    BY <1>2 DEF Recover, streamVars, channelVars, RecoveryInv, ChannelInv, MirrorInv, AskedInv, CursorMessage
  <2>3. \A k \in 1..n : toServer[k].id \in Nat
    BY CursorsTyped
  <2>. HIDE DEF n, t
  <2>4. ASSUME NEW k \in 1..Len(t)
        PROVE  /\ t[k].id > request' /\ (t[k].inc = inc => t[k].rev <= head)
               /\ \A j \in 1..(k - 1) : t[j].id < t[k].id
    <3>1. CASE k = n + 1
      <4>1. t[k] = CursorMessage /\ \A j \in 1..(k - 1) : t[j] = toServer[j] /\ j \in 1..n
        BY <2>1, <3>1
      <4>2. QED
        BY <2>1, <2>2, <2>3, <4>1
    <3>2. CASE k # n + 1
      <4>1. k \in 1..n /\ t[k] = toServer[k] /\ \A j \in 1..(k - 1) : t[j] = toServer[j]
        BY <2>1, <3>2
      <4>2. QED
        BY <2>2, <4>1 DEF RequestInv, n
    <3>3. QED
      BY <3>1, <3>2
  <2>5. QED
    BY <2>2, <2>4 DEF RequestInv, t
<1>3. CASE Receive
  <2>1. UNCHANGED <<inc, head, request, toServer>> /\ toClient' = Tail(toClient) /\ toClient # << >>
    BY <1>3 DEF Receive, streamVars, channelVars
  <2>2. toClient' \in Seq(NoRejection)
    BY <2>1, HeadTailProperties DEF RequestInv
  <2>3. QED
    BY <1>3, <2>1, <2>2, NeverToldAhead DEF RequestInv
<1>4. CASE Drop \/ RestartFresh \/ RestartRestored
  <2>1. toClient' = << >> /\ toServer' = << >> /\ failure' \in {failure, "disconnected"}
    BY <1>4 DEF Drop, RestartFresh, RestartRestored, LoseConnection, DisconnectClient
  <2>2. QED
    BY <2>1, EmptyQueues DEF RequestInv
<1>5. CASE Halt
  <2>1. request' = 0 /\ request \in Nat /\ UNCHANGED <<inc, head, toClient, toServer, failure>>
        /\ \A k \in 1..Len(toServer) : toServer[k].id \in Nat
    BY <1>5, CursorsTyped DEF Halt, CloseChannel, clientVars, RecoveryInv, ChannelInv
  <2>2. QED
    BY <2>1 DEF RequestInv
<1>6. CASE Misdeliver
  <2>1. toClient' \in Seq(NoRejection)
    BY <1>6, MisdeliverKeeps DEF RequestInv
  <2>2. QED
    BY <1>6, <2>1 DEF RequestInv, Misdeliver, streamVars, channelVars, clientVars
<1>. QED
  BY <1>1, <1>2, <1>3, <1>4, <1>5, <1>6, RequestServed DEF Next

-----------------------------------------------------------------------------
(* The line of messages: what sending and receiving do to it.               *)

\* A message is sent that the client accepts after those on their way.
LEMMA LineGrows ==
  ASSUME NEW r, NEW f \in Nat, InLine(r, f), toClient \in Seq(AnyMessage), NEW m \in AnyMessage,
         toClient' = Append(toClient, m),
         UNCHANGED <<life, plan, got, tailing, applied, calls>>,
         m.id = calls /\ f = Len(toClient) => ClientAccepts(r, m),
         \A j \in 1..Len(toClient) : Lasting(j) =>
           /\ m.id = calls
           /\ j = Len(toClient) => Accepts(r, Phase(toClient[j]), Cur(r, toClient[j]), m)
           /\ Phase(toClient[j]) = "end" => IsLive(m, Cur(r, toClient[j]) + (Len(toClient) + 1) - j),
         life = "caught-up" /\ m.id = calls => IsLive(m, applied + (Len(toClient) + 1) - f),
         NEW g, g = IF f = Len(toClient) /\ m.id # calls THEN f + 1 ELSE f
  PROVE  g \in Nat /\ InLine(r, g)'
<1>. DEFINE n == Len(toClient)
            s == toClient'
<1>1. /\ n \in Nat /\ Len(s) = n + 1 /\ s[n + 1] = m /\ \A k \in 1..n : s[k] = toClient[k]
      /\ f \in 0..n /\ g \in Nat /\ g \in 0..(n + 1)
  <2>1. Len(toClient) \in Nat /\ f \in 0..Len(toClient)
    BY DEF InLine
  <2>2. QED
    BY <2>1, AppendProperties
<1>2. /\ \A k \in 1..f : toClient[k].id # calls
      /\ f < n => toClient[f + 1].id = calls /\ ClientAccepts(r, toClient[f + 1])
  BY DEF InLine, Mine
<1>3. \A j, k \in 1..n : j < k /\ Lasting(j) =>
       /\ Mine(k)
       /\ k = j + 1 => Accepts(r, Phase(toClient[j]), Cur(r, toClient[j]), toClient[k])
       /\ Phase(toClient[j]) = "end" => IsLive(toClient[k], Cur(r, toClient[j]) + k - j)
  BY DEF InLine
<1>4. life = "caught-up" => \A k \in (f + 1)..n : toClient[k].id = calls => IsLive(toClient[k], applied + k - f)
  BY DEF InLine, Mine
<1>. HIDE DEF n, s
<1>5. \A k \in 1..g : s[k].id # calls
  BY <1>1, <1>2 DEF n
<1>6. g < Len(s) => s[g + 1].id = calls /\ ClientAccepts(r, s[g + 1])
  BY <1>1, <1>2 DEF n
<1>7. ASSUME NEW j \in 1..Len(s), NEW k \in 1..Len(s), j < k, s[j].id = calls, s[j].type # "error"
      PROVE  /\ s[k].id = calls
             /\ k = j + 1 => Accepts(r, Phase(s[j]), Cur(r, s[j]), s[k])
             /\ Phase(s[j]) = "end" => IsLive(s[k], Cur(r, s[j]) + k - j)
  <2>1. j \in 1..n /\ s[j] = toClient[j] /\ Lasting(j)
    BY <1>1, <1>7 DEF Lasting, Mine
  <2>2. CASE k = n + 1
    <3>1. s[k] = m /\ n \in Nat /\ (k = j + 1 => j = n)
      BY <1>1, <2>1, <2>2
    <3>2. QED
      BY <2>1, <2>2, <3>1 DEF n
  <2>3. CASE k # n + 1
    <3>1. k \in 1..n /\ s[k] = toClient[k]
      BY <1>1, <2>3
    <3>2. QED
      BY <1>3, <1>7, <2>1, <3>1 DEF Mine
  <2>4. QED
    BY <2>2, <2>3
<1>8. ASSUME life = "caught-up", NEW k \in (g + 1)..Len(s), s[k].id = calls PROVE IsLive(s[k], applied + k - g)
  <2>1. CASE k = n + 1
    <3>1. s[k] = m /\ g = f
      BY <1>1, <1>8, <2>1 DEF n
    <3>2. QED
      BY <1>8, <2>1, <3>1 DEF n
  <2>2. CASE k # n + 1
    <3>1. k \in 1..n /\ s[k] = toClient[k] /\ g = f /\ k \in (f + 1)..n
      BY <1>1, <2>2 DEF n
    <3>2. QED
      BY <1>4, <1>8, <3>1
  <2>3. QED
    BY <2>1, <2>2
<1>. QED
  BY <1>1, <1>5, <1>6, <1>7, <1>8 DEF InLine, Mine, Lasting, s, ClientAccepts, ClientPhase, ClientCur

\* A message of another request, or an error, when nothing of the last request
\* is on its way that it could interrupt.
LEMMA LineGrowsAside ==
  ASSUME NEW r, NEW f \in Nat, InLine(r, f), toClient \in Seq(AnyMessage), NEW m \in AnyMessage,
         toClient' = Append(toClient, m),
         UNCHANGED <<life, plan, got, tailing, applied, calls>>,
         \/ m.id # calls /\ \A j \in 1..Len(toClient) : ~Lasting(j)
         \/ m.id = calls /\ m.type = "error"
  PROVE  \E g \in Nat : InLine(r, g)'
<1>1. m.id = calls => m.type = "error"
  OBVIOUS
<1>2. m.id # calls => \A j \in 1..Len(toClient) : ~Lasting(j)
  OBVIOUS
<1>3. m.type = "error" => /\ ClientAccepts(r, m) /\ \A p, c : Accepts(r, p, c, m)
                          /\ \A v : IsLive(m, v)
  BY DEF ClientAccepts, Accepts, IsLive
<1>4. /\ m.id = calls /\ f = Len(toClient) => ClientAccepts(r, m)
      /\ life = "caught-up" /\ m.id = calls => IsLive(m, applied + (Len(toClient) + 1) - f)
  BY <1>1, <1>3
<1>5. \A j \in 1..Len(toClient) : Lasting(j) =>
        /\ m.id = calls
        /\ j = Len(toClient) => Accepts(r, Phase(toClient[j]), Cur(r, toClient[j]), m)
        /\ Phase(toClient[j]) = "end" => IsLive(m, Cur(r, toClient[j]) + (Len(toClient) + 1) - j)
  BY <1>1, <1>2, <1>3
<1>6. PICK g : g = IF f = Len(toClient) /\ m.id # calls THEN f + 1 ELSE f
  OBVIOUS
<1>7. g \in Nat /\ InLine(r, g)'
  BY <1>4, <1>5, <1>6, LineGrows
<1>. QED
  BY <1>7

\* The next message of the last request, from where what is on its way ends.
LEMMA LineGoesOn ==
  ASSUME NEW r \in Run, NEW f \in Nat, InLine(r, f), toClient \in Seq(AnyMessage), NEW m \in AnyMessage,
         toClient' = Append(toClient, m),
         UNCHANGED <<life, plan, got, tailing, applied, calls>>,
         applied \in Nat, m.id = calls, m.type # "error",
         NEW phases, NEW cur \in Int, EndsAt(r, f, phases, cur),
         \A p \in phases : Accepts(r, p, cur, m)
  PROVE  InLine(r, f)' /\ EndsAt(r, f, {Phase(m)}, Cur(r, m))'
<1>. DEFINE n == Len(toClient)
<1>1. /\ n \in Nat /\ f \in 0..n /\ \A k \in 1..n : toClient[k] \in AnyMessage /\ toClient[k].rev \in Nat
      /\ r.base \in Int
  <2>1. \A k \in 1..n : toClient[k] \in AnyMessage
    OBVIOUS
  <2>2. r.base \in Int
    BY DEF Run
  <2>3. \A a \in AnyMessage : a.rev \in Nat
    BY DEF AnyMessage
  <2>4. n \in Nat /\ f \in 0..n
    BY DEF InLine
  <2>5. QED
    BY <2>1, <2>2, <2>3, <2>4
<1>2. ASSUME f = n PROVE /\ life # "awaiting-plan" /\ ClientPhase \in phases /\ ClientCur(r) = cur
                         /\ \A j \in 1..n : ~Lasting(j)
  BY <1>1, <1>2 DEF EndsAt, InLine, Lasting
<1>3. ASSUME f < n PROVE /\ Lasting(n) /\ Phase(toClient[n]) \in phases /\ Cur(r, toClient[n]) = cur
  BY <1>3 DEF EndsAt
<1>4. f = n => ClientAccepts(r, m)
  BY <1>2 DEF ClientAccepts
<1>5. "end" \in phases => m.type = "commit" /\ m.how = "live" /\ m.rev = cur + 1
  BY DEF Accepts
<1>6. ASSUME NEW j \in 1..n, Lasting(j)
      PROVE  /\ j = n => Accepts(r, Phase(toClient[j]), Cur(r, toClient[j]), m)
             /\ Phase(toClient[j]) = "end" => IsLive(m, Cur(r, toClient[j]) + (n + 1) - j)
  <2>1. f < n
    BY <1>1, <1>2, <1>6
  <2>2. Cur(r, toClient[j]) \in Int /\ j \in Nat
    BY <1>1 DEF Cur
  <2>3. CASE j = n
    <3>1. Accepts(r, Phase(toClient[j]), Cur(r, toClient[j]), m)
      BY <1>3, <2>1, <2>3
    <3>2. Cur(r, toClient[j]) + (n + 1) - j = Cur(r, toClient[j]) + 1
      BY <1>1, <2>2, <2>3
    <3>3. Phase(toClient[j]) = "end" => m.type = "commit" /\ m.how = "live" /\ m.rev = Cur(r, toClient[j]) + 1
      BY <1>3, <1>5, <2>1, <2>3
    <3>4. QED
      BY <3>1, <3>2, <3>3 DEF IsLive
  <2>4. CASE j # n
    <3>1. SUFFICES ASSUME Phase(toClient[j]) = "end" PROVE IsLive(m, Cur(r, toClient[j]) + (n + 1) - j)
      BY <2>4
    <3>2. IsLive(toClient[n], Cur(r, toClient[j]) + n - j)
      BY <1>1, <1>6, <2>4, <3>1 DEF InLine
    <3>3. /\ toClient[n].type = "commit" /\ toClient[n].how = "live"
          /\ toClient[n].rev = Cur(r, toClient[j]) + n - j
      BY <1>3, <2>1, <3>2 DEF IsLive, Lasting
    <3>4. Phase(toClient[n]) = "end" /\ Cur(r, toClient[n]) = toClient[n].rev
      BY <3>3 DEF Phase, Cur
    <3>5. cur = Cur(r, toClient[j]) + n - j /\ m.type = "commit" /\ m.how = "live" /\ m.rev = cur + 1
      BY <1>3, <1>5, <2>1, <3>3, <3>4
    <3>6. m.rev = Cur(r, toClient[j]) + (n + 1) - j
      BY <1>1, <2>2, <3>5
    <3>7. QED
      BY <3>5, <3>6 DEF IsLive
  <2>5. QED
    BY <2>3, <2>4
<1>7. ASSUME life = "caught-up" PROVE IsLive(m, applied + (n + 1) - f)
  <2>1. CASE f = n
    <3>1. "end" \in phases /\ cur = applied
      BY <1>2, <1>7, <2>1 DEF ClientPhase, ClientCur
    <3>2. m.rev = applied + (n + 1) - f
      BY <1>1, <1>5, <2>1, <3>1
    <3>3. QED
      BY <1>5, <3>1, <3>2 DEF IsLive
  <2>2. CASE f < n
    <3>1. IsLive(toClient[n], applied + n - f)
      BY <1>1, <1>3, <1>7, <2>2 DEF InLine, Lasting
    <3>2. /\ toClient[n].type = "commit" /\ toClient[n].how = "live"
          /\ toClient[n].rev = applied + n - f
      BY <1>3, <2>2, <3>1 DEF IsLive, Lasting
    <3>3. Phase(toClient[n]) = "end" /\ Cur(r, toClient[n]) = toClient[n].rev
      BY <3>2 DEF Phase, Cur
    <3>4. cur = applied + n - f /\ m.type = "commit" /\ m.how = "live" /\ m.rev = cur + 1
      BY <1>3, <1>5, <2>2, <3>2, <3>3
    <3>5. m.rev = applied + (n + 1) - f
      BY <1>1, <3>4
    <3>6. QED
      BY <3>4, <3>5 DEF IsLive
  <2>3. QED
    BY <1>1, <2>1, <2>2
<1>8. InLine(r, f)'
  <2>1. f = IF f = Len(toClient) /\ m.id # calls THEN f + 1 ELSE f
    OBVIOUS
  <2>2. QED
    BY <1>4, <1>6, <1>7, <2>1, LineGrows
<1>9. EndsAt(r, f, {Phase(m)}, Cur(r, m))'
  <2>1. Len(toClient') = n + 1 /\ toClient'[n + 1] = m
    BY AppendProperties
  <2>2. QED
    BY <1>1, <2>1 DEF EndsAt, Lasting, Mine
<1>. QED
  BY <1>8, <1>9

\* The first message on its way arrives: it is of another request, or the
\* client is then in the message's phase and at its cursor.
LEMMA LineShifts ==
  ASSUME NEW r, NEW f \in Nat, InLine(r, f), toClient \in Seq(AnyMessage), toClient # << >>,
         toClient' = Tail(toClient), calls' = calls, NEW m, m = toClient[1],
         \/ m.id # calls /\ UNCHANGED <<life, plan, got, tailing, applied>>
         \/ /\ m.id = calls /\ m.type # "error" /\ life' # "awaiting-plan"
            /\ ClientPhase' = Phase(m) /\ ClientCur(r)' = Cur(r, m),
         applied' \in Nat,
         NEW g, g = IF f = 0 THEN 0 ELSE f - 1
  PROVE  /\ g \in Nat /\ InLine(r, g)'
         /\ \A phases, cur : EndsAt(r, f, phases, cur) => EndsAt(r, g, phases, cur)'
<1>. DEFINE n == Len(toClient)
            s == toClient'
<1>1. /\ n \in Nat /\ n > 0 /\ Len(s) = n - 1 /\ \A k \in 1..(n - 1) : k + 1 \in 1..n /\ s[k] = toClient[k + 1]
      /\ f \in 0..n /\ g \in Nat
  <2>1. Len(toClient) \in Nat /\ f \in 0..Len(toClient)
    BY DEF InLine
  <2>2. QED
    BY <2>1
<1>2. /\ \A k \in 1..f : toClient[k].id # calls
      /\ f < n => toClient[f + 1].id = calls /\ ClientAccepts(r, toClient[f + 1])
  BY DEF InLine, Mine
<1>3. \A j, k \in 1..n : j < k /\ toClient[j].id = calls /\ toClient[j].type # "error" =>
       /\ toClient[k].id = calls
       /\ k = j + 1 => Accepts(r, Phase(toClient[j]), Cur(r, toClient[j]), toClient[k])
       /\ Phase(toClient[j]) = "end" => IsLive(toClient[k], Cur(r, toClient[j]) + k - j)
  BY DEF InLine, Lasting, Mine
<1>4. life = "caught-up" => \A k \in (f + 1)..n : toClient[k].id = calls => IsLive(toClient[k], applied + k - f)
  BY DEF InLine, Mine
<1>. HIDE DEF n, s
<1>5. ASSUME NEW j \in 1..Len(s), NEW k \in 1..Len(s), j < k, s[j].id = calls, s[j].type # "error"
      PROVE  /\ s[k].id = calls
             /\ k = j + 1 => Accepts(r, Phase(s[j]), Cur(r, s[j]), s[k])
             /\ Phase(s[j]) = "end" => IsLive(s[k], Cur(r, s[j]) + k - j)
  <2>0. n \in Nat /\ n > 0 /\ j \in 1..(n - 1) /\ k \in 1..(n - 1) /\ j < k
    BY <1>1, <1>5
  <2>1. /\ j + 1 \in 1..n /\ k + 1 \in 1..n /\ j + 1 < k + 1 /\ (k = j + 1 => k + 1 = (j + 1) + 1)
        /\ s[j] = toClient[j + 1] /\ s[k] = toClient[k + 1]
    <3>1. s[j] = toClient[j + 1] /\ s[k] = toClient[k + 1]
      BY <1>1, <2>0
    <3>2. j + 1 \in 1..n /\ k + 1 \in 1..n
      BY <2>0
    <3>3. j + 1 < k + 1 /\ (k = j + 1 => k + 1 = (j + 1) + 1)
      BY <2>0
    <3>4. QED
      BY <3>1, <3>2, <3>3
  <2>2. \A v : v \in Int => v + (k + 1) - (j + 1) = v + k - j
    BY <1>1
  <2>3. QED
    <3>1. /\ s[k].id = calls
          /\ k = j + 1 => Accepts(r, Phase(s[j]), Cur(r, s[j]), s[k])
          /\ Phase(s[j]) = "end" => IsLive(s[k], Cur(r, s[j]) + (k + 1) - (j + 1))
      BY <1>3, <1>5, <2>1
    <3>2. Phase(s[j]) = "end" => Cur(r, s[j]) \in Int
      <4>1. s[j] \in AnyMessage
        BY <2>1 DEF n
      <4>2. s[j].rev \in Nat
        BY <4>1 DEF AnyMessage
      <4>3. Phase(s[j]) = "end" => s[j].type # "plan"
        BY DEF Phase
      <4>4. QED
        BY <4>2, <4>3 DEF Cur
    <3>3. QED
      BY <2>2, <3>1, <3>2
<1>6. CASE m.id # calls /\ UNCHANGED <<life, plan, got, tailing, applied>>
  <2>1. f > 0 /\ g = f - 1 /\ applied \in Nat
    BY <1>1, <1>2, <1>6
  <2>2. \A k \in 1..g : s[k].id # calls
    BY <1>1, <1>2, <2>1
  <2>3. g < Len(s) => s[g + 1].id = calls /\ ClientAccepts(r, s[g + 1])
    BY <1>1, <1>2, <2>1
  <2>4. ASSUME life = "caught-up", NEW k \in (g + 1)..Len(s), s[k].id = calls PROVE IsLive(s[k], applied + k - g)
    <3>1. k + 1 \in (f + 1)..n /\ s[k] = toClient[k + 1] /\ applied + (k + 1) - f = applied + k - g
      BY <1>1, <2>1
    <3>2. IsLive(toClient[k + 1], applied + (k + 1) - f)
      BY <1>4, <2>4, <3>1
    <3>3. QED
      BY <3>1, <3>2
  <2>5. InLine(r, g)'
    <3>1. g \in 0..Len(toClient') /\ \A k \in 1..g : ~Mine(k)'
      BY <1>1, <2>1, <2>2 DEF Mine, s
    <3>2. g < Len(toClient') => Mine(g + 1)' /\ ClientAccepts(r, toClient[g + 1])'
      BY <1>6, <2>3 DEF Mine, s, ClientAccepts, ClientPhase, ClientCur
    <3>3. \A j, k \in 1..Len(toClient') : j < k /\ Lasting(j)' =>
            /\ Mine(k)'
            /\ k = j + 1 => Accepts(r, Phase(toClient'[j]), Cur(r, toClient'[j]), toClient'[k])
            /\ Phase(toClient'[j]) = "end" => IsLive(toClient'[k], Cur(r, toClient'[j]) + k - j)
      BY <1>5 DEF Mine, Lasting, s
    <3>4. life' = "caught-up" =>
            \A k \in (g + 1)..Len(toClient') : Mine(k)' => IsLive(toClient'[k], applied' + k - g)
      BY <1>6, <2>4 DEF Mine, s
    <3>. QED
      BY <3>1, <3>2, <3>3, <3>4 DEF InLine
  <2>6. ASSUME NEW phases, NEW cur, EndsAt(r, f, phases, cur) PROVE EndsAt(r, g, phases, cur)'
    <3>1. f < n <=> g < Len(s)
      BY <1>1, <2>1
    <3>2. f < n => s[Len(s)] = toClient[n]
      BY <1>1, <2>1
    <3>3. QED
      BY <1>6, <2>6, <3>1, <3>2 DEF EndsAt, Mine, Lasting, s, n, ClientPhase, ClientCur
  <2>7. QED
    BY <1>1, <2>5, <2>6
<1>7. CASE /\ m.id = calls /\ m.type # "error" /\ life' # "awaiting-plan"
           /\ ClientPhase' = Phase(m) /\ ClientCur(r)' = Cur(r, m)
  <2>1. f = 0 /\ g = 0 /\ 1 \in 1..n
    BY <1>1, <1>2, <1>7
  <2>2. ASSUME 0 < Len(s) PROVE toClient'[1].id = calls /\ ClientAccepts(r, toClient[1])'
    <3>1. 2 \in 1..n /\ s[1] = toClient[2] /\ 2 = 1 + 1 /\ 1 < 2
      BY <1>1, <2>2
    <3>2. s[1].id = calls /\ Accepts(r, Phase(m), Cur(r, m), s[1])
      BY <1>3, <1>7, <2>1, <3>1
    <3>3. Accepts(r, ClientPhase', ClientCur(r)', toClient'[1])
      BY <1>7, <3>2 DEF s
    <3>4. QED
      BY <1>7, <3>2, <3>3 DEF ClientAccepts, s
  <2>3. ASSUME life' = "caught-up", NEW k \in 1..Len(s), s[k].id = calls PROVE IsLive(s[k], applied' + k - 0)
    <3>1. Phase(m) = "end" /\ Cur(r, m) = applied'
      BY <1>7, <2>3 DEF ClientPhase, ClientCur
    <3>2. k + 1 \in 1..n /\ s[k] = toClient[k + 1] /\ 1 < k + 1 /\ applied' + (k + 1) - 1 = applied' + k - 0
      BY <1>1, <2>3
    <3>3. IsLive(toClient[k + 1], Cur(r, m) + (k + 1) - 1)
      BY <1>3, <1>7, <2>1, <3>1, <3>2
    <3>4. QED
      BY <3>1, <3>2, <3>3
  <2>4. InLine(r, 0)'
    BY <1>1, <1>5, <2>2, <2>3 DEF InLine, Mine, Lasting, s
  <2>5. ASSUME NEW phases, NEW cur, EndsAt(r, f, phases, cur) PROVE EndsAt(r, 0, phases, cur)'
    <3>1. Lasting(n) /\ Phase(toClient[n]) \in phases /\ Cur(r, toClient[n]) = cur
      BY <1>1, <2>1, <2>5 DEF EndsAt, n
    <3>2. CASE n = 1
      BY <1>1, <1>7, <3>1, <3>2 DEF EndsAt, s
    <3>3. CASE n # 1
      <4>1. 0 < Len(s) /\ s[Len(s)] = toClient[n]
        BY <1>1, <3>3
      <4>2. QED
        BY <3>1, <4>1 DEF EndsAt, Lasting, Mine, s
    <3>4. QED
      BY <3>2, <3>3
  <2>6. QED
    BY <2>1, <2>4, <2>5
<1>. QED
  BY <1>6, <1>7

-----------------------------------------------------------------------------
(* The server goes on where the line ends.                                  *)

\* What is sent is a message of the last request.
LEMMA LinkGoesOn ==
  ASSUME RecoveryInv, NEW r \in Run, NEW f \in Nat, InLine(r, f), toClient \in Seq(AnyMessage),
         \A k \in 1..Len(toClient) : Mine(k) => Lasting(k),
         NEW m \in AnyMessage, toClient' = Append(toClient, m), UNCHANGED clientVars,
         m.id = calls, m.type # "error",
         NEW phases, NEW cur \in Int, EndsAt(r, f, phases, cur),
         \A p \in phases : Accepts(r, p, cur, m)
  PROVE  /\ InLine(r, f)' /\ EndsAt(r, f, {Phase(m)}, Cur(r, m))'
         /\ \A k \in 1..Len(toClient') : Mine(k)' => Lasting(k)'
<1>1. applied \in Nat
  BY DEF RecoveryInv, MirrorInv
<1>2. InLine(r, f)' /\ EndsAt(r, f, {Phase(m)}, Cur(r, m))'
  BY <1>1, LineGoesOn DEF clientVars
<1>3. /\ Len(toClient') = Len(toClient) + 1 /\ toClient'[Len(toClient) + 1] = m
      /\ \A k \in 1..Len(toClient) : toClient'[k] = toClient[k]
  BY AppendProperties
<1>4. Len(toClient) \in Nat
  OBVIOUS
<1>5. ASSUME NEW k \in 1..Len(toClient'), toClient'[k].id = calls PROVE toClient'[k].type # "error"
  <2>1. CASE k = Len(toClient) + 1
    BY <1>3, <2>1
  <2>2. CASE k # Len(toClient) + 1
    BY <1>3, <1>4, <1>5, <2>2 DEF Mine, Lasting
  <2>3. QED
    BY <2>1, <2>2
<1>. QED
  BY <1>2, <1>5 DEF Mine, Lasting, clientVars

LEMMA LinkSent ==
  ASSUME RecoveryInv, QueueInv, NEW r \in Run, NEW f \in Nat, InLine(r, f), Link(r, f),
         toClient \in Seq(AnyMessage), outbox \in Seq(AnyMessage),
         SendNext, UNCHANGED clientVars, request = calls
  PROVE  InLine(r, f)' /\ Link(r, f)'
<1>. DEFINE n == Len(outbox)
            o == outbox'
<1>0. PICK m : m = outbox[1]
  OBVIOUS
<1>1. /\ outbox # << >> /\ o = Tail(outbox) /\ toClient' = Append(toClient, Head(outbox))
      /\ step \in {"body", "tail"} /\ conn = "recovering"
      /\ UNCHANGED <<head, conn, request, step, cut, queued, calls>> /\ Reached' = Reached
      /\ queued \in Seq(0..head) /\ head \in Nat /\ cut \in Nat
  BY DEF SendNext, Send, streamVars, clientVars, Reached, RecoveryInv, ChannelInv, StreamInv
<1>2. /\ n \in Nat /\ n > 0 /\ Len(o) = n - 1 /\ o \in Seq(AnyMessage) /\ 1 \in 1..n /\ m \in AnyMessage /\ m = Head(outbox)
      /\ \A k \in 1..Len(o) : k + 1 \in 1..n /\ o[k] = outbox[k + 1]
      /\ Reached \in Int
  <2>1. Len(queued) \in Nat
    BY <1>1
  <2>2. QED
    BY <1>0, <1>1, <2>1 DEF Reached
<1>3. Serving
  BY <1>1 DEF Serving
<1>4. /\ \A k \in 1..Len(toClient) : Mine(k) => Lasting(k)
      /\ r.at = cut
  BY <1>1, <1>3 DEF Link
<1>5. o = << >> <=> n = 1
  BY <1>2, EmptySeq
<1>. HIDE DEF n, o
<1>6. CASE step = "body"
  <2>1. PICK cur : cur = Reached - n
    OBVIOUS
  <2>2. /\ EndsAt(r, f, {"body"}, cur)
        /\ \A k \in 1..n : \/ r.kind = "snapshot" /\ outbox[k].type = "snapshot"
                           \/ r.kind = "replay" /\ outbox[k].type = "commit"
    BY <1>3, <1>6, <2>1 DEF Link, n
  <2>3. /\ m.id = request /\ m.rev = Reached - n + 1 /\ cut = Reached
        /\ \/ m.type = "snapshot" /\ n = 1
           \/ m.type = "commit" /\ m.how = "body"
    BY <1>0, <1>2, <1>6 DEF QueueInv, n
  <2>4. m.type \in {"snapshot", "commit"} /\ cur \in Int /\ m.rev = cur + 1
    BY <1>2, <2>1, <2>3
  <2>5. Accepts(r, "body", cur, m)
    <3>1. \/ r.kind = "snapshot" /\ m.type = "snapshot" /\ n = 1 /\ m.rev = r.at
          \/ r.kind = "replay" /\ m.type = "commit" /\ m.how = "body"
      BY <1>0, <1>2, <1>4, <2>2, <2>3
    <3>2. QED
      BY <2>4, <3>1 DEF Accepts
  <2>. m.id = calls /\ m.type # "error" /\ toClient' = Append(toClient, m)
    BY <1>1, <1>2, <2>3, <2>4
  <2>6. /\ InLine(r, f)' /\ EndsAt(r, f, {Phase(m)}, Cur(r, m))'
        /\ \A k \in 1..Len(toClient') : Mine(k)' => Lasting(k)'
    <3>. DEFINE P == {"body"}
    <3>1. EndsAt(r, f, P, cur) /\ \A p \in P : Accepts(r, p, cur, m)
      BY <2>2, <2>5
    <3>. HIDE DEF P
    <3>2. QED
      BY <1>2, <1>4, <2>4, <3>1, LinkGoesOn
  <2>7. Phase(m) = "body" /\ Cur(r, m) = Reached - Len(o)
    BY <1>2, <2>1, <2>3, <2>4 DEF Phase, Cur
  <2>8. \A k \in 1..Len(o) : \/ r.kind = "snapshot" /\ o[k].type = "snapshot"
                             \/ r.kind = "replay" /\ o[k].type = "commit"
    BY <1>2, <2>2
  <2>9. PICK c : c = Cur(r, m)
    OBVIOUS
  <2>10. EndsAt(r, f, {"body"}, c)' /\ c = (Reached - Len(outbox))'
    BY <1>1, <2>6, <2>7, <2>9 DEF o
  <2>11. EndsAt(r, f, {"body"}, Reached - Len(outbox))'
    BY <2>10 DEF EndsAt
  <2>12. QED
    BY <1>1, <1>4, <1>6, <2>6, <2>8, <2>11 DEF Link, o
<1>7. CASE step = "tail"
  <2>1. PICK cur : cur = Reached - n + 1
    OBVIOUS
  <2>2. EndsAt(r, f, {"body", "tail"}, cur)
    BY <1>1, <1>3, <1>7, <2>1 DEF Link, n
  <2>3. /\ m.id = request /\ cur >= cut /\ cur \in Int
        /\ IF 1 = n THEN m.type = "caught-up" /\ m.rev = Reached
           ELSE m.type = "commit" /\ m.how = "tail" /\ m.rev = Reached - n + 1 + 1
    <3>1. /\ Reached - n + 1 >= cut
          /\ \A k \in 1..n :
              /\ outbox[k].id = request
              /\ IF k = n THEN outbox[k].type = "caught-up" /\ outbox[k].rev = Reached
                 ELSE /\ outbox[k].type = "commit" /\ outbox[k].how = "tail"
                      /\ outbox[k].rev = Reached - n + 1 + k
      BY <1>1, <1>7 DEF QueueInv, n
    <3>2. 1 \in 1..n /\ m = outbox[1]
      BY <1>0, <1>1, <1>2
    <3>3. /\ m.id = request
          /\ IF 1 = n THEN m.type = "caught-up" /\ m.rev = Reached
             ELSE m.type = "commit" /\ m.how = "tail" /\ m.rev = Reached - n + 1 + 1
      BY <3>1, <3>2
    <3>4. cur >= cut /\ cur \in Int
      BY <1>1, <1>2, <2>1, <3>1
    <3>5. QED
      BY <3>3, <3>4
  <2>4. m.type \in {"caught-up", "commit"}
    BY <2>3
  <2>5. \A p \in {"body", "tail"} : Accepts(r, p, cur, m)
    <3>1. CASE 1 = n
      BY <1>1, <1>2, <1>4, <2>1, <2>3, <3>1 DEF Accepts
    <3>2. CASE 1 # n
      <4>1. m.type = "commit" /\ m.how = "tail" /\ m.rev = cur + 1 /\ m.rev > r.at
        BY <1>1, <1>2, <1>4, <2>1, <2>3, <3>2
      <4>2. QED
        BY <4>1 DEF Accepts
    <3>3. QED
      BY <3>1, <3>2
  <2>. m.id = calls /\ m.type # "error" /\ toClient' = Append(toClient, m)
    BY <1>1, <1>2, <2>3, <2>4
  <2>6. /\ InLine(r, f)' /\ EndsAt(r, f, {Phase(m)}, Cur(r, m))'
        /\ \A k \in 1..Len(toClient') : Mine(k)' => Lasting(k)'
    <3>. DEFINE P == {"body", "tail"}
    <3>1. EndsAt(r, f, P, cur) /\ \A p \in P : Accepts(r, p, cur, m)
      BY <2>2, <2>5
    <3>. HIDE DEF P
    <3>2. QED
      BY <1>2, <1>4, <2>3, <3>1, LinkGoesOn
  <2>7. /\ n = 1 => Phase(m) = "end" /\ Cur(r, m) = Reached
        /\ n # 1 => Phase(m) = "tail" /\ Cur(r, m) = Reached - Len(o) + 1
    BY <1>2, <2>3 DEF Phase, Cur
  <2>8. PICK c, p : c = Cur(r, m) /\ p = Phase(m)
    OBVIOUS
  <2>9. EndsAt(r, f, {p}, c)'
    BY <2>6, <2>8
  <2>10. CASE n = 1
    <3>1. EndsAt(r, f, {"end"}, Reached)'
      BY <1>1, <2>7, <2>8, <2>9, <2>10 DEF EndsAt
    <3>2. QED
      BY <1>1, <1>4, <1>5, <1>7, <2>6, <2>10, <3>1 DEF Link, o
  <2>11. CASE n # 1
    <3>1. EndsAt(r, f, {"body", "tail"}, Reached - Len(outbox) + 1)'
      BY <1>1, <2>7, <2>8, <2>9, <2>11 DEF EndsAt, o
    <3>2. QED
      BY <1>1, <1>4, <1>5, <1>7, <2>6, <2>11, <3>1 DEF Link, o
  <2>12. QED
    BY <2>10, <2>11
<1>. QED
  BY <1>1, <1>6, <1>7

LEMMA LinkCompleted ==
  ASSUME RecoveryInv, QueueInv, NEW r \in Run, NEW f \in Nat, InLine(r, f), Link(r, f),
         toClient \in Seq(AnyMessage),
         Complete, UNCHANGED clientVars, request = calls
  PROVE  InLine(r, f)' /\ Link(r, f)'
<1>. DEFINE n == Len(queued)
            o == outbox'
<1>0. PICK m, cur : m = Rest[1] /\ cur = Reached
  OBVIOUS
<1>1. /\ step = "body" /\ outbox = << >> /\ conn = "recovering" /\ step' = "tail" /\ queued' = << >>
      /\ toClient' = Append(toClient, Head(Rest)) /\ o = Tail(Rest)
      /\ UNCHANGED <<head, conn, request, cut, calls>>
      /\ head \in Nat /\ cut \in Nat /\ cut = Reached
  BY DEF Complete, Rest, Send, streamVars, clientVars, RecoveryInv, ChannelInv, StreamInv, QueueInv
<1>2. /\ Len(Rest) = n + 1 /\ n \in Nat /\ Reached \in Nat
      /\ \A k \in 1..n : Rest[k] = Message("commit", request, Reached + k, "tail")
      /\ Rest[n + 1] = Message("caught-up", request, head, "end")
      /\ Rest \in Seq(AnyMessage)
  BY <1>1, RestRun
<1>3. Reached' = head /\ head = Reached + n
  BY <1>1, <1>2 DEF Reached
<1>4. m = Head(Rest) /\ m \in AnyMessage /\ Len(o) = n /\ o \in Seq(AnyMessage)
  <2>1. Rest # << >>
    BY <1>2
  <2>2. QED
    BY <1>0, <1>1, <1>2, <2>1
<1>5. Serving /\ Len(outbox) = 0
  BY <1>1 DEF Serving
<1>6. /\ \A k \in 1..Len(toClient) : Mine(k) => Lasting(k)
      /\ r.at = cut /\ EndsAt(r, f, {"body"}, cur)
  <2>1. EndsAt(r, f, {"body"}, Reached - Len(outbox)) /\ Reached - Len(outbox) = cur
    BY <1>0, <1>1, <1>2, <1>5 DEF Link
  <2>2. QED
    BY <1>1, <1>5, <2>1 DEF Link
<1>. HIDE DEF n, o
<1>7. /\ m.id = request
      /\ IF n = 0 THEN m.type = "caught-up" /\ m.rev = cur
         ELSE m.type = "commit" /\ m.how = "tail" /\ m.rev = cur + 1
  <2>1. CASE n = 0
    BY <1>0, <1>2, <1>3, <2>1 DEF Message
  <2>2. CASE n # 0
    <3>1. 1 \in 1..n
      BY <1>2, <2>2
    <3>2. m = Message("commit", request, Reached + 1, "tail")
      BY <1>0, <1>2, <3>1
    <3>3. QED
      BY <1>0, <2>2, <3>2 DEF Message
  <2>3. QED
    BY <2>1, <2>2
<1>8. m.id = calls /\ m.type # "error" /\ toClient' = Append(toClient, m) /\ cur \in Int
  BY <1>0, <1>1, <1>2, <1>4, <1>7
<1>9. Accepts(r, "body", cur, m)
  BY <1>0, <1>1, <1>2, <1>6, <1>7 DEF Accepts
<1>10. /\ InLine(r, f)' /\ EndsAt(r, f, {Phase(m)}, Cur(r, m))'
       /\ \A k \in 1..Len(toClient') : Mine(k)' => Lasting(k)'
  <2>. DEFINE P == {"body"}
  <2>1. EndsAt(r, f, P, cur) /\ \A p \in P : Accepts(r, p, cur, m)
    BY <1>6, <1>9
  <2>. HIDE DEF P
  <2>2. QED
    BY <1>4, <1>6, <1>8, <2>1, LinkGoesOn
<1>11. PICK c, p : c = Cur(r, m) /\ p = Phase(m)
  OBVIOUS
<1>12. EndsAt(r, f, {p}, c)'
  BY <1>10, <1>11
<1>13. CASE n = 0
  <2>1. p = "end" /\ c = Reached'
    BY <1>0, <1>3, <1>2, <1>7, <1>11, <1>13 DEF Phase, Cur
  <2>2. EndsAt(r, f, {"end"}, Reached)'
    BY <1>12, <2>1 DEF EndsAt
  <2>3. outbox' = << >>
    BY <1>4, <1>13, EmptySeq DEF o
  <2>4. QED
    BY <1>1, <1>6, <1>10, <2>2, <2>3 DEF Link
<1>14. CASE n # 0
  <2>1. p = "tail" /\ c = Reached' - Len(outbox') + 1
    BY <1>0, <1>2, <1>3, <1>4, <1>7, <1>11, <1>14 DEF Phase, Cur, o
  <2>2. EndsAt(r, f, {"body", "tail"}, Reached - Len(outbox) + 1)'
    BY <1>12, <2>1 DEF EndsAt
  <2>3. outbox' # << >>
    BY <1>4, <1>14 DEF o
  <2>4. QED
    BY <1>1, <1>6, <1>10, <2>2, <2>3 DEF Link
<1>. QED
  BY <1>13, <1>14

\* A live commit.
LEMMA LinkLive ==
  ASSUME RecoveryInv, NEW r \in Run, NEW f \in Nat, InLine(r, f), Link(r, f), Serving,
         toClient \in Seq(AnyMessage), UNCHANGED clientVars, request = calls,
         step \in {"drain", "idle"} \/ (step = "tail" /\ outbox = << >>),
         step' \in {"drain", "idle"}, Reached \in Int, Reached' = Reached + 1,
         inc \in Nat, Reached + 1 \in Nat,
         toClient' = Append(toClient, Message("commit", request, Reached + 1, "live"))
  PROVE  InLine(r, f)' /\ Link(r, f)'
<1>1. PICK m, cur : m = Message("commit", request, Reached + 1, "live") /\ cur = Reached
  OBVIOUS
<1>2. /\ \A k \in 1..Len(toClient) : Mine(k) => Lasting(k)
      /\ EndsAt(r, f, {"end"}, cur)
  BY <1>1 DEF Link
<1>3. /\ m \in AnyMessage /\ m.id = calls /\ m.type = "commit" /\ m.how = "live" /\ m.rev = cur + 1
      /\ toClient' = Append(toClient, m) /\ cur \in Int
  BY <1>1 DEF Message, AnyMessage, MessageType, How, RecoveryInv, ChannelInv
<1>4. Accepts(r, "end", cur, m)
  BY <1>3 DEF Accepts
<1>5. /\ InLine(r, f)' /\ EndsAt(r, f, {Phase(m)}, Cur(r, m))'
      /\ \A k \in 1..Len(toClient') : Mine(k)' => Lasting(k)'
  <2>. DEFINE P == {"end"}
  <2>1. EndsAt(r, f, P, cur) /\ \A p \in P : Accepts(r, p, cur, m)
    BY <1>2, <1>4
  <2>. HIDE DEF P
  <2>2. QED
    BY <1>2, <1>3, <2>1, LinkGoesOn
<1>6. PICK c, p : c = Cur(r, m) /\ p = Phase(m)
  OBVIOUS
<1>7. EndsAt(r, f, {p}, c)' /\ p = "end" /\ c = Reached'
  BY <1>1, <1>3, <1>5, <1>6 DEF Phase, Cur
<1>8. EndsAt(r, f, {"end"}, Reached)'
  BY <1>7 DEF EndsAt
<1>. QED
  BY <1>5, <1>8 DEF Link

LEMMA PendingKept ==
  ASSUME RecoveryInv, AskedInv, RequestInv, Pending, UNCHANGED clientVars, UNCHANGED <<request, toServer>>,
         conn = "closed" => conn' = "closed" /\ toClient' = toClient,
         toClient' = toClient \/ \E m \in AnyMessage : m.id = request /\ toClient' = Append(toClient, m)
  PROVE  Pending'
<1>1. CASE toClient' = toClient
  BY <1>1 DEF Pending, Mine, Lasting, clientVars
<1>2. CASE toClient' # toClient
  <2>1. PICK m \in AnyMessage : m.id = request /\ toClient' = Append(toClient, m)
    BY <1>2
  <2>. DEFINE n == Len(toClient)
              s == toClient'
  <2>2. toClient \in Seq(AnyMessage)
    <3>1. Answers(calls, asked.rev, Recovering) \subseteq AnyMessage
      BY DEF Answers
    <3>2. QED
      BY <3>1, SeqMonotonic DEF AskedInv
  <2>3. n \in Nat /\ Len(s) = n + 1 /\ s[n + 1] = m /\ \A k \in 1..n : s[k] = toClient[k]
    BY <2>1, <2>2, AppendProperties
  <2>4. UNCHANGED <<life, cinc, applied, calls>> /\ conn # "closed" /\ request \in Nat /\ calls \in Nat
    BY <1>2 DEF clientVars, RecoveryInv, ChannelInv, MirrorInv
  <2>. HIDE DEF n, s
  <2>5. ASSUME NEW k \in 1..Len(toServer), toServer[k].id = calls
        PROVE  /\ life = "awaiting-plan" /\ toServer[k].inc = cinc /\ toServer[k].rev = applied
               /\ \A j \in 1..Len(s) : s[j].id # calls
    <3>1. request # calls
      BY <2>4, <2>5 DEF RequestInv
    <3>2. /\ life = "awaiting-plan" /\ toServer[k].inc = cinc /\ toServer[k].rev = applied
          /\ \A j \in 1..n : toClient[j].id # calls
      BY <2>5 DEF Pending, Mine, n
    <3>3. \A j \in 1..Len(s) : j = n + 1 \/ j \in 1..n
      BY <2>3
    <3>4. QED
      BY <2>1, <2>3, <3>1, <3>2, <3>3
  <2>6. ASSUME life # "awaiting-plan" \/ \E k \in 1..Len(s) : s[k].id = calls /\ s[k].type # "error"
        PROVE  request = calls
    <3>1. CASE life # "awaiting-plan" \/ \E k \in 1..n : toClient[k].id = calls /\ toClient[k].type # "error"
      BY <2>4, <3>1 DEF Pending, Lasting, Mine, n
    <3>2. CASE s[n + 1].id = calls
      BY <2>1, <2>3, <3>2
    <3>3. \A k \in 1..Len(s) : k = n + 1 \/ k \in 1..n
      BY <2>3
    <3>4. QED
      BY <2>3, <2>6, <3>1, <3>2, <3>3
  <2>7. QED
    BY <2>4, <2>5, <2>6 DEF Pending, Mine, Lasting, s
<1>. QED
  BY <1>1, <1>2

\* The server's steps other than taking a request.
LEMMA OrderSent ==
  ASSUME RecoveryInv, AskedInv, QueueInv, RequestInv, Pending, UNCHANGED clientVars,
         Install \/ Ingest \/ SendNext \/ Complete \/ Drain \/ Abort,
         NEW r \in Run, NEW f \in Nat, InLine(r, f), Link(r, f)
  PROVE  Pending' /\ \E g \in Nat : InLine(r, g)' /\ Link(r, g)'
<1>1. toClient \in Seq(AnyMessage) /\ outbox \in Seq(AnyMessage)
  <2>1. Answers(calls, asked.rev, Recovering) \subseteq AnyMessage /\ Unplanned(calls) \subseteq AnyMessage
    BY DEF Answers, Unplanned
  <2>2. QED
    BY <2>1, SeqMonotonic DEF AskedInv
<1>2. /\ inc \in Nat /\ head \in Nat /\ cut \in Nat /\ request \in Nat /\ calls \in Nat
      /\ queued \in Seq(0..head) /\ Len(queued) \in Nat
      /\ UNCHANGED <<life, plan, got, tailing, applied, calls>>
  <2>1. queued \in Seq(0..head)
    BY DEF RecoveryInv, ChannelInv
  <2>2. Len(queued) \in Nat
    BY <2>1
  <2>3. QED
    BY <2>1, <2>2 DEF RecoveryInv, StreamInv, ChannelInv, MirrorInv, clientVars
<1>3. Serving' => request' = calls /\ conn' \in {"recovering", "caught-up"} /\ step' # "aborted"
  BY <1>2 DEF Serving
\* A message that does not go on.
<1>4. ASSUME NEW m \in AnyMessage, m.id = request, toClient' = Append(toClient, m), conn # "closed",
             UNCHANGED <<request, toServer>>, request # calls \/ (m.type = "error" /\ ~Serving')
      PROVE  Pending' /\ \E g \in Nat : InLine(r, g)' /\ Link(r, g)'
  <2>1. request # calls => \A j \in 1..Len(toClient) : ~Lasting(j)
    BY <1>4 DEF Pending
  <2>2. PICK g \in Nat : InLine(r, g)'
    BY <1>1, <1>2, <1>4, <2>1, LineGrowsAside
  <2>3. Link(r, g)'
    BY <1>3, <1>4 DEF Link
  <2>4. Pending'
    BY <1>4, PendingKept
  <2>5. QED
    BY <2>2, <2>3, <2>4
\* No message.
<1>5. ASSUME toClient' = toClient, UNCHANGED <<request, toServer>>, conn = "closed" => conn' = "closed",
             Link(r, f)'
      PROVE  Pending' /\ \E g \in Nat : InLine(r, g)' /\ Link(r, g)'
  <2>1. InLine(r, f)'
    BY <1>2, <1>5 DEF InLine, Mine, Lasting, ClientAccepts, ClientPhase, ClientCur
  <2>2. Pending'
    BY <1>5, PendingKept
  <2>3. QED
    BY <1>5, <2>1, <2>2
\* A message that goes on.
<1>6. ASSUME NEW m \in AnyMessage, m.id = request, toClient' = Append(toClient, m), conn # "closed",
             UNCHANGED <<request, toServer>>, InLine(r, f)' /\ Link(r, f)'
      PROVE  Pending' /\ \E g \in Nat : InLine(r, g)' /\ Link(r, g)'
  BY <1>6, PendingKept
<1>7. ASSUME UNCHANGED <<toClient, outbox, request, step, cut, conn>>, Reached' = Reached
      PROVE  Link(r, f)'
  BY <1>2, <1>7 DEF Link, Serving, EndsAt, Lasting, Mine, ClientPhase, ClientCur
<1>8. CASE Install
  <2>1. UNCHANGED <<toClient, outbox, request, step, cut, conn, toServer>> /\ Reached' = Reached
    BY <1>8 DEF Install, channelVars, Reached
  <2>2. QED
    BY <1>5, <1>7, <2>1
<1>9. CASE Ingest
  <2>1. /\ head' = head + 1 /\ UNCHANGED <<conn, request, cut, outbox, toServer>>
    BY <1>2, <1>9 DEF Ingest
  <2>2. CASE step' = step /\ toClient' = toClient /\ queued' = Append(queued, head')
    <3>1. Len(queued') = Len(queued) + 1
      BY <1>2, <2>1, <2>2, AppendProperties
    <3>2. Reached' = Reached
      BY <1>2, <2>1, <3>1 DEF Reached
    <3>3. QED
      BY <1>5, <1>7, <2>1, <2>2, <3>2
  <2>3. CASE toClient' = toClient /\ ~Serving'
    <3>1. Link(r, f)'
      BY <2>3 DEF Link
    <3>2. QED
      BY <1>5, <2>1, <2>3, <3>1
  <2>4. CASE LiveReady /\ SendLive(head')
    <3>1. PICK m : m = Message("commit", request, head + 1, "live")
      OBVIOUS
    <3>2. /\ m \in AnyMessage /\ m.id = request /\ toClient' = Append(toClient, m) /\ conn = "caught-up"
          /\ step = "idle" /\ step' = "idle" /\ queued' = queued
      BY <1>2, <2>1, <2>4, <3>1 DEF LiveReady, SendLive, Send, Message, AnyMessage, MessageType, How
    <3>3. CASE request # calls
      BY <1>4, <2>1, <3>2, <3>3
    <3>4. CASE request = calls
      <4>1. Serving
        BY <3>2, <3>4 DEF Serving
      <4>2. queued = << >> /\ Reached = head /\ Reached' = Reached + 1
        BY <1>2, <2>1, <3>2 DEF QueueInv, Reached
      <4>3. InLine(r, f)' /\ Link(r, f)'
        BY <1>1, <1>2, <3>1, <3>2, <3>4, <4>1, <4>2, LinkLive
      <4>4. QED
        BY <1>6, <2>1, <3>2, <4>3
    <3>5. QED
      BY <3>3, <3>4
  <2>5. CASE Unobserved /\ UNCHANGED <<step, queued, toClient>>
    <3>1. ~Serving'
      BY <1>3, <2>1, <2>5 DEF Unobserved, QueueInv
    <3>2. QED
      BY <2>3, <2>5, <3>1
  <2>6. CASE step = "body" /\ step' = "aborted" /\ toClient' = toClient
    BY <1>3, <2>3, <2>6
  <2>7. step = "body" => head' > cut
    BY <2>1, <1>2 DEF RecoveryInv, ChannelInv
  <2>8. QED
    <3>1. Observe(head')
      BY <1>9 DEF Ingest
    <3>2. CASE step = "body" /\ EnqueueTail(head') /\ UNCHANGED toClient
      <4>1. ~(head' <= cut)
        BY <1>2, <2>1, <2>7, <3>2
      <4>2. QED
        BY <2>2, <2>6, <3>2, <4>1 DEF EnqueueTail
    <3>3. CASE HoldLive(head')
      BY <2>2, <3>3 DEF HoldLive
    <3>4. QED
      BY <2>4, <2>5, <3>1, <3>2, <3>3 DEF Observe
<1>10. CASE SendNext
  <2>1. PICK m : m = outbox[1]
    OBVIOUS
  <2>2. /\ m \in AnyMessage /\ toClient' = Append(toClient, m) /\ conn = "recovering"
        /\ UNCHANGED <<request, toServer>> /\ 1 \in 1..Len(outbox) /\ step \in {"body", "tail"} /\ outbox # << >>
    BY <1>1, <1>10, <2>1 DEF SendNext, Send
  <2>3. m.id = request
    BY <2>1, <2>2 DEF QueueInv
  <2>4. CASE request = calls
    BY <1>1, <1>6, <1>10, <2>2, <2>3, <2>4, LinkSent
  <2>5. QED
    BY <1>4, <2>2, <2>3, <2>4
<1>11. CASE Complete
  <2>1. PICK m : m = Head(Rest)
    OBVIOUS
  <2>2. /\ toClient' = Append(toClient, m) /\ conn = "recovering" /\ step = "body" /\ outbox = << >>
        /\ UNCHANGED <<request, toServer>>
    BY <1>11, <2>1 DEF Complete, Rest, Send
  <2>3. m \in AnyMessage /\ m.id = request
    <3>1. /\ Len(Rest) = Len(queued) + 1 /\ Len(queued) \in Nat /\ Reached \in Nat
          /\ \A k \in 1..Len(queued) : Rest[k] = Message("commit", request, Reached + k, "tail")
          /\ Rest[Len(queued) + 1] = Message("caught-up", request, head, "end")
          /\ Rest \in Seq(AnyMessage)
      BY <2>2, RestRun
    <3>2. m = Rest[1] /\ m \in AnyMessage
      BY <2>1, <3>1
    <3>3. CASE Len(queued) = 0
      BY <3>1, <3>2, <3>3 DEF Message
    <3>4. CASE Len(queued) # 0
      <4>1. 1 \in 1..Len(queued)
        BY <3>1, <3>4
      <4>2. QED
        <5>1. m = Message("commit", request, Reached + 1, "tail")
          BY <3>1, <3>2, <4>1
        <5>2. QED
          BY <3>2, <5>1 DEF Message
    <3>5. QED
      BY <3>1, <3>2, <3>3, <3>4
  <2>4. CASE request = calls
    BY <1>1, <1>6, <1>11, <2>2, <2>3, <2>4, LinkCompleted
  <2>5. QED
    BY <1>4, <2>2, <2>3, <2>4
<1>12. CASE Drain
  <2>1. /\ conn \in {"recovering", "caught-up"} /\ conn' = "caught-up" /\ step \in {"tail", "drain"}
        /\ outbox = << >> /\ UNCHANGED <<head, request, toServer>>
    BY <1>12 DEF Drain, streamVars
  <2>2. CASE queued = << >>
    <3>1. toClient' = toClient /\ step' = "idle" /\ queued' = << >> /\ outbox' = << >> /\ Reached' = Reached
      BY <1>12, <2>1, <2>2 DEF Drain, ChannelIdle, Reached
    <3>2. Link(r, f)'
      <4>1. SUFFICES ASSUME Serving' PROVE Link(r, f)'
        BY DEF Link
      <4>2. Serving
        BY <1>2, <2>1, <4>1 DEF Serving
      <4>3. (\A k \in 1..Len(toClient) : Mine(k) => Lasting(k)) /\ EndsAt(r, f, {"end"}, Reached)
        BY <2>1, <4>2 DEF Link
      <4>4. (\A k \in 1..Len(toClient) : Mine(k) => Lasting(k))' /\ EndsAt(r, f, {"end"}, Reached)'
        BY <1>2, <3>1, <4>3 DEF EndsAt, Lasting, Mine, ClientPhase, ClientCur
      <4>5. QED
        BY <3>1, <4>4 DEF Link
    <3>3. QED
      BY <1>5, <2>1, <3>1, <3>2
  <2>3. CASE queued # << >>
    <3>1. PICK m : m = Message("commit", request, Head(queued), "live")
      OBVIOUS
    <3>2. /\ toClient' = Append(toClient, m) /\ queued' = Tail(queued) /\ step' = "drain"
      BY <1>12, <2>3, <3>1 DEF Drain, Send
    <3>3. /\ 1 \in 1..Len(queued) /\ Head(queued) = queued[1] /\ Head(queued) \in 0..head
          /\ Len(queued') = Len(queued) - 1
      BY <1>2, <2>3, <3>2
    <3>4. Head(queued) = Reached + 1 /\ Reached' = Reached + 1 /\ Reached \in Int /\ Reached + 1 \in Nat
      <4>1. queued[1] = Reached + 1
        BY <2>1, <3>3 DEF QueueInv
      <4>2. QED
        BY <1>2, <2>1, <3>3, <4>1 DEF Reached
    <3>5. m \in AnyMessage /\ m.id = request
      BY <1>2, <3>1, <3>4 DEF Message, AnyMessage, MessageType, How
    <3>6. CASE request = calls
      <4>1. Serving
        BY <2>1, <3>6 DEF Serving
      <4>2. InLine(r, f)' /\ Link(r, f)'
        BY <1>1, <1>2, <2>1, <3>1, <3>2, <3>4, <3>6, <4>1, LinkLive
      <4>3. QED
        BY <1>6, <2>1, <3>2, <3>5, <4>2
    <3>7. QED
      BY <1>4, <2>1, <3>2, <3>5, <3>6
  <2>4. QED
    BY <2>2, <2>3
<1>13. CASE Abort
  <2>1. PICK m : m = Message("error", request, 0, "aborted")
    OBVIOUS
  <2>2. /\ toClient' = Append(toClient, m) /\ conn' = "failed" /\ conn # "closed"
        /\ UNCHANGED <<request, toServer>>
    BY <1>13, <2>1 DEF Abort, Send, QueueInv
  <2>3. m \in AnyMessage /\ m.id = request /\ m.type = "error" /\ ~Serving'
    BY <1>2, <1>3, <2>1, <2>2 DEF Message, AnyMessage, MessageType, How
  <2>4. QED
    BY <1>4, <2>2, <2>3
<1>. QED
  BY <1>8, <1>9, <1>10, <1>11, <1>12, <1>13

\* The server takes a request: the plan of the last one begins a run.
LEMMA OrderPlanned ==
  ASSUME RecoveryInv, AskedInv, RequestInv, HandleRecover, UNCHANGED clientVars, Pending,
         NEW r \in Run, NEW f \in Nat, ClientFollows(r), InLine(r, f)
  PROVE  Pending' /\ \E q \in Run, g \in Nat : ClientFollows(q)' /\ InLine(q, g)' /\ Link(q, g)'
<1>. DEFINE n == Len(toClient)
            s == toClient'
<1>0. PICK c : c = Head(toServer)
  OBVIOUS
<1>1. /\ toServer # << >> /\ toServer' = Tail(toServer) /\ conn # "closed"
      /\ UNCHANGED <<inc, head>>
      /\ Refuse(c) \/ PlanFails(c) \/ Reject(c) \/ Plan(c)
  BY <1>0 DEF HandleRecover, streamVars
<1>2. /\ c = toServer[1] /\ 1 \in 1..Len(toServer) /\ c \in Cursor
      /\ c.id > request /\ c.id <= calls /\ Outcome(c) # "reject"
      /\ Len(toServer) \in Nat /\ Len(toServer') = Len(toServer) - 1
      /\ \A k \in 1..Len(toServer') : k + 1 \in 1..Len(toServer) /\ toServer'[k] = toServer[k + 1]
  BY <1>0, <1>1, NextRequest
<1>3. /\ inc \in Nat /\ head \in Nat /\ calls \in Nat /\ request \in Nat /\ c.id \in Nat /\ c.inc \in Nat
      /\ c.rev \in Nat /\ applied \in Nat
      /\ UNCHANGED <<life, plan, planRev, planInc, got, tailing, cinc, applied, calls>>
  BY <1>2 DEF RecoveryInv, StreamInv, ChannelInv, MirrorInv, Cursor, clientVars
<1>4. request # calls
  BY <1>2, <1>3
<1>5. life = "awaiting-plan" /\ \A j \in 1..n : ~Lasting(j)
  BY <1>1, <1>4 DEF Pending
<1>6. toClient \in Seq(AnyMessage) /\ n \in Nat
  <2>1. Answers(calls, asked.rev, Recovering) \subseteq AnyMessage
    BY DEF Answers
  <2>2. toClient \in Seq(AnyMessage)
    BY <2>1, SeqMonotonic DEF AskedInv
  <2>3. QED
    BY <2>2
<1>7. c.id = calls => c.inc = cinc /\ c.rev = applied /\ \A j \in 1..n : toClient[j].id # calls
  BY <1>2 DEF Pending, Mine
<1>8. PICK m \in AnyMessage :
        /\ s = Append(toClient, m) /\ m.id = c.id
        /\ \/ m.type = "error" /\ (request' = request \/ conn' = "failed")
           \/ /\ m = Message("plan", c.id, head, Outcome(c)) /\ request' = c.id
              /\ Plan(c) /\ m.type = "plan" /\ m.how = Outcome(c) /\ m.rev = head
  <2>1. Outcome(c) \in How
    BY DEF Outcome, How, Outcomes
  <2>2. CASE Refuse(c)
    <3>1. Message("error", c.id, 0, "refused") \in AnyMessage
      BY <1>3 DEF Message, AnyMessage, MessageType, How
    <3>2. QED
      BY <2>2, <3>1 DEF Refuse, Send, Message
  <2>3. CASE PlanFails(c)
    <3>1. Message("error", c.id, 0, "planning") \in AnyMessage
      BY <1>3 DEF Message, AnyMessage, MessageType, How
    <3>2. QED
      BY <2>3, <3>1 DEF PlanFails, Send, Message
  <2>4. CASE Plan(c)
    <3>1. PlanHead(c) = head
      BY <2>4 DEF Plan, SnapshotTorn, PlanHead
    <3>2. Message("plan", c.id, head, Outcome(c)) \in AnyMessage
      BY <1>3, <2>1 DEF Message, AnyMessage, MessageType
    <3>3. QED
      BY <2>4, <3>1, <3>2 DEF Plan, Send, Message
  <2>5. QED
    BY <1>1, <1>2, <2>2, <2>3, <2>4 DEF Reject
<1>9. Len(s) = n + 1 /\ s[n + 1] = m /\ \A k \in 1..n : s[k] = toClient[k]
  BY <1>6, <1>8, AppendProperties
<1>10. request' \in {request, c.id} /\ (m.type # "error" => request' = c.id)
  BY <1>1, <1>8 DEF Refuse, PlanFails, Reject, Plan
<1>. HIDE DEF n, s
<1>11. Pending'
  <2>1. ASSUME NEW k \in 1..Len(toServer'), toServer'[k].id = calls
        PROVE  /\ toServer'[k].inc = cinc /\ toServer'[k].rev = applied
               /\ \A j \in 1..Len(s) : s[j].id # calls
    <3>1. /\ k + 1 \in 1..Len(toServer) /\ toServer'[k] = toServer[k + 1] /\ 1 \in 1..(k + 1 - 1)
      BY <1>2
    <3>2. c.id < calls
      BY <1>2, <2>1, <3>1 DEF RequestInv
    <3>3. /\ toServer[k + 1].inc = cinc /\ toServer[k + 1].rev = applied
          /\ \A j \in 1..n : toClient[j].id # calls
      BY <2>1, <3>1 DEF Pending, Mine, n
    <3>4. \A j \in 1..Len(s) : j = n + 1 \/ j \in 1..n
      BY <1>6, <1>9
    <3>5. c.id # calls
      BY <1>3, <3>2
    <3>6. QED
      BY <1>8, <1>9, <3>1, <3>3, <3>4, <3>5
  <2>2. ASSUME NEW k \in 1..Len(s), s[k].id = calls, s[k].type # "error"
        PROVE  request' = calls
    <3>1. CASE k \in 1..n
      BY <1>5, <1>9, <2>2, <3>1 DEF Lasting, Mine, n
    <3>2. CASE k \notin 1..n
      <4>1. k = n + 1
        BY <1>6, <1>9, <3>2
      <4>2. QED
        BY <1>8, <1>9, <1>10, <2>2, <4>1
    <3>3. QED
      BY <3>1, <3>2
  <2>3. QED
    BY <1>3, <1>5, <2>1, <2>2 DEF Pending, Lasting, Mine, s
<1>12. CASE m.type = "error" \/ c.id # calls
  <2>1. PICK g \in Nat : InLine(r, g)'
    BY <1>3, <1>5, <1>6, <1>8, <1>12, LineGrowsAside DEF s, n
  <2>2. ~Serving'
    BY <1>2, <1>3, <1>4, <1>8, <1>10, <1>12 DEF Serving
  <2>3. ClientFollows(r)'
    BY <1>1, <1>3 DEF ClientFollows
  <2>4. Link(r, g)'
    BY <2>2 DEF Link
  <2>5. QED
    BY <1>11, <2>1, <2>3, <2>4
<1>13. CASE m.type = "plan" /\ c.id = calls
  <2>1. PICK o, b, q : /\ o = Outcome(c) /\ b = (IF o = "snapshot" THEN head - 1 ELSE c.rev)
                       /\ q = [kind |-> o, base |-> b, at |-> head]
    OBVIOUS
  <2>2. /\ Plan(c) /\ m.how = o /\ m.rev = head /\ o \in {"current", "replay", "snapshot"}
        /\ ~SnapshotTorn(c)
    BY <1>2, <1>8, <1>13, <2>1 DEF Plan, Outcome
  <2>3. /\ Len(Body(c)) \in Nat
        /\ \A k \in 1..Len(Body(c)) :
              IF o = "snapshot" THEN Body(c)[k].type = "snapshot"
              ELSE Body(c)[k].type = "commit" /\ o = "replay"
        /\ o = "snapshot" => Len(Body(c)) = 1
        /\ o = "replay" => c.inc = inc /\ Len(Body(c)) = head - c.rev /\ c.rev < head
        /\ o = "current" => c.inc = inc /\ c.rev = head /\ Len(Body(c)) = 0
    BY <1>2, <2>1, <2>2, BodyRun
  <2>4. outbox' = Body(c) /\ queued' = << >> /\ step' = "body" /\ cut' = head
    BY <2>2 DEF Plan, PlanHead, SnapshotTorn
  <2>5. q.kind = o /\ q.base = b /\ q.at = head /\ q \in Run /\ b \in Int
    <3>1. b \in Int /\ (o = "snapshot" => b = head - 1) /\ (o # "snapshot" => b = c.rev)
      BY <1>3, <2>1
    <3>2. QED
      BY <1>3, <2>1, <2>2, <2>3, <3>1 DEF Run
  <2>6. ClientFollows(q)'
    BY <1>1, <1>3, <1>5, <1>7, <1>13, <2>1, <2>2, <2>3, <2>5 DEF ClientFollows
  <2>7. PICK g : g = n
    OBVIOUS
  <2>8. InLine(q, g)
    BY <1>5, <1>6, <1>7, <1>13, <2>7 DEF InLine, Mine, Lasting, n
  <2>9. ClientAccepts(q, m)
    BY <1>5, <1>13, <2>2, <2>5 DEF ClientAccepts
  <2>10. g \in Nat /\ InLine(q, g)'
    <3>1. g = IF g = Len(toClient) /\ m.id # calls THEN g + 1 ELSE g
      BY <1>8, <1>13
    <3>2. g \in Nat /\ InLine(q, g) /\ m.id = calls
      BY <1>6, <1>8, <1>13, <2>7, <2>8
    <3>3. QED
      BY <1>3, <1>5, <1>6, <1>8, <2>9, <3>1, <3>2, LineGrows DEF s, n
  <2>11. Reached' = head /\ b = head - Len(outbox')
    <3>1. Reached' = head
      BY <1>1, <1>3, <2>4 DEF Reached
    <3>2. Len(outbox') = Len(Body(c))
      BY <2>4
    <3>3. CASE o = "snapshot"
      BY <2>1, <2>3, <3>1, <3>2, <3>3
    <3>4. CASE o \in {"replay", "current"}
      BY <1>3, <2>1, <2>3, <3>1, <3>2, <3>4
    <3>5. QED
      BY <2>2, <3>3, <3>4
  <2>12. EndsAt(q, g, {"body"}, Reached - Len(outbox))'
    <3>1. g < Len(s) /\ s[Len(s)] = m
      BY <1>6, <1>9, <2>7
    <3>2. Phase(m) = "body" /\ Cur(q, m) = b
      BY <1>13, <2>5 DEF Phase, Cur
    <3>3. QED
      BY <1>3, <1>8, <1>13, <2>11, <3>1, <3>2 DEF EndsAt, Lasting, Mine, s
  <2>13. \A k \in 1..Len(s) : s[k].id = calls => s[k].type # "error"
    <3>1. \A k \in 1..Len(s) : k = n + 1 \/ k \in 1..n
      BY <1>6, <1>9
    <3>2. QED
      BY <1>7, <1>9, <1>13, <3>1
  <2>14. \A k \in 1..Len(outbox') : \/ q.kind = "snapshot" /\ outbox'[k].type = "snapshot"
                                    \/ q.kind = "replay" /\ outbox'[k].type = "commit"
    BY <2>3, <2>4, <2>5
  <2>15. Link(q, g)'
    BY <1>3, <2>4, <2>5, <2>12, <2>13, <2>14 DEF Link, Lasting, Mine, s
  <2>16. QED
    BY <1>11, <2>5, <2>6, <2>10, <2>15
<1>. QED
  BY <1>8, <1>12, <1>13

-----------------------------------------------------------------------------
(* The client takes the message that is next.                               *)

\* How a client fails that takes what it may take.
MirrorFailures == {"observer", "conflict", "install"}

LEMMA ClientTakes ==
  ASSUME RecoveryInv, RecoveryInv', ShownInv, Receive, Listening, NEW r \in Run, ClientFollows(r),
         NEW m \in AnyMessage, m = Head(toClient), m.inc = inc, m.id = calls, m.type # "error",
         ClientAccepts(r, m)
  PROVE  \/ life' = "failed" /\ failure' \in MirrorFailures
         \/ /\ failure' = failure /\ life' \in {"consuming", "caught-up"}
            /\ ClientPhase' = Phase(m) /\ ClientCur(r)' = Cur(r, m) /\ ClientFollows(r)'
<1>1. ~Ignored(m) /\ inc' = inc /\ m.type \in MessageType
  BY DEF Receive, Listening, Ignored, streamVars, AnyMessage
<1>2. /\ applied \in Nat /\ m.rev \in Nat /\ r.at \in Nat /\ r.base \in Int /\ inc \in Nat
      /\ r.kind \in {"current", "replay", "snapshot"}
      /\ r.kind = "current" => r.base = r.at
      /\ r.kind = "snapshot" => r.base = r.at - 1
  BY DEF RecoveryInv, MirrorInv, StreamInv, AnyMessage, Run
<1>3. \A g, t : Shown(g, t) => \/ life' = "failed" /\ failure' \in MirrorFailures
                               \/ /\ got' = g /\ tailing' = t
                                  /\ UNCHANGED <<life, failure, plan, planRev, planInc>>
  BY DEF Shown, GoOn, Fail, MirrorFailures
<1>4. CASE m.type = "plan"
  <2>1. OnPlan(m)
    BY <1>1, <1>4 DEF Receive
  <2>2. life = "awaiting-plan" /\ m.how = r.kind /\ m.rev = r.at
    BY <1>4 DEF ClientAccepts, Accepts
  <2>3. r.kind # "snapshot" => cinc = inc /\ applied = r.base
    BY <2>2 DEF ClientFollows
  <2>4. /\ life' = "consuming" /\ plan' = r.kind /\ planRev' = r.at /\ planInc' = inc
        /\ got' = FALSE /\ tailing' = FALSE /\ failure' = failure /\ cinc' = cinc /\ applied' = applied
    BY <1>2, <2>1, <2>2, <2>3 DEF OnPlan, KeepMirror
  <2>5. ClientPhase' = Phase(m) /\ ClientCur(r)' = Cur(r, m)
    BY <1>4, <2>3, <2>4 DEF ClientPhase, ClientCur, Phase, Cur
  <2>6. ClientFollows(r)'
    BY <1>1, <2>3, <2>4 DEF ClientFollows
  <2>7. QED
    BY <2>4, <2>5, <2>6
<1>5. CASE m.type = "commit"
  <2>1. OnCommit(m)
    BY <1>1, <1>5 DEF Receive
  <2>2. /\ life # "awaiting-plan" /\ m.rev = ClientCur(r) + 1
        /\ \/ m.how = "body" /\ r.kind = "replay" /\ ClientPhase = "body"
           \/ m.how = "tail" /\ ClientPhase \in {"body", "tail"} /\ m.rev > r.at
           \/ m.how = "live" /\ ClientPhase = "end"
    BY <1>5 DEF ClientAccepts, Accepts
  <2>3. CASE life = "consuming"
    <3>1. /\ plan = r.kind /\ planRev = r.at /\ planInc = inc
          /\ plan # "snapshot" => ~got
          /\ got => applied >= r.at
          /\ plan # "snapshot" \/ got => cinc = inc
          /\ plan = "snapshot" /\ ~got => ~tailing
      BY <2>3 DEF ClientFollows
    <3>2. m.how # "live"
      BY <2>2, <2>3 DEF ClientPhase
    <3>3. ~(plan = "snapshot" /\ ~got)
      <4>1. SUFFICES ASSUME plan = "snapshot", ~got PROVE FALSE
        OBVIOUS
      <4>2. m.how = "tail" /\ m.rev = r.base + 1 /\ m.rev > r.at /\ r.base = r.at - 1
        BY <1>2, <2>2, <2>3, <3>1, <3>2, <4>1 DEF ClientCur
      <4>3. QED
        BY <1>2, <4>2
    <3>4. m.rev = applied + 1 /\ cinc = inc
      BY <2>2, <3>1, <3>3 DEF ClientCur
    <3>5. CommitInOrder(m)
      BY <2>2, <2>3, <3>1, <3>2, <3>3 DEF CommitInOrder, ClientPhase
    <3>6. \/ life' = "failed" /\ failure' \in MirrorFailures
          \/ applied' = m.rev /\ cinc' = cinc /\ Shown(got, tailing \/ m.how = "tail")
      BY <1>2, <2>1, <3>4, <3>5 DEF OnCommit, Apply, Fail, MirrorFailures
    <3>7. \/ life' = "failed" /\ failure' \in MirrorFailures
          \/ /\ applied' = m.rev /\ cinc' = cinc
             /\ got' = got /\ tailing' = (tailing \/ m.how = "tail")
             /\ UNCHANGED <<life, failure, plan, planRev, planInc>>
      BY <1>3, <3>6
    <3>8. CASE /\ applied' = m.rev /\ cinc' = cinc
               /\ got' = got /\ tailing' = (tailing \/ m.how = "tail")
               /\ UNCHANGED <<life, failure, plan, planRev, planInc>>
      <4>1. Phase(m) = m.how /\ Cur(r, m) = m.rev
        BY <1>5, <3>2 DEF Phase, Cur
      <4>2. ClientPhase' = Phase(m)
        BY <2>2, <2>3, <3>2, <3>8, <4>1 DEF ClientPhase
      <4>3. ClientCur(r)' = Cur(r, m)
        BY <2>3, <3>3, <3>8, <4>1 DEF ClientCur
      <4>4. ClientFollows(r)'
        <5>1. got => applied' >= r.at
          BY <1>2, <3>1, <3>4, <3>8
        <5>2. QED
          BY <1>1, <2>3, <3>1, <3>3, <3>8, <5>1 DEF ClientFollows
      <4>5. QED
        BY <2>3, <3>8, <4>2, <4>3, <4>4
    <3>9. QED
      BY <3>7, <3>8
  <2>4. CASE life = "caught-up"
    <3>1. cinc = inc /\ ClientPhase = "end" /\ m.how = "live" /\ m.rev = applied + 1
      BY <2>2, <2>4 DEF ClientFollows, ClientPhase, ClientCur
    <3>2. CommitInOrder(m)
      BY <2>4, <3>1 DEF CommitInOrder
    <3>3. \/ life' = "failed" /\ failure' \in MirrorFailures
          \/ applied' = m.rev /\ cinc' = cinc /\ \E t : Shown(got, t)
      BY <1>2, <2>1, <3>1, <3>2 DEF OnCommit, Apply, Fail, MirrorFailures
    <3>4. \/ life' = "failed" /\ failure' \in MirrorFailures
          \/ /\ applied' = m.rev /\ cinc' = cinc
             /\ life' = life /\ failure' = failure
      BY <1>3, <3>3
    <3>5. Phase(m) = "end" /\ Cur(r, m) = m.rev
      BY <1>5, <3>1 DEF Phase, Cur
    <3>6. QED
      BY <1>1, <2>4, <3>1, <3>4, <3>5 DEF ClientFollows, ClientPhase, ClientCur
  <2>5. QED
    BY <2>2, <2>3, <2>4 DEF Listening
<1>6. CASE m.type = "snapshot"
  <2>1. OnSnapshot(m)
    BY <1>1, <1>6 DEF Receive
  <2>2. /\ life # "awaiting-plan" /\ m.rev = ClientCur(r) + 1 /\ m.rev = r.at
        /\ r.kind = "snapshot" /\ ClientPhase = "body"
    BY <1>6 DEF ClientAccepts, Accepts
  <2>3. life = "consuming" /\ ~tailing
    BY <2>2 DEF Listening, ClientPhase
  <2>4. plan = "snapshot" /\ planRev = r.at /\ planInc = inc /\ (got => applied >= r.at)
    BY <2>2, <2>3 DEF ClientFollows
  <2>5. ~got
    BY <1>2, <2>2, <2>4 DEF ClientCur
  <2>6. \/ life' = "failed" /\ failure' \in MirrorFailures
        \/ applied' = m.rev /\ cinc' = inc /\ Shown(TRUE, tailing)
    BY <2>1, <2>2, <2>3, <2>4, <2>5 DEF OnSnapshot, InstallFails, Fail, MirrorFailures
  <2>7. \/ life' = "failed" /\ failure' \in MirrorFailures
        \/ /\ applied' = m.rev /\ cinc' = inc
           /\ got' = TRUE /\ tailing' = tailing
           /\ UNCHANGED <<life, failure, plan, planRev, planInc>>
    BY <1>3, <2>6
  <2>8. Phase(m) = "body" /\ Cur(r, m) = m.rev
    BY <1>6 DEF Phase, Cur
  <2>9. QED
    BY <1>1, <1>2, <2>2, <2>3, <2>4, <2>7, <2>8 DEF ClientFollows, ClientPhase, ClientCur
<1>7. CASE m.type = "caught-up"
  <2>1. OnCaughtUp(m)
    BY <1>1, <1>7 DEF Receive
  <2>2. /\ life # "awaiting-plan" /\ ClientPhase \in {"body", "tail"} /\ m.rev = ClientCur(r) /\ m.rev >= r.at
    BY <1>7 DEF ClientAccepts, Accepts
  <2>3. life = "consuming"
    BY <2>2 DEF Listening, ClientPhase
  <2>4. /\ plan = r.kind /\ planRev = r.at /\ planInc = inc
        /\ plan # "snapshot" \/ got => cinc = inc
    BY <2>3 DEF ClientFollows
  <2>5. ~(plan = "snapshot" /\ ~got)
    BY <1>2, <2>2, <2>3, <2>4 DEF ClientCur
  <2>6. m.rev = applied /\ cinc = inc
    BY <2>2, <2>4, <2>5 DEF ClientCur
  <2>7. Len(mirror) = applied
    BY <1>2, <2>3, <2>5 DEF ShownInv, AtCursor, Installing, Commits
  <2>8. AtBoundary(m)
    BY <2>2, <2>4, <2>6, <2>7 DEF AtBoundary
  <2>9. life' = "caught-up" /\ failure' = failure /\ applied' = applied /\ cinc' = cinc
    BY <2>1, <2>3, <2>5, <2>8 DEF OnCaughtUp, KeepMirror
  <2>10. Phase(m) = "end" /\ Cur(r, m) = m.rev
    BY <1>7 DEF Phase, Cur
  <2>11. QED
    BY <1>1, <2>6, <2>9, <2>10 DEF ClientFollows, ClientPhase, ClientCur
<1>. QED
  BY <1>1, <1>4, <1>5, <1>6, <1>7 DEF MessageType

LEMMA OrderReceived ==
  ASSUME RecoveryInv, AskedInv, ShownInv, Receive, Listening, Pending, failure \notin OrderFailures,
         NEW r \in Run, NEW f \in Nat, ClientFollows(r), InLine(r, f), Link(r, f)
  PROVE  /\ failure' \notin OrderFailures
         /\ Listening' => Pending' /\ \E g \in Nat : ClientFollows(r)' /\ InLine(r, g)' /\ Link(r, g)'
<1>. DEFINE n == Len(toClient)
            s == toClient'
<1>0. PICK m : m = Head(toClient)
  OBVIOUS
<1>1. /\ toClient # << >> /\ s = Tail(toClient)
      /\ UNCHANGED <<calls, asked, toServer, inc, head, conn, request, step, cut, outbox, queued>>
  BY DEF Receive, streamVars, channelVars
<1>2. toClient \in Seq(AnyMessage) /\ m \in AnyMessage /\ m = toClient[1] /\ m.inc = inc
  <2>1. Answers(calls, asked.rev, Recovering) \subseteq AnyMessage
    BY DEF Answers
  <2>2. toClient \in Seq(AnyMessage)
    BY <2>1, SeqMonotonic DEF AskedInv
  <2>3. m \in MessageUpTo(inc, head)
    BY <1>0, <1>1, HeadTailProperties DEF RecoveryInv, ChannelInv
  <2>4. QED
    BY <1>0, <1>1, <2>2, <2>3, HeadTailProperties DEF MessageUpTo
<1>3. /\ n \in Nat /\ n > 0 /\ Len(s) = n - 1 /\ \A k \in 1..Len(s) : k + 1 \in 1..n /\ s[k] = toClient[k + 1]
  BY <1>1, <1>2
<1>4. RecoveryInv'
  BY ReceiveStep
<1>5. applied' \in Nat
  BY <1>4 DEF RecoveryInv, MirrorInv
<1>6. PICK g : g = IF f = 0 THEN 0 ELSE f - 1
  OBVIOUS
<1>. HIDE DEF n, s
\* The message is not of the last request, or it is the first of the answer.
<1>7. ASSUME \/ m.id # calls /\ UNCHANGED <<life, plan, planRev, planInc, got, tailing, cinc, applied>>
             \/ /\ m.id = calls /\ m.type # "error" /\ life' # "awaiting-plan"
                /\ ClientPhase' = Phase(m) /\ ClientCur(r)' = Cur(r, m),
             ClientFollows(r)'
      PROVE  Pending' /\ \E x \in Nat : ClientFollows(r)' /\ InLine(r, x)' /\ Link(r, x)'
  <2>1. /\ g \in Nat /\ InLine(r, g)'
        /\ \A phases, cur : EndsAt(r, f, phases, cur) => EndsAt(r, g, phases, cur)'
    BY <1>1, <1>2, <1>5, <1>6, <1>7, LineShifts DEF s
  <2>2. Link(r, g)'
    <3>1. SUFFICES ASSUME Serving' PROVE Link(r, g)'
      BY DEF Link
    <3>2. Serving /\ Reached' = Reached
      BY <1>1, <3>1 DEF Serving, Reached
    <3>3. PICK e, e0, e1 : e = Reached - Len(outbox) /\ e0 = Reached - Len(outbox) + 1 /\ e1 = Reached
      OBVIOUS
    <3>4. /\ step = "body" => EndsAt(r, g, {"body"}, e)'
          /\ step = "tail" /\ outbox # << >> => EndsAt(r, g, {"body", "tail"}, e0)'
          /\ step \in {"drain", "idle"} \/ (step = "tail" /\ outbox = << >>) => EndsAt(r, g, {"end"}, e1)'
      BY <2>1, <3>2, <3>3 DEF Link
    <3>5. /\ step = "body" => EndsAt(r, g, {"body"}, Reached - Len(outbox))'
          /\ step = "tail" /\ outbox # << >> => EndsAt(r, g, {"body", "tail"}, Reached - Len(outbox) + 1)'
          /\ step \in {"drain", "idle"} \/ (step = "tail" /\ outbox = << >>) => EndsAt(r, g, {"end"}, Reached)'
      BY <1>1, <3>2, <3>3, <3>4 DEF EndsAt
    <3>6. \A k \in 1..Len(s) : s[k].id = calls => s[k].type # "error"
      BY <1>3, <3>2 DEF Link, Lasting, Mine, n
    <3>7. QED
      BY <1>1, <3>2, <3>5, <3>6 DEF Link, Lasting, Mine, s
  <2>3. Pending'
    <3>1. ASSUME NEW k \in 1..Len(toServer), toServer[k].id = calls
          PROVE  /\ life' = "awaiting-plan" /\ toServer[k].inc = cinc' /\ toServer[k].rev = applied'
                 /\ \A j \in 1..Len(s) : s[j].id # calls
      <4>1. /\ life = "awaiting-plan" /\ toServer[k].inc = cinc /\ toServer[k].rev = applied
            /\ \A j \in 1..n : toClient[j].id # calls
        BY <3>1 DEF Pending, Mine, n
      <4>2. m.id # calls
        BY <1>2, <1>3, <4>1
      <4>3. QED
        BY <1>3, <1>7, <4>1, <4>2
    <3>2. ASSUME life' # "awaiting-plan" \/ \E k \in 1..Len(s) : s[k].id = calls /\ s[k].type # "error"
          PROVE  request = calls \/ conn = "closed"
      <4>1. CASE \E k \in 1..n : toClient[k].id = calls /\ toClient[k].type # "error"
        BY <4>1 DEF Pending, Lasting, Mine, n
      <4>2. CASE life' # "awaiting-plan" /\ m.id # calls
        BY <1>7, <4>2 DEF Pending
      <4>3. CASE m.id = calls
        <5>1. 1 \in 1..n
          BY <1>3
        <5>2. QED
          BY <1>2, <1>7, <4>1, <4>3, <5>1
      <4>4. CASE \E k \in 1..Len(s) : s[k].id = calls /\ s[k].type # "error"
        BY <1>3, <4>1, <4>4
      <4>5. QED
        BY <3>2, <4>2, <4>3, <4>4
    <3>3. QED
      BY <1>1, <3>1, <3>2 DEF Pending, Lasting, Mine, s
  <2>4. QED
    BY <1>7, <2>1, <2>2, <2>3
<1>8. CASE m.id # calls
  <2>1. UNCHANGED <<life, failure, plan, planRev, planInc, got, tailing, cinc, applied>>
    BY <1>0, <1>8 DEF Receive, Ignored, KeepMirror, GoOn
  <2>2. ClientFollows(r)'
    BY <1>1, <2>1 DEF ClientFollows
  <2>3. QED
    BY <1>7, <1>8, <2>1, <2>2
<1>9. CASE m.id = calls /\ m.type = "error"
  <2>1. Fail("server")
    BY <1>0, <1>9 DEF Receive, Ignored, Listening
  <2>2. QED
    BY <2>1 DEF Fail, OrderFailures, Listening
<1>10. CASE m.id = calls /\ m.type # "error"
  <2>1. f = 0
    <3>1. \A k \in 1..f : toClient[k].id # calls
      BY DEF InLine, Mine
    <3>2. QED
      BY <1>2, <1>10, <3>1
  <2>2. ClientAccepts(r, m)
    <3>1. 0 < Len(toClient) => ClientAccepts(r, toClient[0 + 1])
      BY <2>1 DEF InLine
    <3>2. QED
      BY <1>2, <1>3, <3>1 DEF n
  <2>3. \/ life' = "failed" /\ failure' \in MirrorFailures
        \/ /\ failure' = failure /\ life' \in {"consuming", "caught-up"}
           /\ ClientPhase' = Phase(m) /\ ClientCur(r)' = Cur(r, m) /\ ClientFollows(r)'
    BY <1>0, <1>2, <1>4, <1>10, <2>2, ClientTakes
  <2>4. CASE life' = "failed" /\ failure' \in MirrorFailures
    BY <2>4 DEF MirrorFailures, OrderFailures, Listening
  <2>5. CASE /\ failure' = failure /\ life' \in {"consuming", "caught-up"}
             /\ ClientPhase' = Phase(m) /\ ClientCur(r)' = Cur(r, m) /\ ClientFollows(r)'
    BY <1>7, <1>10, <2>5
  <2>6. QED
    BY <2>3, <2>4, <2>5
<1>. QED
  BY <1>8, <1>9, <1>10
-----------------------------------------------------------------------------
(* The invariants of order together.                                        *)

\* A new request: what is on its way answers older ones.
LEMMA OrderAsked ==
  ASSUME RecoveryInv, AskedInv, OrderInv, Recover
  PROVE  OrderInv'
<1>. DEFINE r == [kind |-> "snapshot", base |-> -1, at |-> 0]
            f == Len(toClient)
<1>1. /\ life' = "awaiting-plan" /\ calls' = calls + 1 /\ failure' = failure /\ misdelivered' = misdelivered
      /\ toServer' = Append(toServer, CursorMessage) /\ life \in {"idle", "caught-up"}
      /\ UNCHANGED <<toClient, request, conn, cinc, applied>>
  BY DEF Recover, NoPlan, channelVars, environment
<1>2. calls \in Nat /\ request <= calls /\ request \in Nat /\ cinc \in Nat /\ applied \in Nat
      /\ toServer \in Seq(Cursor) /\ Len(toServer) \in Nat /\ f \in Nat
      /\ \A k \in 1..Len(toServer) : toServer[k].id <= calls /\ toServer[k].id \in Nat
  <2>1. calls \in Nat /\ request \in Nat /\ cinc \in Nat /\ applied \in Nat /\ toServer \in Seq(Cursor)
    BY DEF RecoveryInv, MirrorInv, ChannelInv
  <2>2. request <= calls /\ toServer \in Seq({c \in Cursor : c.id <= calls})
    BY DEF AskedInv
  <2>3. toClient \in Seq(Answers(calls, asked.rev, Recovering))
    BY DEF AskedInv
  <2>5. \A k \in 1..Len(toServer) : toServer[k] \in {c \in Cursor : c.id <= calls}
    BY <2>2
  <2>6. \A k \in 1..Len(toServer) : toServer[k].id <= calls /\ toServer[k].id \in Nat
    BY <2>5 DEF Cursor
  <2>8. QED
    BY <2>1, <2>2, <2>6, <2>3
<1>3. \A k \in 1..Len(toClient') : ~Mine(k)'
  <2>1. ASSUME NEW k \in 1..Len(toClient) PROVE toClient[k].id # calls + 1
    <3>1. toClient[k].id <= calls /\ toClient[k].id \in Nat /\ calls \in Nat
      <4>1. toClient[k] \in Answers(calls, asked.rev, Recovering)
        BY DEF AskedInv
      <4>2. QED
        BY <1>2, <4>1 DEF Answers, AnyMessage
    <3>2. QED
      BY <3>1
  <2>2. QED
    BY <1>1, <2>1 DEF Mine
<1>4. CursorMessage \in Cursor /\ CursorMessage.inc = cinc /\ CursorMessage.rev = applied
  BY <1>2 DEF CursorMessage, Cursor
<1>. HIDE DEF r
<1>5. /\ Len(toServer') = Len(toServer) + 1 /\ toServer'[Len(toServer) + 1] = CursorMessage
      /\ \A k \in 1..Len(toServer) : toServer'[k] = toServer[k]
  BY <1>1, <1>2, <1>4, AppendProperties
<1>6. Pending'
  <2>1. ASSUME NEW k \in 1..Len(toServer'), toServer'[k].id = calls' 
        PROVE  toServer'[k].inc = cinc' /\ toServer'[k].rev = applied'
    <3>1. k = Len(toServer) + 1
      <4>1. SUFFICES ASSUME k # Len(toServer) + 1 PROVE FALSE
        OBVIOUS
      <4>2. k \in 1..Len(toServer)
        BY <1>2, <1>5, <4>1
      <4>3. QED
        BY <1>1, <1>2, <1>5, <2>1, <4>2
    <3>2. QED
      BY <1>1, <1>4, <1>5, <3>1
  <2>2. ~\E k \in 1..Len(toClient') : Lasting(k)'
    BY <1>3 DEF Lasting
  <2>3. QED
    BY <1>1, <1>3, <2>1, <2>2 DEF Pending
<1>7. r \in Run /\ r.kind = "snapshot"
  BY DEF r, Run
<1>8. PICK q, g : q = r /\ g = f
  OBVIOUS
<1>9. ClientFollows(q)'
  BY <1>1, <1>7, <1>8 DEF ClientFollows
<1>10. InLine(q, g)'
  BY <1>1, <1>2, <1>3, <1>8 DEF InLine, Lasting
<1>11. Link(q, g)'
  BY <1>1, <1>2 DEF Link, Serving
<1>12. calls' > 0
  BY <1>1, <1>2
<1>. QED
  BY <1>1, <1>2, <1>6, <1>7, <1>8, <1>9, <1>10, <1>11, <1>12 DEF OrderInv

\* The client stops listening.
LEMMA OrderLeft ==
  ASSUME OrderInv, misdelivered' = misdelivered, ~Listening', failure' \in {failure, "none", "disconnected"}
  PROVE  OrderInv'
  BY DEF OrderInv, OrderFailures

\* The server stops listening: what is on its way still arrives.
LEMMA OrderHalted ==
  ASSUME RecoveryInv, OrderInv, Halt
  PROVE  OrderInv'
<1>1. UNCHANGED <<clientVars, environment, toClient, toServer, inc>> /\ conn' = "closed"
  BY DEF Halt, CloseChannel
<1>2. ASSUME NEW r, NEW f, ClientFollows(r), InLine(r, f)
      PROVE  ClientFollows(r)' /\ InLine(r, f)' /\ Link(r, f)'
  <2>1. ClientFollows(r)'
    BY <1>1, <1>2 DEF ClientFollows, clientVars
  <2>2. InLine(r, f)'
    BY <1>1, <1>2 DEF InLine, clientVars, Mine, Lasting, ClientAccepts, ClientPhase, ClientCur
  <2>3. ~Serving'
    BY <1>1 DEF Serving
  <2>4. QED
    BY <2>1, <2>2, <2>3 DEF Link
<1>3. Pending => Pending'
  BY <1>1 DEF Pending, Mine, Lasting, clientVars
<1>. QED
  BY <1>1, <1>2, <1>3 DEF OrderInv, Listening, clientVars, environment

LEMMA OrderStep ==
  RecoveryInv /\ RecoveryInv' /\ AskedInv /\ ShownInv /\ QueueInv /\ RequestInv /\ OrderInv /\ [Next]_vars => OrderInv'
<1>. SUFFICES ASSUME RecoveryInv, RecoveryInv', AskedInv, ShownInv, QueueInv, RequestInv, OrderInv, [Next]_vars
              PROVE  OrderInv'
  OBVIOUS
<1>1. CASE Serve
  <2>1. UNCHANGED <<clientVars, environment>> /\ ServerStep
    BY <1>1 DEF Serve
  <2>2. UNCHANGED <<life, calls, failure, misdelivered>>
    BY <2>1 DEF clientVars, environment
  <2>3. CASE misdelivered \/ ~Listening
    BY <2>2, <2>3 DEF OrderInv, Listening
  <2>4. CASE ~misdelivered /\ Listening
    <3>1. failure \notin OrderFailures /\ calls > 0 /\ Pending
      BY <2>4 DEF OrderInv
    <3>2. PICK r \in Run, f \in Nat : ClientFollows(r) /\ InLine(r, f) /\ Link(r, f)
      BY <2>4 DEF OrderInv
    <3>3. CASE HandleRecover
      <4>1. Pending' /\ \E q \in Run, g \in Nat : ClientFollows(q)' /\ InLine(q, g)' /\ Link(q, g)'
        BY <2>1, <3>1, <3>2, <3>3, OrderPlanned
      <4>2. QED
        BY <2>2, <3>1, <4>1 DEF OrderInv
    <3>4. CASE Install \/ Ingest \/ SendNext \/ Complete \/ Drain \/ Abort
      <4>1. Pending' /\ \E g \in Nat : InLine(r, g)' /\ Link(r, g)'
        BY <2>1, <3>1, <3>2, <3>4, OrderSent
      <4>2. inc' = inc
        BY <3>4 DEF Install, Ingest, SendNext, Complete, Drain, Abort, streamVars
      <4>3. ClientFollows(r)'
        BY <2>1, <3>2, <4>2 DEF ClientFollows, clientVars
      <4>4. QED
        BY <2>2, <3>1, <4>1, <4>3 DEF OrderInv
    <3>5. QED
      BY <2>1, <3>3, <3>4 DEF ServerStep
  <2>5. QED
    BY <2>3, <2>4
<1>2. CASE Connect
  <2>1. life' = "idle" /\ failure' = "none" /\ misdelivered' = misdelivered
    BY <1>2 DEF Connect, environment
  <2>2. QED
    BY <2>1, OrderLeft DEF Listening
<1>3. CASE Recover
  BY <1>3, OrderAsked
<1>4. CASE Disconnect \/ Drop \/ RestartFresh \/ RestartRestored
  <2>1. DisconnectClient /\ misdelivered' = misdelivered
    BY <1>4 DEF Disconnect, Drop, RestartFresh, RestartRestored, LoseConnection, environment
  <2>2. QED
    BY <2>1, OrderLeft DEF Listening, DisconnectClient
<1>5. CASE DisposeRecovery
  <2>1. life' = "disposed" /\ failure' = failure /\ misdelivered' = misdelivered
    BY <1>5 DEF DisposeRecovery, environment
  <2>2. QED
    BY <2>1, OrderLeft DEF Listening
<1>6. CASE Receive
  <2>1. calls' = calls /\ misdelivered' = misdelivered
    BY <1>6 DEF Receive, environment
  <2>2. CASE misdelivered
    BY <2>1, <2>2 DEF OrderInv
  <2>3. CASE ~misdelivered /\ ~Listening
    <3>1. KeepMirror /\ GoOn(got, tailing)
      BY <1>6, <2>3 DEF Receive, Ignored, Listening
    <3>2. life' = life /\ failure' = failure
      BY <3>1 DEF GoOn
    <3>3. QED
      BY <2>1, <2>3, <3>2, OrderLeft DEF Listening
  <2>4. CASE ~misdelivered /\ Listening
    <3>1. failure \notin OrderFailures /\ calls > 0 /\ Pending
      BY <2>4 DEF OrderInv
    <3>2. PICK r \in Run, f \in Nat : ClientFollows(r) /\ InLine(r, f) /\ Link(r, f)
      BY <2>4 DEF OrderInv
    <3>3. /\ failure' \notin OrderFailures
          /\ Listening' => Pending' /\ \E g \in Nat : ClientFollows(r)' /\ InLine(r, g)' /\ Link(r, g)'
      BY <1>6, <2>4, <3>1, <3>2, OrderReceived
    <3>4. QED
      BY <2>1, <3>1, <3>2, <3>3 DEF OrderInv
  <2>5. QED
    BY <2>2, <2>3, <2>4
<1>7. CASE Halt
  BY <1>7, OrderHalted
<1>8. CASE Misdeliver
  BY <1>8 DEF Misdeliver, OrderInv
<1>9. CASE UNCHANGED vars
  <2>1. ASSUME NEW r, NEW f, ClientFollows(r), InLine(r, f), Link(r, f)
        PROVE  ClientFollows(r)' /\ InLine(r, f)' /\ Link(r, f)'
    <3>1. ClientFollows(r)'
      BY <1>9, <2>1 DEF ClientFollows, vars, clientVars, streamVars
    <3>2. InLine(r, f)'
      BY <1>9, <2>1 DEF InLine, vars, clientVars, Mine, Lasting, ClientAccepts, ClientPhase, ClientCur
    <3>3. \A phases, cur : EndsAt(r, f, phases, cur) => EndsAt(r, f, phases, cur)'
      BY <1>9 DEF EndsAt, vars, clientVars, Mine, Lasting, ClientPhase, ClientCur
    <3>4. Link(r, f)'
      BY <1>9, <2>1, <3>3 DEF Link, Serving, Reached, Mine, Lasting, vars, clientVars, channelVars, streamVars
    <3>5. QED
      BY <3>1, <3>2, <3>4
  <2>2. Pending => Pending'
    BY <1>9 DEF Pending, Mine, Lasting, vars, clientVars, channelVars
  <2>3. QED
    BY <1>9, <2>1, <2>2 DEF OrderInv, Listening, vars, clientVars, environment
<1>. QED
  BY <1>1, <1>2, <1>3, <1>4, <1>5, <1>6, <1>7, <1>8, <1>9 DEF Next
-----------------------------------------------------------------------------
(* The types, as far as the other invariants leave them open.               *)

CursorSet == [id : 1..MaxCalls, inc : 0..MaxInc, rev : 0..MaxRev]

TypesInv ==
  /\ up \in BOOLEAN
  /\ inc <= MaxInc /\ mapRev <= MaxRev
  /\ toServer \in Seq(CursorSet)
  /\ life \in Life /\ plan \in Outcomes \cup {"none"}
  /\ planRev \in 0..MaxRev /\ planInc \in 0..MaxInc
  /\ got \in BOOLEAN /\ tailing \in BOOLEAN
  /\ applied <= MaxRev
  /\ cinc = 0 => applied = 0
  /\ mirror \in Seq([inc : 1..MaxInc, rev : 1..MaxRev])
  /\ calls <= MaxCalls /\ failure \in Failure
  /\ asked \in [inc : 1..MaxInc, rev : 0..MaxRev]
  /\ cuts \in 0..MaxCuts /\ misdelivered \in BOOLEAN

LEMMA TypesServed ==
  ASSUME RecoveryInv, TypesInv, Serve
  PROVE  TypesInv'
<1>1. UNCHANGED <<clientVars, environment>> /\ ServerStep
  BY DEF Serve
<1>2. toServer' \in Seq(CursorSet)
  <2>1. CASE HandleRecover
    BY <2>1, HeadTailProperties DEF HandleRecover, TypesInv
  <2>2. CASE ~HandleRecover
    BY <1>1, <2>2 DEF ServerStep, Install, Ingest, SendNext, Complete, Drain, Abort, TypesInv
  <2>3. QED
    BY <2>1, <2>2
<1>3. up' = up /\ inc' = inc /\ mapRev' <= MaxRev
  BY <1>1, BoundAssumption DEF ServerStep, Install, Ingest, HandleRecover, SendNext, Complete, Drain, Abort, streamVars,
     TypesInv, RecoveryInv, StreamInv
<1>. QED
  BY <1>1, <1>2, <1>3 DEF TypesInv, clientVars, environment

LEMMA TypesReceived ==
  ASSUME RecoveryInv, RequestInv, TypesInv, Receive
  PROVE  TypesInv'
<1>. DEFINE m == Head(toClient)
<1>1. m \in MessageUpTo(inc, head) /\ m \in NoRejection
  BY HeadTailProperties DEF RecoveryInv, ChannelInv, RequestInv, Receive
<1>2. /\ m.inc = inc /\ m.rev \in 0..head /\ m.type \in MessageType
      /\ m.type = "plan" => m.how \in Outcomes
  BY <1>1 DEF MessageUpTo, NoRejection
<1>3. inc \in 1..MaxInc /\ head \in Nat /\ m.rev \in 0..MaxRev /\ inc # 0
  BY <1>2, BoundAssumption DEF RecoveryInv, StreamInv, TypesInv
<1>4. UNCHANGED <<up, inc, mapRev, toServer, calls, asked, cuts, misdelivered>>
  BY DEF Receive, streamVars, environment
<1>5. planRev \in 0..MaxRev /\ planInc \in 0..MaxInc /\ 0 \in 0..MaxRev /\ 0 \in 0..MaxInc /\ inc \in 0..MaxInc
  BY <1>3, BoundAssumption DEF TypesInv
<1>. DEFINE Effect == [inc : 1..MaxInc, rev : 1..MaxRev]
            Cursors == /\ applied' <= MaxRev /\ (cinc' = 0 => applied' = 0)
                       /\ mirror' \in Seq(Effect)
            Plans == /\ life' \in Life /\ failure' \in Failure /\ plan' \in Outcomes \cup {"none"}
                     /\ planRev' \in 0..MaxRev /\ planInc' \in 0..MaxInc
                     /\ got' \in BOOLEAN /\ tailing' \in BOOLEAN
<1>6. KeepMirror => Cursors
  BY DEF KeepMirror, TypesInv
<1>7. \A g, t \in BOOLEAN : GoOn(g, t) => Plans
  BY DEF GoOn, TypesInv
<1>8. \A why \in Failure : Fail(why) => Plans
  BY <1>5 DEF Fail, NoPlan, Life
<1>9. \A g, t \in BOOLEAN : Shown(g, t) => Plans
  BY <1>7, <1>8 DEF Shown, Failure
<1>10. got \in BOOLEAN /\ tailing \in BOOLEAN
  BY DEF TypesInv
<1>. HIDE DEF m, Plans
<1>11. Cursors /\ Plans
  <2>1. CASE Ignored(m)
    BY <1>6, <1>7, <1>10, <2>1 DEF Receive, m
  <2>2. CASE ~Ignored(m) /\ m.type = "plan"
    <3>1. OnPlan(m)
      BY <2>2 DEF Receive, m
    <3>2. CASE \E why \in Failure : Fail(why)
      BY <1>6, <1>8, <3>1, <3>2 DEF OnPlan
    <3>3. CASE ~\E why \in Failure : Fail(why)
      <4>1. /\ life' = "consuming" /\ plan' = m.how /\ planRev' = m.rev /\ planInc' = m.inc
            /\ got' = FALSE /\ tailing' = FALSE /\ failure' = failure
        BY <3>1, <3>3 DEF OnPlan, Failure, OrderFailures
      <4>2. Plans
        BY <1>2, <1>3, <1>5, <2>2, <4>1 DEF Plans, Life, TypesInv
      <4>3. QED
        BY <1>6, <3>1, <4>2 DEF OnPlan
    <3>4. QED
      BY <3>2, <3>3
  <2>3. CASE ~Ignored(m) /\ m.type = "commit"
    <3>1. OnCommit(m)
      BY <2>3 DEF Receive, m
    <3>2. CASE ~CommitInOrder(m)
      BY <1>6, <1>8, <3>1, <3>2 DEF OnCommit, Failure, OrderFailures
    <3>3. CASE CommitInOrder(m)
      <4>. DEFINE t == tailing \/ m.how = "tail"
      <4>1. Apply(m, t) /\ t \in BOOLEAN
        BY <1>10, <3>1, <3>3 DEF OnCommit
      <4>. HIDE DEF t
      <4>2. Plans
        BY <1>7, <1>8, <1>9, <1>10, <4>1 DEF Apply, Failure, OrderFailures
      <4>3. Cursors
        <5>1. CASE KeepMirror
          BY <1>6, <5>1
        <5>2. CASE ~KeepMirror
          <6>1. /\ mirror' = Append(mirror, [inc |-> m.inc, rev |-> m.rev])
                /\ applied' = m.rev /\ cinc' = cinc /\ m.inc = cinc /\ m.rev = applied + 1
            BY <4>1, <5>2 DEF Apply
          <6>2. [inc |-> m.inc, rev |-> m.rev] \in Effect
            BY <1>2, <1>3, <6>1, BoundAssumption DEF RecoveryInv, MirrorInv
          <6>3. mirror' \in Seq(Effect)
            BY <6>1, <6>2, AppendProperties DEF TypesInv
          <6>4. QED
            BY <1>2, <1>3, <6>1, <6>3, BoundAssumption
        <5>3. QED
          BY <5>1, <5>2
      <4>4. QED
        BY <4>2, <4>3
    <3>4. QED
      BY <3>2, <3>3
  <2>4. CASE ~Ignored(m) /\ m.type = "snapshot"
    <3>1. OnSnapshot(m)
      BY <2>4 DEF Receive, m
    <3>2. Plans
      BY <1>8, <1>9, <1>10, <3>1 DEF OnSnapshot, InstallFails, Failure, OrderFailures
    <3>3. Cursors
      <4>1. /\ UNCHANGED <<cinc, applied>> \/ (cinc' = m.inc /\ applied' = m.rev)
            /\ mirror' = mirror \/ mirror' = Commits(m.inc, m.rev)
        BY <3>1 DEF OnSnapshot, InstallFails, KeepMirror
      <4>2. m.inc # 0 /\ m.rev <= MaxRev
        BY <1>2, <1>3, BoundAssumption
      <4>3. Commits(m.inc, m.rev) \in Seq(Effect)
        <5>. HIDE DEF Effect
        <5>1. \A k \in 1..m.rev : [inc |-> m.inc, rev |-> k] \in Effect
          BY <1>2, <1>3, BoundAssumption DEF Effect
        <5>2. Commits(m.inc, m.rev) \in [1..m.rev -> Effect] /\ m.rev \in Nat
          BY <1>3, <5>1 DEF Commits
        <5>3. QED
          BY <5>2
      <4>4. QED
        BY <4>1, <4>2, <4>3 DEF TypesInv
    <3>4. QED
      BY <3>2, <3>3
  <2>5. CASE ~Ignored(m) /\ m.type = "caught-up"
    <3>1. OnCaughtUp(m)
      BY <2>5 DEF Receive, m
    <3>2. CASE \E why \in Failure : Fail(why)
      BY <1>6, <1>8, <3>1, <3>2 DEF OnCaughtUp
    <3>3. CASE ~\E why \in Failure : Fail(why)
      <4>1. life' = "caught-up" /\ failure' = failure /\ NoPlan
        BY <3>1, <3>3 DEF OnCaughtUp, Failure, OrderFailures
      <4>2. Plans
        BY <1>5, <4>1 DEF Plans, Life, TypesInv, NoPlan
      <4>3. QED
        BY <1>6, <3>1, <4>2 DEF OnCaughtUp
    <3>4. QED
      BY <3>2, <3>3
  <2>6. CASE ~Ignored(m) /\ m.type = "error"
    BY <1>6, <1>8, <2>6 DEF Receive, m, Failure
  <2>7. QED
    BY <1>2, <2>1, <2>2, <2>3, <2>4, <2>5, <2>6 DEF MessageType
<1>. QED
  BY <1>4, <1>11 DEF TypesInv, Plans

LEMMA TypesStep == RecoveryInv /\ RecoveryInv' /\ RequestInv /\ TypesInv /\ [Next]_vars => TypesInv'
<1>. SUFFICES ASSUME RecoveryInv, RecoveryInv', RequestInv, TypesInv, [Next]_vars PROVE TypesInv'
  OBVIOUS
<1>1. 0 \in 0..MaxRev /\ 0 \in 0..MaxInc
  BY BoundAssumption
<1>2. CASE Connect \/ Disconnect \/ DisposeRecovery
  BY <1>1, <1>2 DEF Connect, Disconnect, DisposeRecovery, DisconnectClient, NoPlan, TypesInv, streamVars, environment,
     Life, Failure
<1>3. CASE Recover
  <2>1. calls \in Nat /\ calls < MaxCalls /\ cinc \in 0..MaxInc /\ applied \in 0..MaxRev
        /\ inc \in 1..MaxInc /\ head \in 0..MaxRev
    BY <1>3, BoundAssumption, CallsAssumption DEF Recover, RecoveryInv, MirrorInv, StreamInv, TypesInv
  <2>2. CursorMessage \in CursorSet
    BY <2>1, CallsAssumption DEF CursorMessage, CursorSet
  <2>3. toServer' \in Seq(CursorSet)
    BY <1>3, <2>2, AppendProperties DEF Recover, TypesInv
  <2>4. calls' <= MaxCalls /\ asked' \in [inc : 1..MaxInc, rev : 0..MaxRev]
    BY <1>3, <2>1, CallsAssumption DEF Recover
  <2>5. QED
    BY <1>1, <1>3, <2>3, <2>4 DEF Recover, NoPlan, TypesInv, Life, streamVars, environment
<1>4. CASE Drop \/ RestartFresh \/ RestartRestored
  <2>1. DisconnectClient /\ toServer' = << >>
    BY <1>4 DEF Drop, RestartFresh, RestartRestored, LoseConnection
  <2>2. /\ up' \in BOOLEAN /\ inc' <= MaxInc /\ mapRev' <= MaxRev /\ cuts' \in 0..MaxCuts
        /\ misdelivered' = misdelivered
    <3>1. inc \in Nat /\ mapRev \in Nat /\ cuts \in 0..MaxCuts /\ inc <= MaxInc /\ mapRev <= MaxRev /\ up \in BOOLEAN
      BY DEF RecoveryInv, StreamInv, TypesInv
    <3>2. CASE Drop
      BY <3>1, <3>2, CallsAssumption DEF Drop, streamVars
    <3>3. CASE RestartFresh
      BY <3>1, <3>3, BoundAssumption DEF RestartFresh, environment
    <3>4. CASE RestartRestored
      BY <3>1, <3>4, CallsAssumption DEF RestartRestored
    <3>5. QED
      BY <1>4, <3>2, <3>3, <3>4
  <2>3. QED
    BY <1>1, <2>1, <2>2, EmptyQueues DEF DisconnectClient, NoPlan, TypesInv, Life, Failure
<1>5. CASE Halt
  BY <1>5 DEF Halt, clientVars, environment, TypesInv
<1>6. CASE Misdeliver
  <2>1. cuts' \in 0..MaxCuts /\ misdelivered' = TRUE
    BY <1>6, CallsAssumption DEF Misdeliver, TypesInv
  <2>2. QED
    BY <1>6, <2>1 DEF Misdeliver, streamVars, clientVars, TypesInv
<1>7. CASE UNCHANGED vars
  BY <1>7 DEF vars, streamVars, clientVars, environment, TypesInv
<1>. QED
  BY <1>2, <1>3, <1>4, <1>5, <1>6, <1>7, TypesServed, TypesReceived DEF Next

-----------------------------------------------------------------------------
(* What follows from the invariants.                                        *)

LEMMA OrderInit == Init => QueueInv /\ RequestInv /\ OrderInv /\ TypesInv
<1>. SUFFICES ASSUME Init PROVE QueueInv /\ RequestInv /\ OrderInv /\ TypesInv
  OBVIOUS
<1>1. QueueInv
  BY DEF Init, ServerInit, QueueInv, Conn, Step
<1>2. RequestInv
  BY EmptyQueues DEF Init, ServerInit, RequestInv
<1>3. OrderInv
  BY DEF Init, OrderInv, OrderFailures, Listening
<1>4. TypesInv
  <2>1. 1 <= MaxInc /\ 0 <= MaxRev /\ 1 \in 1..MaxInc /\ 0 \in 0..MaxRev /\ 0 \in 0..MaxInc
        /\ 0 <= MaxCalls /\ 0 \in 0..MaxCuts
    BY BoundAssumption, CallsAssumption
  <2>2. asked \in [inc : 1..MaxInc, rev : 0..MaxRev]
    BY <2>1 DEF Init
  <2>3. toServer \in Seq(CursorSet)
    BY EmptyQueues DEF Init, ServerInit
  <2>4. life \in Life /\ failure \in Failure
    BY DEF Init, Life, Failure
  <2>5. QED
    BY <2>1, <2>2, <2>3, <2>4, EmptyQueues DEF Init, ServerInit, StreamInit, TypesInv
<1>. QED
  BY <1>1, <1>2, <1>3, <1>4

\* A sequence is one over any set that holds its elements.
LEMMA SeqRetyped ==
  ASSUME NEW S, NEW R, NEW s \in Seq(S), \A k \in 1..Len(s) : s[k] \in R
  PROVE  s \in Seq(R)
<1>1. Len(s) \in Nat /\ s = [k \in 1..Len(s) |-> s[k]]
  OBVIOUS
<1>2. QED
  BY <1>1

LEMMA SeqBoth ==
  ASSUME NEW S, NEW T, NEW R, S \cap T \subseteq R, NEW s \in Seq(S), s \in Seq(T)
  PROVE  s \in Seq(R)
<1>1. \A k \in 1..Len(s) : s[k] \in S /\ s[k] \in T
  OBVIOUS
<1>2. QED
  BY <1>1, SeqRetyped

LEMMA TypesTrue ==
  ASSUME RecoveryInv, AskedInv, QueueInv, RequestInv, TypesInv
  PROVE  TypeOK
<1>1. /\ inc \in 1..MaxInc /\ mapRev \in 0..MaxRev /\ head \in 0..MaxRev /\ floor \in 0..MaxRev
      /\ cut \in 0..MaxRev /\ calls \in 0..MaxCalls /\ request \in 0..MaxCalls
      /\ cinc \in 0..MaxInc /\ applied \in 0..MaxRev
  BY BoundAssumption, CallsAssumption DEF RecoveryInv, StreamInv, ChannelInv, MirrorInv, AskedInv, TypesInv
<1>2. /\ MessageUpTo(inc, head) \cap Unplanned(calls) \subseteq MessageSet
      /\ MessageUpTo(inc, head) \cap Answers(calls, asked.rev, Recovering) \subseteq MessageSet
  <2>1. ASSUME NEW m \in MessageUpTo(inc, head), m.id <= calls
        PROVE  m \in MessageSet
    BY <1>1, <2>1, CallsAssumption, BoundAssumption DEF MessageUpTo, MessageSet, MessageType, How
  <2>2. QED
    BY <2>1 DEF Unplanned, Answers
<1>3. outbox \in Seq(MessageSet) /\ toClient \in Seq(MessageSet)
  <2>1. outbox \in Seq(MessageUpTo(inc, head)) /\ toClient \in Seq(MessageUpTo(inc, head))
    BY DEF RecoveryInv, ChannelInv
  <2>2. outbox \in Seq(Unplanned(calls)) /\ toClient \in Seq(Answers(calls, asked.rev, Recovering))
    BY DEF AskedInv
  <2>3. QED
    BY <1>2, <2>1, <2>2, SeqBoth
<1>4. queued \in Seq(1..MaxRev)
  <2>1. queued \in Seq(0..head) /\ head \in Nat /\ cut \in Nat
    BY DEF RecoveryInv, StreamInv, ChannelInv
  <2>2. Len(queued) \in Nat /\ \A k \in 1..Len(queued) : queued[k] \in 0..head
    BY <2>1
  <2>3. CASE queued = << >>
    BY <2>3, EmptyQueues
  <2>4. CASE queued # << >>
    <3>1. Reached >= cut /\ \A k \in 1..Len(queued) : queued[k] = Reached + k
      BY <2>4 DEF QueueInv, Step
    <3>2. ASSUME NEW k \in 1..Len(queued) PROVE queued[k] \in 1..MaxRev
      BY <1>1, <2>1, <2>2, <3>1, <3>2, BoundAssumption DEF Reached
    <3>3. QED
      BY <2>1, <3>2, SeqRetyped
  <2>5. QED
    BY <2>3, <2>4
<1>5. mirror \in Seq([inc : 1..MaxInc, rev : 1..MaxRev])
  BY DEF TypesInv
<1>6. conn \in Conn /\ step \in Step
  BY DEF QueueInv
<1>. QED
  BY <1>1, <1>3, <1>4, <1>5, <1>6 DEF TypeOK, TypesInv, CursorSet

LEMMA NoneMissed ==
  ASSUME RecoveryInv, QueueInv, OrderInv
  PROVE  NothingMissed
<1>. SUFFICES ASSUME life = "caught-up", conn = "caught-up", request = calls, cinc = inc, ~misdelivered
              PROVE  \E n \in 0..Len(toClient) :
                       LET others == Len(toClient) - n IN
                       /\ \A k \in 1..others : toClient[k].id # calls
                       /\ \A k \in 1..n :
                            toClient[others + k] = Message("commit", calls, applied + k, "live")
                       /\ queued = [k \in 1..(head - applied - n) |-> applied + n + k]
  BY DEF NothingMissed
<1>1. PICK r \in Run, f \in Nat : InLine(r, f) /\ Link(r, f)
  BY DEF OrderInv, Listening
<1>. DEFINE len == Len(toClient)
            n == len - f
<1>2. /\ head \in Nat /\ applied \in Nat /\ inc \in Nat /\ toClient \in Seq(MessageUpTo(inc, head))
      /\ queued \in Seq(0..head)
  BY DEF RecoveryInv, StreamInv, ChannelInv, MirrorInv
<1>3. step \in {"drain", "idle"} /\ Serving
  BY DEF QueueInv, Step, Serving
<1>4. (\A k \in 1..len : Mine(k) => Lasting(k)) /\ EndsAt(r, f, {"end"}, Reached)
  BY <1>1, <1>3 DEF Link
<1>5. /\ f \in 0..len /\ len \in Nat /\ \A k \in 1..f : ~Mine(k)
      /\ f < len => Mine(f + 1)
      /\ \A j, k \in 1..len : j < k /\ Lasting(j) => Mine(k)
      /\ \A k \in (f + 1)..len : Mine(k) => IsLive(toClient[k], applied + k - f)
  BY <1>1, <1>2 DEF InLine
<1>6. ASSUME NEW k \in (f + 1)..len
      PROVE  /\ toClient[k] = Message("commit", calls, applied + k - f, "live")
             /\ Phase(toClient[k]) = "end" /\ Cur(r, toClient[k]) = applied + k - f
  <2>1. f + 1 \in 1..len /\ k \in 1..len /\ f < len
    BY <1>5
  <2>2. Mine(k)
    <3>1. Lasting(f + 1)
      BY <1>4, <1>5, <2>1
    <3>2. CASE k = f + 1
      BY <1>5, <2>1, <3>2
    <3>3. CASE k # f + 1
      <4>1. f + 1 < k
        BY <1>5, <3>3
      <4>2. QED
        BY <1>5, <2>1, <3>1, <4>1
    <3>4. QED
      BY <3>2, <3>3
  <2>3. Lasting(k)
    BY <1>4, <2>1, <2>2
  <2>4. IsLive(toClient[k], applied + k - f)
    BY <1>5, <2>2
  <2>5. toClient[k].id = calls /\ toClient[k].type = "commit" /\ toClient[k].how = "live"
        /\ toClient[k].rev = applied + k - f
    BY <2>2, <2>3, <2>4 DEF Mine, Lasting, IsLive
  <2>6. toClient[k] \in MessageUpTo(inc, head)
    BY <1>2, <2>1
  <2>7. toClient[k] = Message("commit", calls, applied + k - f, "live")
    BY <2>5, <2>6 DEF MessageUpTo, Message
  <2>8. QED
    BY <2>5, <2>7 DEF Phase, Cur
<1>7. Reached = applied + n
  <2>1. CASE f < len
    <3>1. len \in (f + 1)..len
      BY <1>5, <2>1
    <3>2. Cur(r, toClient[len]) = applied + len - f
      BY <1>6, <3>1
    <3>3. QED
      BY <1>2, <1>4, <1>5, <2>1, <3>2 DEF EndsAt
  <2>2. CASE ~(f < len)
    <3>1. ClientCur(r) = Reached
      BY <1>4, <2>2 DEF EndsAt
    <3>2. QED
      BY <1>2, <1>5, <2>2, <3>1 DEF ClientCur
  <2>3. QED
    BY <2>1, <2>2
<1>8. queued = [k \in 1..(head - applied - n) |-> applied + n + k]
  <2>1. Len(queued) \in Nat /\ queued = [k \in 1..Len(queued) |-> queued[k]]
    BY <1>2
  <2>2. Len(queued) = head - applied - n
    BY <1>2, <1>5, <1>7, <2>1 DEF Reached
  <2>3. \A k \in 1..Len(queued) : queued[k] = Reached + k
    <3>1. CASE step = "drain"
      BY <3>1 DEF QueueInv
    <3>2. CASE step = "idle"
      BY <3>2 DEF QueueInv
    <3>3. QED
      BY <1>3, <3>1, <3>2
  <2>4. \A k \in 1..Len(queued) : queued[k] = applied + n + k
    BY <1>7, <2>3
  <2>. HIDE DEF n
  <2>5. QED
    BY <2>1, <2>2, <2>4
<1>9. n \in 0..len /\ len - n = f
  BY <1>5
<1>10. \A k \in 1..n : toClient[f + k] = Message("commit", calls, applied + k, "live")
  <2>1. ASSUME NEW k \in 1..n PROVE toClient[f + k] = Message("commit", calls, applied + k, "live")
    <3>1. f + k \in (f + 1)..len /\ applied + (f + k) - f = applied + k
      BY <1>2, <1>5
    <3>2. PICK i \in (f + 1)..len : i = f + k
      BY <3>1
    <3>3. toClient[i] = Message("commit", calls, applied + i - f, "live")
      BY <1>6
    <3>4. QED
      BY <3>1, <3>2, <3>3
  <2>2. QED
    BY <2>1
<1>11. \A k \in 1..f : toClient[k].id # calls
  BY <1>5 DEF Mine
<1>. HIDE DEF n
<1>. QED
  BY <1>8, <1>9, <1>10, <1>11

(* What handle_recover and the live subscription send to a client in answer  *)
(* to its last request is what handle_recovery_message demands, in order:    *)
(* on a transport that keeps order none of the client's checks ever fires,   *)
(* no cursor is ever refused as ahead of the authority, and once the client  *)
(* is told it has caught up, what is on its way and what waits in            *)
(* pendingLive are exactly the commits it lacks.                             *)
THEOREM ChannelKeepsOrder == Spec => []ChannelInOrder
<1>. DEFINE Known == RecoveryInv /\ AskedInv /\ ShownInv
            Inv == QueueInv /\ RequestInv /\ OrderInv /\ TypesInv
<1>1. Spec => []Known
  BY RecoveryInvariant
<1>2. Init => Inv
  BY OrderInit
<1>3. Known /\ Known' /\ Inv /\ [Next]_vars => Inv'
  BY QueueStep, RequestStep, OrderStep, TypesStep
<1>4. Known /\ Inv => ChannelInOrder
  <2>1. Known /\ Inv => TypeOK /\ NothingMissed
    BY TypesTrue, NoneMissed
  <2>2. Known /\ Inv => OrderNeverBroken /\ NeverRejected
    BY DEF OrderNeverBroken, NeverRejected, OrderInv, RequestInv
  <2>3. QED
    BY <2>1, <2>2 DEF ChannelInOrder
<1>5. QED
  BY <1>1, <1>2, <1>3, <1>4, PTL DEF Spec
=============================================================================
