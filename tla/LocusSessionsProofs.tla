------------------------- MODULE LocusSessionsProofs -------------------------
(***************************************************************************)
(* Two promises of LocusSessions, for any connections and principals: one  *)
(* transport speaks for a session and what the session holds follows its   *)
(* life; and the sessions implement ConnectionAuthority.                   *)
(*                                                                         *)
(* Both rest on the epochs.  A session counts its attachments, and every   *)
(* connection remembers the count it was given, so a count names one       *)
(* connection (HolderInv) and whoever comes late has an old one.           *)
(***************************************************************************)
EXTENDS LocusSessions, TLAPS

\* What a connection is bound to exists, is of its principal, and was created by
\* the connection it is named after.
BoundInv == \A c \in Conn :
  /\ bound[c] # NoConn =>
       /\ recordState[bound[c]] # "none" /\ boundEpoch[c] <= epoch[bound[c]]
       /\ principal[bound[c]] = principal[c] /\ transport[c] \in {"open", "closed"}
  /\ recordState[c] # "none" => bound[c] = c

\* An epoch of a session names one connection.
HolderInv == \A c, d \in Conn :
  bound[c] # NoConn /\ bound[c] = bound[d] /\ boundEpoch[c] = boundEpoch[d] => c = d

\* The attachment of a session is the connection of its epoch; so is the one
\* whose close began its grace time.
AttachInv == \A s \in Session :
  /\ recordState[s] = "attached" <=> attachment[s] # NoConn
  /\ attachment[s] # NoConn =>
       /\ bound[attachment[s]] = s /\ boundEpoch[attachment[s]] = epoch[s]
       /\ ~fenced[attachment[s]]
  /\ \A c \in Conn : bound[c] = s /\ boundEpoch[c] = epoch[s] /\ recordState[s] = "disconnected" =>
       transport[c] # "open"

\* In the middle of a reattachment.
FencingInv == fencing # NotFencing =>
  /\ fencing.conn \in Conn /\ fencing.sid \in Session /\ fencing.prev \in Conn
  /\ transport[fencing.conn] = "open" /\ ~fenced[fencing.conn] /\ bound[fencing.conn] = NoConn
  /\ recordState[fencing.sid] # "none" /\ principal[fencing.sid] = principal[fencing.conn]
  /\ bound[fencing.prev] = fencing.sid
  /\ ~managerGone

\* What is left when the manager is disposed, the authority failed, or both.
LifeInv ==
  /\ failed \/ stoppedLocus => \A c \in Conn : transport[c] # "open"
  /\ managerGone => \A s \in Session : recordState[s] \notin Live
  /\ stoppedLocus => managerGone

SessionInv ==
  /\ SessionsSound
  /\ BoundInv /\ HolderInv /\ AttachInv /\ FencingInv /\ LifeInv

-----------------------------------------------------------------------------

\* OneSpeaker follows from the epochs.
LEMMA EpochNamesSpeaker ==
  ASSUME STypeOK, BoundInv, HolderInv
  PROVE  OneSpeaker
BY DEF OneSpeaker, Authoritative, IsActive, BoundInv, HolderInv, STypeOK, Session

\* The connection that is active in a session is its attachment.
LEMMA ActiveIsAttached ==
  ASSUME SessionInv, NEW c \in Conn, IsActive(c)
  PROVE  /\ bound[c] \in Session /\ attachment[bound[c]] = c
         /\ recordState[bound[c]] = "attached" /\ epoch[bound[c]] = boundEpoch[c] /\ ~fenced[c]
<1>1. /\ bound[c] \in Session /\ attachment[bound[c]] # NoConn /\ attachment[bound[c]] \in Conn
      /\ recordState[bound[c]] = "attached" /\ epoch[bound[c]] = boundEpoch[c] /\ bound[c] # NoConn
  BY DEF IsActive, SessionInv, SessionsSound, STypeOK, Session
<1>2. bound[attachment[bound[c]]] = bound[c] /\ boundEpoch[attachment[bound[c]]] = epoch[bound[c]]
  BY <1>1 DEF SessionInv, AttachInv
<1>3. attachment[bound[c]] = c
  BY <1>1, <1>2 DEF SessionInv, HolderInv
<1>. QED
  BY <1>1, <1>3 DEF SessionInv, AttachInv

\* The invariant holds again, when its parts do.
LEMMA Regained ==
  ASSUME STypeOK', TimerIsCurrent', ResourcesFollowSession',
         BoundInv', HolderInv', AttachInv', FencingInv', LifeInv'
  PROVE  SessionInv'
<1>1. OneSpeaker'
  BY DEF OneSpeaker, Authoritative, IsActive, BoundInv, HolderInv, STypeOK, Session
<1>. QED
  BY <1>1 DEF SessionInv, SessionsSound

LEMMA SessionInit == SInit => SessionInv
<1>. SUFFICES ASSUME SInit PROVE SessionInv
  OBVIOUS
<1>1. STypeOK
  BY DEF SInit, STypeOK, Session, NotFencing
<1>2. BoundInv /\ HolderInv /\ AttachInv /\ LifeInv
  BY DEF SInit, BoundInv, HolderInv, AttachInv, LifeInv, Session
<1>3. FencingInv
  BY DEF SInit, FencingInv
<1>4. TimerIsCurrent
  BY DEF SInit, TimerIsCurrent
<1>5. ResourcesFollowSession
  BY DEF SInit, ResourcesFollowSession, Live
<1>. QED
  BY <1>1, <1>2, <1>3, <1>4, <1>5, EpochNamesSpeaker DEF SessionInv, SessionsSound

-----------------------------------------------------------------------------
(* The steps *)

LEMMA Connects ==
  ASSUME SessionInv, NEW c \in Conn, Connect(c)
  PROVE  SessionInv'
<1>. USE DEF Session
<1>1. /\ transport[c] = "none" /\ fencing = NotFencing
      /\ \/ (stoppedLocus \/ failed) /\ transport' = [transport EXCEPT ![c] = "inert"] /\ held' = held
         \/ ~(stoppedLocus \/ failed) /\ transport' = [transport EXCEPT ![c] = "open"] /\ held' = held \cup {c}
      /\ UNCHANGED <<principal, fenced, bound, boundEpoch, fencing>>
      /\ UNCHANGED <<recordState, resumable, epoch, attachment, timers, synced, sender, subscribed, retained>>
      /\ UNCHANGED <<managerGone, failed, stoppedLocus>>
  BY DEF Connect, sessVars, lifeVars
<1>2. bound[c] = NoConn
  BY <1>1 DEF SessionInv, BoundInv
<1>3. STypeOK'
  BY <1>1 DEF SessionInv, SessionsSound, STypeOK
<1>4. TimerIsCurrent' /\ ResourcesFollowSession'
  BY <1>1 DEF SessionInv, SessionsSound, TimerIsCurrent, ResourcesFollowSession
<1>5. \A d \in Conn : transport'[d] = IF d = c THEN transport'[c] ELSE transport[d]
  BY <1>1 DEF SessionInv, SessionsSound, STypeOK
<1>6. BoundInv' /\ HolderInv'
  BY <1>1, <1>2, <1>5 DEF SessionInv, BoundInv, HolderInv
<1>7. AttachInv'
  BY <1>1, <1>2, <1>5, ConnAssumption DEF SessionInv, AttachInv
<1>8. FencingInv'
  BY <1>1 DEF FencingInv
<1>9. LifeInv'
  BY <1>1, <1>5 DEF SessionInv, SessionsSound, STypeOK, LifeInv
<1>. QED
  BY <1>3, <1>4, <1>6, <1>7, <1>8, <1>9, Regained

LEMMA Binds ==
  ASSUME SessionInv, NEW c \in Conn, NEW resume \in BOOLEAN, Bind(c, resume)
  PROVE  SessionInv'
<1>. USE DEF Session
<1>1. /\ transport[c] = "open" /\ ~fenced[c] /\ bound[c] = NoConn /\ ~managerGone /\ MayAct(c)
      /\ recordState' = [recordState EXCEPT ![c] = "attached"]
      /\ resumable' = [resumable EXCEPT ![c] = resume]
      /\ epoch' = [epoch EXCEPT ![c] = 1]
      /\ attachment' = [attachment EXCEPT ![c] = c]
      /\ synced' = synced \cup {c} /\ sender' = [sender EXCEPT ![c] = c] /\ retained' = retained \cup {c}
      /\ bound' = [bound EXCEPT ![c] = c] /\ boundEpoch' = [boundEpoch EXCEPT ![c] = 1]
      /\ UNCHANGED <<timers, subscribed, principal, transport, fenced, held, fencing>>
      /\ UNCHANGED <<managerGone, failed, stoppedLocus>>
  BY DEF Bind, CreateSession, lifeVars
<1>2. recordState[c] = "none" /\ c # NoConn /\ \A d \in Conn : bound[d] # c
  BY <1>1, ConnAssumption DEF SessionInv, BoundInv
<1>3. fencing = NotFencing
  BY <1>1, ConnAssumption DEF MayAct, SessionInv, FencingInv
<1>4. STypeOK'
  BY <1>1 DEF SessionInv, SessionsSound, STypeOK, Live
<1>5. /\ \A d \in Conn : /\ recordState'[d] = IF d = c THEN "attached" ELSE recordState[d]
                         /\ epoch'[d] = IF d = c THEN 1 ELSE epoch[d]
                         /\ attachment'[d] = IF d = c THEN c ELSE attachment[d]
                         /\ sender'[d] = IF d = c THEN c ELSE sender[d]
                         /\ bound'[d] = IF d = c THEN c ELSE bound[d]
                         /\ boundEpoch'[d] = IF d = c THEN 1 ELSE boundEpoch[d]
  BY <1>1 DEF SessionInv, SessionsSound, STypeOK
<1>6. TimerIsCurrent'
  BY <1>1, <1>2, <1>5 DEF SessionInv, SessionsSound, TimerIsCurrent
<1>7. ResourcesFollowSession'
  BY <1>1, <1>5 DEF SessionInv, SessionsSound, ResourcesFollowSession, STypeOK, Live
<1>8. BoundInv'
  BY <1>1, <1>2, <1>5 DEF SessionInv, SessionsSound, STypeOK, BoundInv
<1>9. HolderInv'
  BY <1>1, <1>2, <1>5 DEF SessionInv, HolderInv
<1>10. AttachInv'
  <2>1. ASSUME NEW s \in Conn, s # c
        PROVE  /\ recordState'[s] = "attached" <=> attachment'[s] # NoConn
               /\ attachment'[s] # NoConn =>
                    /\ bound'[attachment'[s]] = s /\ boundEpoch'[attachment'[s]] = epoch'[s]
                    /\ ~fenced[attachment'[s]]
    <3>1. attachment[s] # NoConn => attachment[s] \in Conn /\ attachment[s] # c
      <4>1. attachment[s] \in Conn \cup {NoConn} /\ s # NoConn
        BY ConnAssumption DEF SessionInv, SessionsSound, STypeOK
      <4>2. attachment[s] # NoConn => bound[attachment[s]] = s
        BY DEF SessionInv, AttachInv
      <4>. QED
        BY <1>1, <4>1, <4>2
    <3>. QED
      BY <1>5, <2>1, <3>1 DEF SessionInv, AttachInv
  <2>2. ASSUME NEW s \in Conn, NEW d \in Conn, bound'[d] = s, boundEpoch'[d] = epoch'[s],
               recordState'[s] = "disconnected"
        PROVE  transport[d] # "open"
    BY <1>5, <2>2 DEF SessionInv, AttachInv
  <2>. QED
    BY <1>1, <1>2, <1>5, <2>1, <2>2 DEF AttachInv
<1>11. FencingInv'
  BY <1>1, <1>3 DEF FencingInv
<1>12. LifeInv'
  BY <1>1, <1>5 DEF SessionInv, LifeInv
<1>. QED
  BY <1>4, <1>6, <1>7, <1>8, <1>9, <1>10, <1>11, <1>12, Regained

\* A connection takes over a session: it is given the next epoch, and who had
\* the one before it has it no more.
LEMMA TakesOver ==
  ASSUME SessionInv, NEW c \in Conn, NEW s \in Session, NEW others, TakeOver(c, s, others),
         fencing' = NotFencing, c \notin others,
         transport[c] = "open", ~fenced[c], bound[c] = NoConn, ~managerGone,
         recordState[s] # "none", principal[s] = principal[c],
         \A d \in others : bound[d] = s
  PROVE  SessionInv'
<1>. USE DEF Session
<1>1. /\ timers' = [timers EXCEPT ![s] = {}]
      /\ epoch' = [epoch EXCEPT ![s] = epoch[s] + 1]
      /\ attachment' = [attachment EXCEPT ![s] = c]
      /\ recordState' = [recordState EXCEPT ![s] = "attached"]
      /\ retained' = retained \cup {s}
      /\ bound' = [bound EXCEPT ![c] = s]
      /\ boundEpoch' = [boundEpoch EXCEPT ![c] = epoch[s] + 1]
      /\ sender' = (IF s \in synced THEN [sender EXCEPT ![s] = c] ELSE sender)
      /\ fenced' = [d \in Conn |-> fenced[d] \/ d \in others]
      /\ UNCHANGED <<principal, resumable, synced, subscribed, transport, held>>
      /\ UNCHANGED <<managerGone, failed, stoppedLocus>>
  BY DEF TakeOver, lifeVars
<1>2. /\ \A x \in Conn : epoch[x] \in Nat /\ boundEpoch[x] \in Nat /\ attachment[x] \in Conn \cup {NoConn}
      /\ s # NoConn /\ c # NoConn
      /\ \A d \in Conn : bound[d] = s => d # c /\ boundEpoch[d] <= epoch[s] /\ boundEpoch[d] # epoch[s] + 1
  <2>1. \A x \in Conn : epoch[x] \in Nat /\ boundEpoch[x] \in Nat /\ attachment[x] \in Conn \cup {NoConn}
    BY DEF SessionInv, SessionsSound, STypeOK
  <2>2. s # NoConn /\ c # NoConn
    BY ConnAssumption
  <2>3. \A d \in Conn : bound[d] = s => d # c /\ boundEpoch[d] <= epoch[s]
    BY <2>2 DEF SessionInv, BoundInv
  <2>. QED
    BY <2>1, <2>2, <2>3
<1>3. STypeOK'
  BY <1>1, <1>2 DEF SessionInv, SessionsSound, STypeOK, Live, NotFencing
<1>4. \A d \in Conn : /\ recordState'[d] = IF d = s THEN "attached" ELSE recordState[d]
                      /\ epoch'[d] = IF d = s THEN epoch[s] + 1 ELSE epoch[d]
                      /\ attachment'[d] = IF d = s THEN c ELSE attachment[d]
                      /\ timers'[d] = IF d = s THEN {} ELSE timers[d]
                      /\ bound'[d] = IF d = c THEN s ELSE bound[d]
                      /\ boundEpoch'[d] = IF d = c THEN epoch[s] + 1 ELSE boundEpoch[d]
                      /\ fenced'[d] <=> fenced[d] \/ d \in others
                      /\ sender'[d] = IF d = s /\ s \in synced THEN c ELSE sender[d]
  BY <1>1 DEF SessionInv, SessionsSound, STypeOK
<1>5. TimerIsCurrent'
  BY <1>4 DEF SessionInv, SessionsSound, TimerIsCurrent
<1>6. ResourcesFollowSession'
  BY <1>1, <1>4 DEF SessionInv, SessionsSound, ResourcesFollowSession, Live
<1>7. BoundInv'
  <2>1. ASSUME NEW d \in Conn, bound'[d] # NoConn
        PROVE  /\ recordState'[bound'[d]] # "none" /\ boundEpoch'[d] <= epoch'[bound'[d]]
               /\ principal[bound'[d]] = principal[d] /\ transport[d] \in {"open", "closed"}
    <3>1. CASE d = c
      BY <1>2, <1>4, <3>1
    <3>2. CASE d # c
      <4>1. /\ bound'[d] = bound[d] /\ bound[d] \in Conn /\ boundEpoch'[d] = boundEpoch[d]
            /\ recordState[bound[d]] # "none" /\ boundEpoch[d] <= epoch[bound[d]]
            /\ principal[bound[d]] = principal[d] /\ transport[d] \in {"open", "closed"}
        BY <1>4, <2>1, <3>2 DEF SessionInv, SessionsSound, STypeOK, BoundInv
      <4>2. epoch'[bound[d]] \in Nat /\ epoch[bound[d]] <= epoch'[bound[d]]
        BY <1>2, <1>4, <4>1
      <4>3. boundEpoch[d] <= epoch'[bound[d]]
        BY <1>2, <4>1, <4>2
      <4>. QED
        BY <1>4, <4>1, <4>3
    <3>. QED
      BY <3>1, <3>2
  <2>2. ASSUME NEW d \in Conn, recordState'[d] # "none" PROVE bound'[d] = d
    BY <1>2, <1>4, <2>2 DEF SessionInv, BoundInv
  <2>. QED
    BY <1>1, <2>1, <2>2 DEF BoundInv
<1>8. HolderInv'
  <2>1. ASSUME NEW d \in Conn, NEW e \in Conn, bound'[d] # NoConn, bound'[d] = bound'[e],
               boundEpoch'[d] = boundEpoch'[e]
        PROVE  d = e
    <3>1. CASE d # c /\ e # c
      BY <1>4, <2>1, <3>1 DEF SessionInv, HolderInv
    <3>2. CASE d = c \/ e = c
      BY <1>2, <1>4, <2>1, <3>2
    <3>. QED
      BY <3>1, <3>2
  <2>. QED
    BY <2>1 DEF HolderInv
<1>9. AttachInv'
  <2>1. ASSUME NEW x \in Conn, x # s
        PROVE  /\ recordState'[x] = "attached" <=> attachment'[x] # NoConn
               /\ attachment'[x] # NoConn =>
                    /\ bound'[attachment'[x]] = x /\ boundEpoch'[attachment'[x]] = epoch'[x]
    <3>1. attachment[x] # NoConn => attachment[x] \in Conn /\ attachment[x] # c
      BY <1>2, <2>1, ConnAssumption DEF SessionInv, AttachInv
    <3>. QED
      BY <1>4, <2>1, <3>1 DEF SessionInv, AttachInv
  <2>2. ASSUME NEW x \in Conn, x # s, attachment'[x] # NoConn PROVE ~fenced'[attachment'[x]]
    <3>1. attachment'[x] = attachment[x] /\ attachment[x] \in Conn
      BY <1>2, <1>4, <2>2
    <3>2. bound[attachment[x]] = x /\ ~fenced[attachment[x]]
      BY <2>2, <3>1 DEF SessionInv, AttachInv
    <3>. QED
      BY <1>4, <2>2, <3>1, <3>2
  <2>3. ASSUME NEW x \in Conn, NEW d \in Conn, bound'[d] = x, boundEpoch'[d] = epoch'[x],
               recordState'[x] = "disconnected"
        PROVE  transport[d] # "open"
    BY <1>4, <2>3 DEF SessionInv, AttachInv
  <2>4. /\ recordState'[s] = "attached" /\ attachment'[s] = c /\ bound'[c] = s
        /\ boundEpoch'[c] = epoch'[s] /\ ~fenced'[c]
    BY <1>4
  <2>5. ASSUME NEW x \in Conn
        PROVE  /\ recordState'[x] = "attached" <=> attachment'[x] # NoConn
               /\ attachment'[x] # NoConn =>
                    /\ bound'[attachment'[x]] = x /\ boundEpoch'[attachment'[x]] = epoch'[x]
                    /\ ~fenced'[attachment'[x]]
    BY <1>2, <2>1, <2>2, <2>4
  <2>6. transport' = transport
    BY <1>1
  <2>. QED
    BY <2>3, <2>5, <2>6 DEF AttachInv
<1>10. FencingInv'
  BY DEF FencingInv, NotFencing
<1>11. LifeInv'
  BY <1>1, <1>4 DEF SessionInv, LifeInv
<1>. QED
  BY <1>3, <1>5, <1>6, <1>7, <1>8, <1>9, <1>10, <1>11, Regained

LEMMA Reattaches ==
  ASSUME SessionInv, NEW c \in Conn, NEW s \in Session, Reattach(c, s)
  PROVE  SessionInv'
<1>. USE DEF Session
<1>1. /\ fencing = NotFencing /\ transport[c] = "open" /\ ~fenced[c] /\ bound[c] = NoConn
      /\ ~managerGone /\ recordState[s] \in Live /\ recordState[s] # "none"
      /\ principal[s] = principal[c]
  BY DEF Reattach, Admits, Live
<1>2. CASE attachment[s] = NoConn
  <2>1. TakeOver(c, s, {}) /\ fencing' = NotFencing
    BY <1>1, <1>2 DEF Reattach
  <2>. QED
    BY <1>1, <2>1, TakesOver
<1>3. CASE attachment[s] # NoConn
  <2>1. /\ fencing' = [conn |-> c, sid |-> s, prev |-> attachment[s]]
        /\ UNCHANGED <<principal, transport, fenced, bound, boundEpoch, held>>
        /\ UNCHANGED <<recordState, resumable, epoch, attachment, timers, synced, sender, subscribed, retained>>
        /\ UNCHANGED <<managerGone, failed, stoppedLocus>>
    BY <1>3 DEF Reattach, connVars, sessVars, lifeVars
  <2>2. attachment[s] \in Conn /\ bound[attachment[s]] = s
    BY <1>3 DEF SessionInv, SessionsSound, STypeOK, AttachInv
  <2>3. STypeOK'
    BY <2>1, <2>2 DEF SessionInv, SessionsSound, STypeOK
  <2>4. TimerIsCurrent' /\ ResourcesFollowSession'
    BY <2>1 DEF SessionInv, SessionsSound, TimerIsCurrent, ResourcesFollowSession
  <2>5. BoundInv' /\ HolderInv' /\ AttachInv' /\ LifeInv'
    BY <2>1 DEF SessionInv, BoundInv, HolderInv, AttachInv, LifeInv
  <2>6. FencingInv'
    BY <1>1, <2>1, <2>2 DEF FencingInv
  <2>. QED
    BY <2>3, <2>4, <2>5, <2>6, Regained
<1>. QED
  BY <1>2, <1>3

LEMMA FinishesReattach ==
  ASSUME SessionInv, FinishReattach
  PROVE  SessionInv'
<1>1. /\ fencing # NotFencing /\ fencing' = NotFencing
      /\ TakeOver(fencing.conn, fencing.sid, {fencing.prev})
  BY DEF FinishReattach
<1>2. /\ fencing.conn \in Conn /\ fencing.sid \in Session /\ fencing.prev \in Conn
      /\ transport[fencing.conn] = "open" /\ ~fenced[fencing.conn] /\ bound[fencing.conn] = NoConn
      /\ recordState[fencing.sid] # "none" /\ principal[fencing.sid] = principal[fencing.conn]
      /\ bound[fencing.prev] = fencing.sid /\ ~managerGone
  BY <1>1 DEF SessionInv, FencingInv
<1>3. fencing.conn \notin {fencing.prev}
  BY <1>2, ConnAssumption DEF Session
<1>4. \A d \in {fencing.prev} : bound[d] = fencing.sid
  BY <1>2
<1>. QED
  BY <1>1, <1>2, <1>3, <1>4, TakesOver

\* In the middle of a reattachment only the connection that is fenced acts.
LEMMA OnlyPrevActs ==
  ASSUME SessionInv, NEW c \in Conn, MayAct(c), fencing # NotFencing
  PROVE  c = fencing.prev /\ c # fencing.conn
BY ConnAssumption DEF MayAct, SessionInv, FencingInv, Session

LEMMA SaysGoodbye ==
  ASSUME SessionInv, NEW c \in Conn, Goodbye(c)
  PROVE  SessionInv'
<1>. USE DEF Session
<1>. DEFINE s == bound[c]
<1>1. MayAct(c) /\ transport[c] = "open" /\ ~fenced[c] /\ IsActive(c)
  BY DEF Goodbye, Authoritative
<1>2. /\ s \in Conn /\ attachment[s] = c /\ recordState[s] = "attached"
      /\ epoch[s] = boundEpoch[c] /\ s # NoConn /\ c # NoConn
  BY <1>1, ActiveIsAttached, ConnAssumption
<1>. HIDE DEF s
<1>3. /\ timers' = [timers EXCEPT ![s] = {}]
      /\ attachment' = [attachment EXCEPT ![s] = NoConn]
      /\ recordState' = [recordState EXCEPT ![s] = "revoked"]
      /\ fenced' = [fenced EXCEPT ![c] = TRUE]
      /\ synced' = synced \ {s} /\ subscribed' = subscribed \ {s} /\ retained' = retained \ {s}
      /\ sender' = [x \in Conn |-> IF x \in {s} THEN NoConn ELSE sender[x]]
      /\ UNCHANGED <<principal, transport, bound, boundEpoch, held, resumable, epoch, fencing>>
      /\ UNCHANGED <<managerGone, failed, stoppedLocus>>
  BY DEF Goodbye, FreeResources, lifeVars, s
<1>4. STypeOK'
  BY <1>2, <1>3 DEF SessionInv, SessionsSound, STypeOK, Gone
<1>5. \A d \in Conn : /\ recordState'[d] = IF d = s THEN "revoked" ELSE recordState[d]
                      /\ attachment'[d] = IF d = s THEN NoConn ELSE attachment[d]
                      /\ timers'[d] = IF d = s THEN {} ELSE timers[d]
                      /\ fenced'[d] <=> fenced[d] \/ d = c
                      /\ sender'[d] = IF d = s THEN NoConn ELSE sender[d]
  BY <1>2, <1>3 DEF SessionInv, SessionsSound, STypeOK
<1>6. TimerIsCurrent'
  BY <1>3, <1>5 DEF SessionInv, SessionsSound, TimerIsCurrent
<1>7. ResourcesFollowSession'
  BY <1>3, <1>5 DEF SessionInv, SessionsSound, ResourcesFollowSession, Live
<1>8. BoundInv' /\ HolderInv'
  BY <1>2, <1>3, <1>5 DEF SessionInv, BoundInv, HolderInv
<1>9. AttachInv'
  <2>1. ASSUME NEW x \in Conn, x # s, attachment[x] # NoConn PROVE attachment[x] # c
    BY <2>1 DEF SessionInv, AttachInv, s
  <2>2. \A x \in Conn : attachment[x] \in Conn \cup {NoConn}
    BY DEF SessionInv, SessionsSound, STypeOK
  <2>. QED
    BY <1>2, <1>3, <1>5, <2>1, <2>2 DEF SessionInv, AttachInv
<1>10. FencingInv'
  BY <1>1, <1>3, <1>5, OnlyPrevActs DEF SessionInv, FencingInv
<1>11. LifeInv'
  BY <1>3, <1>5 DEF SessionInv, LifeInv, Live
<1>. QED
  BY <1>4, <1>6, <1>7, <1>8, <1>9, <1>10, <1>11, Regained

\* A transport goes away: what its session, if it is active in one, keeps.
LEMMA Closes ==
  ASSUME SessionInv, NEW c \in Conn, Close(c)
  PROVE  SessionInv'
<1>. USE DEF Session
<1>1. /\ MayAct(c) /\ transport[c] = "open"
      /\ transport' = [transport EXCEPT ![c] = "closed"]
      /\ held' = held \ {c}
      /\ UNCHANGED <<principal, fenced, bound, boundEpoch, fencing>>
      /\ UNCHANGED <<managerGone, failed, stoppedLocus>>
  BY DEF Close, lifeVars
<1>2. \A d \in Conn : transport'[d] = IF d = c THEN "closed" ELSE transport[d]
  BY <1>1 DEF SessionInv, SessionsSound, STypeOK
<1>3. FencingInv'
  <2>1. SUFFICES ASSUME fencing # NotFencing PROVE FencingInv'
    BY <1>1 DEF FencingInv
  <2>2. c # fencing.conn /\ fencing.conn \in Conn
    BY <1>1, <2>1, OnlyPrevActs DEF SessionInv, FencingInv
  <2>3. \A x \in Conn : recordState[x] # "none" => recordState'[x] # "none"
    <3>1. CASE IsActive(c)
      BY <3>1 DEF Close, DetachSession, SessionInv, SessionsSound, STypeOK
    <3>2. CASE ~IsActive(c)
      BY <3>2 DEF Close, sessVars
    <3>. QED
      BY <3>1, <3>2
  <2>. QED
    BY <1>1, <1>2, <2>1, <2>2, <2>3 DEF SessionInv, FencingInv
<1>4. CASE ~IsActive(c)
  <2>1. UNCHANGED <<recordState, resumable, epoch, attachment, timers, synced, sender, subscribed, retained>>
    BY <1>4 DEF Close, sessVars
  <2>2. STypeOK'
    BY <1>1, <2>1 DEF SessionInv, SessionsSound, STypeOK
  <2>3. TimerIsCurrent' /\ ResourcesFollowSession'
    BY <2>1 DEF SessionInv, SessionsSound, TimerIsCurrent, ResourcesFollowSession
  <2>4. BoundInv' /\ HolderInv' /\ AttachInv' /\ LifeInv'
    BY <1>1, <1>2, <2>1 DEF SessionInv, BoundInv, HolderInv, AttachInv, LifeInv
  <2>. QED
    BY <1>3, <2>2, <2>3, <2>4, Regained
<1>5. CASE IsActive(c)
  <2>. DEFINE s == bound[c]
  <2>1. /\ s \in Conn /\ attachment[s] = c /\ recordState[s] = "attached"
        /\ epoch[s] = boundEpoch[c] /\ s # NoConn /\ c # NoConn
    BY <1>5, ActiveIsAttached, ConnAssumption
  <2>2. DetachSession(s)
    BY <1>5 DEF Close
  <2>3. bound[c] = s
    OBVIOUS
  <2>. HIDE DEF s
  <2>4. /\ attachment' = [attachment EXCEPT ![s] = NoConn]
        /\ UNCHANGED <<resumable, epoch>>
        /\ resumable[s] =>
              /\ recordState' = [recordState EXCEPT ![s] = "disconnected"]
              /\ timers' = [timers EXCEPT ![s] = {epoch[s]}]
              /\ sender' = [sender EXCEPT ![s] = NoConn]
              /\ UNCHANGED <<synced, subscribed, retained>>
        /\ ~resumable[s] =>
              /\ recordState' = [recordState EXCEPT ![s] = "expired"]
              /\ synced' = synced \ {s} /\ subscribed' = subscribed \ {s} /\ retained' = retained \ {s}
              /\ sender' = [x \in Conn |-> IF x \in {s} THEN NoConn ELSE sender[x]]
              /\ UNCHANGED timers
    BY <2>2 DEF DetachSession, FreeResources
  <2>5. \A d \in Conn :
          /\ recordState'[d] = IF d = s THEN IF resumable[s] THEN "disconnected" ELSE "expired"
                               ELSE recordState[d]
          /\ attachment'[d] = IF d = s THEN NoConn ELSE attachment[d]
          /\ timers'[d] = IF d = s /\ resumable[s] THEN {epoch[s]} ELSE timers[d]
          /\ sender'[d] = IF d = s THEN NoConn ELSE sender[d]
    <3>1. /\ DOMAIN recordState = Conn /\ DOMAIN attachment = Conn
          /\ DOMAIN timers = Conn /\ DOMAIN sender = Conn
          /\ recordState = [d \in Conn |-> recordState[d]] /\ attachment = [d \in Conn |-> attachment[d]]
          /\ timers = [d \in Conn |-> timers[d]] /\ sender = [d \in Conn |-> sender[d]]
      BY DEF SessionInv, SessionsSound, STypeOK
    <3>2. \A d \in Conn : attachment'[d] = IF d = s THEN NoConn ELSE attachment[d]
      BY <2>4, <3>1
    <3>3. CASE resumable[s]
      BY <2>4, <3>1, <3>2, <3>3
    <3>4. CASE ~resumable[s]
      BY <2>4, <3>1, <3>2, <3>4
    <3>. QED
      BY <3>3, <3>4
  <2>6. timers[s] = {}
    BY <2>1 DEF SessionInv, SessionsSound, TimerIsCurrent
  <2>7. STypeOK'
    <3>1. CASE resumable[s]
      BY <1>1, <2>1, <2>4, <3>1 DEF SessionInv, SessionsSound, STypeOK, Live
    <3>2. CASE ~resumable[s]
      BY <1>1, <2>1, <2>4, <3>2 DEF SessionInv, SessionsSound, STypeOK, Gone
    <3>. QED
      BY <3>1, <3>2
  <2>8. TimerIsCurrent'
    BY <2>1, <2>4, <2>5, <2>6 DEF SessionInv, SessionsSound, TimerIsCurrent
  <2>9. ResourcesFollowSession'
    <3>1. CASE resumable[s]
      BY <2>1, <2>4, <2>5, <3>1 DEF SessionInv, SessionsSound, ResourcesFollowSession, Live
    <3>2. CASE ~resumable[s]
      BY <2>1, <2>4, <2>5, <3>2 DEF SessionInv, SessionsSound, ResourcesFollowSession, Live
    <3>. QED
      BY <3>1, <3>2
  <2>10. BoundInv' /\ HolderInv'
    <3>1. \A x \in Conn : recordState'[x] = "none" <=> recordState[x] = "none"
      BY <2>1, <2>5
    <3>2. bound \in [Conn -> Conn \cup {NoConn}]
      BY DEF SessionInv, SessionsSound, STypeOK
    <3>3. BoundInv'
      BY <1>1, <1>2, <2>4, <3>1, <3>2 DEF SessionInv, BoundInv
    <3>4. HolderInv'
      BY <1>1 DEF SessionInv, HolderInv
    <3>. QED
      BY <3>3, <3>4
  <2>11. AttachInv'
    <3>1. \A x \in Conn : attachment[x] \in Conn \cup {NoConn}
      BY DEF SessionInv, SessionsSound, STypeOK
    <3>2. ASSUME NEW x \in Conn
          PROVE  /\ recordState'[x] = "attached" <=> attachment'[x] # NoConn
                 /\ attachment'[x] # NoConn =>
                      /\ bound'[attachment'[x]] = x /\ boundEpoch'[attachment'[x]] = epoch'[x]
                      /\ ~fenced'[attachment'[x]]
      BY <1>1, <2>1, <2>4, <2>5, <3>1 DEF SessionInv, AttachInv
    <3>3. ASSUME NEW x \in Conn, NEW d \in Conn, bound'[d] = x, boundEpoch'[d] = epoch'[x],
                 recordState'[x] = "disconnected"
          PROVE  transport'[d] # "open"
      <4>1. bound[d] = x /\ boundEpoch[d] = epoch[x]
        BY <1>1, <2>4, <3>3
      <4>2. CASE x = s
        <5>1. d = c
          BY <2>1, <2>3, <4>1, <4>2 DEF SessionInv, HolderInv
        <5>. QED
          BY <1>2, <5>1
      <4>3. CASE x # s
        BY <1>2, <2>5, <3>3, <4>1, <4>3 DEF SessionInv, AttachInv
      <4>. QED
        BY <4>2, <4>3
    <3>. QED
      BY <3>2, <3>3 DEF AttachInv
  <2>12. LifeInv'
    <3>1. ~managerGone /\ ~failed /\ ~stoppedLocus
      BY <1>1, <2>1 DEF SessionInv, LifeInv, Live
    <3>. QED
      BY <1>1, <3>1 DEF LifeInv
  <2>. QED
    BY <1>3, <2>7, <2>8, <2>9, <2>10, <2>11, <2>12, Regained
<1>. QED
  BY <1>4, <1>5

LEMMA Expires ==
  ASSUME SessionInv, NEW s \in Session, Expire(s)
  PROVE  SessionInv'
<1>. USE DEF Session
<1>1. PICK e \in timers[s] : timers' = [timers EXCEPT ![s] = timers[s] \ {e}]
  BY DEF Expire
<1>2. recordState[s] = "disconnected" /\ timers[s] = {epoch[s]} /\ fencing = NotFencing
  BY <1>1 DEF SessionInv, SessionsSound, TimerIsCurrent, Expire
<1>3. /\ recordState' = [recordState EXCEPT ![s] = "expired"]
      /\ synced' = synced \ {s} /\ subscribed' = subscribed \ {s} /\ retained' = retained \ {s}
      /\ sender' = [x \in Conn |-> IF x \in {s} THEN NoConn ELSE sender[x]]
      /\ UNCHANGED <<principal, transport, fenced, bound, boundEpoch, held>>
      /\ UNCHANGED <<resumable, epoch, attachment, fencing>>
      /\ UNCHANGED <<managerGone, failed, stoppedLocus>>
  BY <1>2 DEF Expire, FreeResources, connVars, lifeVars
<1>4. \A d \in Conn : /\ recordState'[d] = IF d = s THEN "expired" ELSE recordState[d]
                      /\ timers'[d] = IF d = s THEN {} ELSE timers[d]
                      /\ sender'[d] = IF d = s THEN NoConn ELSE sender[d]
  BY <1>1, <1>2, <1>3 DEF SessionInv, SessionsSound, STypeOK
<1>5. STypeOK'
  BY <1>1, <1>3 DEF SessionInv, SessionsSound, STypeOK, Gone
<1>6. TimerIsCurrent'
  BY <1>3, <1>4 DEF SessionInv, SessionsSound, TimerIsCurrent
<1>7. ResourcesFollowSession'
  BY <1>3, <1>4 DEF SessionInv, SessionsSound, ResourcesFollowSession, Live
<1>8. BoundInv' /\ HolderInv'
  <2>1. \A x \in Conn : recordState'[x] = "none" <=> recordState[x] = "none"
    BY <1>2, <1>4
  <2>2. bound \in [Conn -> Conn \cup {NoConn}]
    BY DEF SessionInv, SessionsSound, STypeOK
  <2>3. BoundInv'
    BY <1>3, <2>1, <2>2 DEF SessionInv, BoundInv
  <2>4. HolderInv'
    BY <1>3 DEF SessionInv, HolderInv
  <2>. QED
    BY <2>3, <2>4
<1>9. AttachInv'
  BY <1>2, <1>3, <1>4 DEF SessionInv, AttachInv
<1>10. FencingInv'
  BY <1>2, <1>3 DEF FencingInv
<1>11. LifeInv'
  BY <1>3, <1>4 DEF SessionInv, LifeInv, Live
<1>. QED
  BY <1>5, <1>6, <1>7, <1>8, <1>9, <1>10, <1>11, Regained

LEMMA Subscribes ==
  ASSUME SessionInv, NEW c \in Conn, Subscribe(c)
  PROVE  SessionInv'
<1>1. /\ bound[c] \in synced
      /\ subscribed' = (IF bound[c] \in subscribed
                        THEN subscribed \ {bound[c]} ELSE subscribed \cup {bound[c]})
      /\ UNCHANGED <<principal, transport, fenced, bound, boundEpoch, held>>
      /\ UNCHANGED <<recordState, resumable, epoch, attachment, timers, synced, sender, retained, fencing>>
      /\ UNCHANGED <<managerGone, failed, stoppedLocus>>
  BY DEF Subscribe, connVars, lifeVars
<1>2. STypeOK'
  BY <1>1 DEF SessionInv, SessionsSound, STypeOK
<1>3. TimerIsCurrent' /\ ResourcesFollowSession'
  BY <1>1 DEF SessionInv, SessionsSound, TimerIsCurrent, ResourcesFollowSession
<1>4. BoundInv' /\ HolderInv' /\ AttachInv' /\ LifeInv'
  BY <1>1 DEF SessionInv, BoundInv, HolderInv, AttachInv, LifeInv
<1>5. FencingInv'
  BY <1>1 DEF SessionInv, FencingInv
<1>. QED
  BY <1>2, <1>3, <1>4, <1>5, Regained

\* sessions.dispose(): the invariant without what the connections do meanwhile.
LEMMA Revokes ==
  ASSUME SessionInv, RevokeAll, fencing = NotFencing, managerGone' = TRUE,
         UNCHANGED <<principal, fenced, bound, boundEpoch, fencing>>,
         failed' \in BOOLEAN, stoppedLocus' \in BOOLEAN,
         transport' \in [Conn -> {"none", "open", "closed", "inert"}], held' \in SUBSET Conn,
         \A d \in Conn : transport[d] \in {"open", "closed"} => transport'[d] \in {"open", "closed"},
         failed' \/ stoppedLocus' => \A d \in Conn : transport'[d] # "open"
  PROVE  SessionInv'
<1>. USE DEF Session
<1>1. /\ recordState' = [s \in Conn |-> IF recordState[s] \in Live THEN "revoked" ELSE recordState[s]]
      /\ attachment' = [s \in Conn |-> NoConn]
      /\ timers' = [s \in Conn |-> {}]
      /\ synced' = synced \ Conn /\ subscribed' = subscribed \ Conn /\ retained' = retained \ Conn
      /\ sender' = [s \in Conn |-> IF s \in Conn THEN NoConn ELSE sender[s]]
      /\ UNCHANGED <<resumable, epoch>>
  BY DEF RevokeAll, FreeResources
<1>2. STypeOK'
  BY <1>1 DEF SessionInv, SessionsSound, STypeOK, Live, Gone
<1>3. /\ synced' = {} /\ retained' = {}
      /\ \A s \in Conn : /\ recordState'[s] \notin Live /\ attachment'[s] = NoConn /\ timers'[s] = {}
                         /\ recordState'[s] = "none" <=> recordState[s] = "none"
  BY <1>1 DEF SessionInv, SessionsSound, STypeOK, Live
<1>4. TimerIsCurrent' /\ ResourcesFollowSession'
  BY <1>3 DEF TimerIsCurrent, ResourcesFollowSession
<1>5. BoundInv'
  <2>1. bound \in [Conn -> Conn \cup {NoConn}]
    BY DEF SessionInv, SessionsSound, STypeOK
  <2>. QED
    BY <1>1, <1>3, <2>1 DEF SessionInv, BoundInv
<1>6. HolderInv'
  BY DEF SessionInv, HolderInv
<1>7. AttachInv'
  BY <1>3 DEF AttachInv, Live
<1>8. FencingInv'
  BY DEF FencingInv
<1>9. LifeInv'
  BY <1>3 DEF LifeInv
<1>. QED
  BY <1>2, <1>4, <1>5, <1>6, <1>7, <1>8, <1>9, Regained

\* What ShutdownConnections does.
LEMMA ShutsDown ==
  ASSUME STypeOK, ShutdownConnections
  PROVE  /\ transport' \in [Conn -> {"none", "open", "closed", "inert"}] /\ held' \in SUBSET Conn
         /\ \A d \in Conn : /\ transport'[d] # "open"
                            /\ transport[d] \in {"open", "closed"} => transport'[d] \in {"open", "closed"}
         /\ UNCHANGED <<fenced, bound, boundEpoch>>
BY DEF STypeOK, ShutdownConnections

LEMMA DisposesSessions ==
  ASSUME SessionInv, DisposeSessions
  PROVE  SessionInv'
<1>1. /\ fencing = NotFencing /\ managerGone' = TRUE /\ RevokeAll /\ ~managerGone
      /\ UNCHANGED <<principal, fenced, bound, boundEpoch, fencing>>
      /\ UNCHANGED <<transport, held, failed, stoppedLocus>>
  BY DEF DisposeSessions, connVars
<1>2. /\ transport \in [Conn -> {"none", "open", "closed", "inert"}] /\ held \in SUBSET Conn
      /\ failed \in BOOLEAN /\ stoppedLocus \in BOOLEAN
  BY DEF SessionInv, SessionsSound, STypeOK
<1>3. failed \/ stoppedLocus => \A d \in Conn : transport[d] # "open"
  BY DEF SessionInv, LifeInv
<1>. QED
  BY <1>1, <1>2, <1>3, Revokes

LEMMA Fails ==
  ASSUME SessionInv, Fail
  PROVE  SessionInv'
<1>. USE DEF Session
<1>1. /\ fencing = NotFencing /\ failed' = TRUE /\ ShutdownConnections
      /\ UNCHANGED <<principal, fencing, managerGone, stoppedLocus>>
      /\ UNCHANGED <<recordState, resumable, epoch, attachment, timers, synced, sender, subscribed, retained>>
  BY DEF Fail, sessVars
<1>2. /\ transport' \in [Conn -> {"none", "open", "closed", "inert"}] /\ held' \in SUBSET Conn
      /\ \A d \in Conn : /\ transport'[d] # "open"
                         /\ transport[d] \in {"open", "closed"} => transport'[d] \in {"open", "closed"}
      /\ UNCHANGED <<fenced, bound, boundEpoch>>
  BY <1>1, ShutsDown DEF SessionInv, SessionsSound
<1>3. STypeOK'
  BY <1>1, <1>2 DEF SessionInv, SessionsSound, STypeOK
<1>4. TimerIsCurrent' /\ ResourcesFollowSession'
  BY <1>1 DEF SessionInv, SessionsSound, TimerIsCurrent, ResourcesFollowSession
<1>5. BoundInv' /\ HolderInv' /\ AttachInv'
  BY <1>1, <1>2 DEF SessionInv, BoundInv, HolderInv, AttachInv
<1>6. FencingInv' /\ LifeInv'
  BY <1>1, <1>2 DEF SessionInv, FencingInv, LifeInv
<1>. QED
  BY <1>3, <1>4, <1>5, <1>6, Regained

LEMMA DisposesLocus ==
  ASSUME SessionInv, DisposeLocus
  PROVE  SessionInv'
<1>. USE DEF Session
<1>1. /\ fencing = NotFencing /\ stoppedLocus' = TRUE /\ managerGone' = TRUE /\ ShutdownConnections
      /\ UNCHANGED <<principal, fencing, failed>>
  BY DEF DisposeLocus
<1>2. /\ transport' \in [Conn -> {"none", "open", "closed", "inert"}] /\ held' \in SUBSET Conn
      /\ \A d \in Conn : /\ transport'[d] # "open"
                         /\ transport[d] \in {"open", "closed"} => transport'[d] \in {"open", "closed"}
      /\ UNCHANGED <<fenced, bound, boundEpoch>>
  BY <1>1, ShutsDown DEF SessionInv, SessionsSound
<1>3. CASE ~managerGone
  <2>1. RevokeAll /\ failed' \in BOOLEAN /\ stoppedLocus' \in BOOLEAN
    BY <1>1, <1>3 DEF DisposeLocus, SessionInv, SessionsSound, STypeOK
  <2>. QED
    BY <1>1, <1>2, <2>1, Revokes
<1>4. CASE managerGone
  <2>1. UNCHANGED <<recordState, resumable, epoch, attachment, timers, synced, sender, subscribed, retained>>
    BY <1>4 DEF DisposeLocus, sessVars
  <2>2. STypeOK'
    BY <1>1, <1>2, <2>1 DEF SessionInv, SessionsSound, STypeOK
  <2>3. TimerIsCurrent' /\ ResourcesFollowSession'
    BY <2>1 DEF SessionInv, SessionsSound, TimerIsCurrent, ResourcesFollowSession
  <2>4. BoundInv' /\ HolderInv' /\ AttachInv'
    BY <1>1, <1>2, <2>1 DEF SessionInv, BoundInv, HolderInv, AttachInv
  <2>5. FencingInv' /\ LifeInv'
    BY <1>1, <1>2, <1>4, <2>1 DEF SessionInv, FencingInv, LifeInv
  <2>. QED
    BY <2>2, <2>3, <2>4, <2>5, Regained
<1>. QED
  BY <1>3, <1>4

LEMMA SessionKeeps ==
  ASSUME SessionInv, [SessionStep]_sVars
  PROVE  SessionInv'
<1>1. CASE SessionStep
  BY <1>1, Connects, Binds, Reattaches, FinishesReattach, SaysGoodbye, Closes, Expires, Subscribes,
     DisposesSessions, Fails, DisposesLocus DEF SessionStep
<1>2. CASE UNCHANGED sVars
  <2>1. /\ UNCHANGED <<principal, transport, fenced, bound, boundEpoch, held, fencing>>
        /\ UNCHANGED <<recordState, resumable, epoch, attachment, timers, synced, sender, subscribed, retained>>
        /\ UNCHANGED <<managerGone, failed, stoppedLocus>>
    BY <1>2 DEF sVars, connVars, sessVars, lifeVars
  <2>2. STypeOK'
    BY <2>1 DEF SessionInv, SessionsSound, STypeOK
  <2>3. TimerIsCurrent' /\ ResourcesFollowSession'
    BY <2>1 DEF SessionInv, SessionsSound, TimerIsCurrent, ResourcesFollowSession
  <2>4. BoundInv' /\ HolderInv' /\ AttachInv'
    BY <2>1 DEF SessionInv, BoundInv, HolderInv, AttachInv
  <2>5. FencingInv' /\ LifeInv'
    BY <2>1 DEF SessionInv, FencingInv, LifeInv
  <2>. QED
    BY <2>2, <2>3, <2>4, <2>5, Regained
<1>. QED
  BY <1>1, <1>2

\* However connections bind, reattach, fence each other, say goodbye and close,
\* whenever timers fire, and whatever is disposed or fails: no two connections
\* speak for a session and the one that does is of its principal, the timer that
\* runs is the one of the last disconnection, and a session keeps its Locus and
\* what the sync manager has of it exactly while it lives.
THEOREM SessionsStaySound == SSpec => []SessionsSound
<1>1. SInit => SessionInv
  BY SessionInit
<1>2. SessionInv /\ [SessionStep]_sVars => SessionInv'
  BY SessionKeeps
<1>3. SessionInv => SessionsSound
  BY DEF SessionInv
<1>. QED
  BY <1>1, <1>2, <1>3, PTL DEF SSpec

-----------------------------------------------------------------------------
(* The sessions implement ConnectionAuthority: taking a session over, at    *)
(* once or after fencing, is CSpeak, a goodbye or an expiry is CEnd, and    *)
(* what the epochs exclude is what the abstract actions do not do.          *)

\* The transport of c closed and its session waits for somebody to come back.
Waits(c) ==
  bound[c] # NoConn /\ recordState[bound[c]] = "disconnected" /\ epoch[bound[c]] = boundEpoch[c]

LEMMA StandingIs ==
  ASSUME NEW c \in Conn
  PROVE  /\ transport[c] = "none" => StandingOf(c) = "none"
         /\ transport[c] = "open" /\ bound[c] = NoConn => StandingOf(c) = "open"
         /\ transport[c] = "open" /\ bound[c] # NoConn /\ Authoritative(c) => StandingOf(c) = "speaks"
         /\ transport[c] = "open" /\ bound[c] # NoConn /\ ~Authoritative(c) => StandingOf(c) = "lost"
         /\ transport[c] \notin {"none", "open"} /\ Waits(c) => StandingOf(c) = "away"
         /\ transport[c] \notin {"none", "open"} /\ ~Waits(c) => StandingOf(c) = "closed"
BY DEF StandingOf, Waits

LEMMA StandingIsNow ==
  ASSUME NEW c \in Conn
  PROVE  /\ transport'[c] = "none" => StandingOf(c)' = "none"
         /\ transport'[c] = "open" /\ bound'[c] = NoConn => StandingOf(c)' = "open"
         /\ transport'[c] = "open" /\ bound'[c] # NoConn /\ Authoritative(c)' => StandingOf(c)' = "speaks"
         /\ transport'[c] = "open" /\ bound'[c] # NoConn /\ ~Authoritative(c)' => StandingOf(c)' = "lost"
         /\ transport'[c] \notin {"none", "open"} /\ Waits(c)' => StandingOf(c)' = "away"
         /\ transport'[c] \notin {"none", "open"} /\ ~Waits(c)' => StandingOf(c)' = "closed"
BY DEF StandingOf, Waits

\* A step that touches neither a connection nor the session it is bound to
\* leaves it where it stands.
LEMMA StandsStill ==
  ASSUME NEW c \in Conn,
         transport'[c] = transport[c], bound'[c] = bound[c], boundEpoch'[c] = boundEpoch[c],
         fenced'[c] <=> fenced[c],
         bound[c] # NoConn => /\ recordState'[bound[c]] = recordState[bound[c]]
                              /\ epoch'[bound[c]] = epoch[bound[c]]
                              /\ attachment'[bound[c]] = attachment[bound[c]]
  PROVE  StandingOf(c)' = StandingOf(c)
<1>1. CASE bound[c] = NoConn
  BY <1>1 DEF StandingOf
<1>2. CASE bound[c] # NoConn
  <2>1. (Authoritative(c)' <=> Authoritative(c)) /\ (Waits(c)' <=> Waits(c))
    BY <1>2 DEF Authoritative, IsActive, Waits
  <2>. QED
    BY <1>2, <2>1, StandingIs, StandingIsNow
<1>. QED
  BY <1>1, <1>2

\* Who has an old epoch of its session neither speaks for it nor waits.
LEMMA OldEpoch ==
  ASSUME NEW c \in Conn, bound[c] # NoConn, epoch[bound[c]] # boundEpoch[c]
  PROVE  ~Authoritative(c) /\ ~Waits(c)
BY DEF Authoritative, IsActive, Waits

LEMMA AuthorityInit == SInit => Authority!CInit
<1>. SUFFICES ASSUME SInit PROVE Authority!CInit
  OBVIOUS
<1>1. \A c \in Conn : StandingOf(c) = "none"
  BY StandingIs DEF SInit
<1>. QED
  BY <1>1 DEF SInit, Authority!CInit

LEMMA ConnectOpens ==
  ASSUME SessionInv, NEW c \in Conn, Connect(c)
  PROVE  Authority!COpen(c)
<1>1. /\ transport[c] = "none"
      /\ IF stoppedLocus \/ failed THEN transport' = [transport EXCEPT ![c] = "inert"]
         ELSE transport' = [transport EXCEPT ![c] = "open"]
      /\ UNCHANGED <<fenced, bound, boundEpoch, recordState, epoch, attachment>>
      /\ UNCHANGED <<managerGone, failed, stoppedLocus>>
  BY DEF Connect, sessVars, lifeVars
<1>2. bound[c] = NoConn
  BY <1>1 DEF SessionInv, BoundInv
<1>3. transport \in [Conn -> {"none", "open", "closed", "inert"}]
  BY DEF SessionInv, SessionsSound, STypeOK
<1>4. \A d \in Conn : d # c => StandingOf(d)' = StandingOf(d)
  BY <1>1, <1>3, StandsStill
<1>5. StandingOf(c) = "none" /\ StandingOf(c)' = (IF stoppedLocus \/ failed THEN "closed" ELSE "open")
  BY <1>1, <1>2, <1>3, StandingIs, StandingIsNow DEF Waits
<1>. QED
  BY <1>1, <1>4, <1>5 DEF Authority!COpen

\* Where a connection stands, by its transport and what it is bound to.
LEMMA StandingBound ==
  ASSUME SessionInv, NEW c \in Conn
  PROVE  /\ bound[c] # NoConn => transport[c] \in {"open", "closed"}
         /\ StandingOf(c) = "none" <=> transport[c] = "none"
         /\ StandingOf(c) = "open" <=> transport[c] = "open" /\ bound[c] = NoConn
         /\ StandingOf(c) = "away" => transport[c] = "closed" /\ Waits(c)
         /\ StandingOf(c) = "speaks" => Authoritative(c)
<1>1. transport[c] \in {"none", "open", "closed", "inert"}
  BY DEF SessionInv, SessionsSound, STypeOK
<1>2. bound[c] # NoConn => transport[c] \in {"open", "closed"}
  BY DEF SessionInv, BoundInv
<1>. QED
  BY <1>1, <1>2, StandingIs DEF Waits

LEMMA BindSpeaks ==
  ASSUME SessionInv, NEW c \in Conn, NEW resume \in BOOLEAN, Bind(c, resume)
  PROVE  Authority!CSpeak(c, c)
<1>1. /\ transport[c] = "open" /\ ~fenced[c] /\ bound[c] = NoConn /\ ~managerGone
      /\ recordState' = [recordState EXCEPT ![c] = "attached"]
      /\ epoch' = [epoch EXCEPT ![c] = 1]
      /\ attachment' = [attachment EXCEPT ![c] = c]
      /\ bound' = [bound EXCEPT ![c] = c] /\ boundEpoch' = [boundEpoch EXCEPT ![c] = 1]
      /\ UNCHANGED <<transport, fenced, managerGone, failed, stoppedLocus>>
  BY DEF Bind, CreateSession, lifeVars
<1>2. c # NoConn /\ \A d \in Conn : bound[d] # c
  BY <1>1, ConnAssumption DEF SessionInv, BoundInv, Session
<1>3. ~failed /\ ~stoppedLocus
  BY <1>1 DEF SessionInv, LifeInv
<1>4. \A d \in Conn : /\ d # c => bound'[d] = bound[d] /\ boundEpoch'[d] = boundEpoch[d]
                      /\ bound[d] # NoConn => bound[d] \in Conn
  BY <1>1 DEF SessionInv, SessionsSound, STypeOK, Session
<1>5. ASSUME NEW d \in Conn, d # c PROVE StandingOf(d)' = StandingOf(d)
  <2>1. bound[d] # NoConn => /\ recordState'[bound[d]] = recordState[bound[d]]
                             /\ epoch'[bound[d]] = epoch[bound[d]]
                             /\ attachment'[bound[d]] = attachment[bound[d]]
    BY <1>1, <1>2, <1>4, <1>5 DEF SessionInv, SessionsSound, STypeOK, Session
  <2>. QED
    BY <1>1, <1>4, <1>5, <2>1, StandsStill
<1>6. StandingOf(c) = "open"
  BY <1>1, StandingIs
<1>7. StandingOf(c)' = "speaks"
  <2>1. /\ recordState'[c] = "attached" /\ epoch'[c] = 1 /\ attachment'[c] = c
        /\ bound'[c] = c /\ boundEpoch'[c] = 1
    BY <1>1 DEF SessionInv, SessionsSound, STypeOK, Session
  <2>2. Authoritative(c)'
    BY <1>1, <1>2, <2>1 DEF Authoritative, IsActive
  <2>. QED
    BY <1>1, <1>2, <2>1, <2>2, StandingIsNow
<1>. QED
  BY <1>1, <1>2, <1>3, <1>5, <1>6, <1>7 DEF Authority!CSpeak

\* Taking a session over: who had it, active or away, loses it.
LEMMA TakeOverSpeaks ==
  ASSUME SessionInv, NEW c \in Conn, NEW s \in Session, NEW others, TakeOver(c, s, others),
         c \notin others, transport[c] = "open", ~fenced[c], bound[c] = NoConn, ~managerGone,
         \A d \in others : bound[d] = s
  PROVE  Authority!CSpeak(c, s)
<1>1. /\ epoch' = [epoch EXCEPT ![s] = epoch[s] + 1]
      /\ attachment' = [attachment EXCEPT ![s] = c]
      /\ recordState' = [recordState EXCEPT ![s] = "attached"]
      /\ bound' = [bound EXCEPT ![c] = s]
      /\ boundEpoch' = [boundEpoch EXCEPT ![c] = epoch[s] + 1]
      /\ fenced' = [d \in Conn |-> fenced[d] \/ d \in others]
      /\ UNCHANGED <<transport, managerGone, failed, stoppedLocus>>
  BY DEF TakeOver, lifeVars
<1>2. s # NoConn /\ c # NoConn /\ s \in Conn
  BY ConnAssumption DEF Session
<1>3. ~failed /\ ~stoppedLocus
  BY DEF SessionInv, LifeInv
<1>4. \A d \in Conn : /\ recordState'[d] = IF d = s THEN "attached" ELSE recordState[d]
                      /\ epoch'[d] = IF d = s THEN epoch[s] + 1 ELSE epoch[d]
                      /\ attachment'[d] = IF d = s THEN c ELSE attachment[d]
                      /\ bound'[d] = IF d = c THEN s ELSE bound[d]
                      /\ boundEpoch'[d] = IF d = c THEN epoch[s] + 1 ELSE boundEpoch[d]
                      /\ fenced'[d] <=> fenced[d] \/ d \in others
                      /\ bound[d] # NoConn => bound[d] \in Conn
  BY <1>1 DEF SessionInv, SessionsSound, STypeOK, Session
<1>5. ASSUME NEW d \in Conn, d # c, bound[d] # s PROVE StandingOf(d)' = StandingOf(d)
  <2>1. bound[d] # NoConn => /\ recordState'[bound[d]] = recordState[bound[d]]
                             /\ epoch'[bound[d]] = epoch[bound[d]]
                             /\ attachment'[bound[d]] = attachment[bound[d]]
    BY <1>4, <1>5
  <2>. QED
    BY <1>1, <1>4, <1>5, <2>1, StandsStill
<1>6. ASSUME NEW d \in Conn, d # c, bound[d] = s
      PROVE  StandingOf(d)' = Authority!Bereft(StandingOf(d))
  <2>1. transport[d] \in {"open", "closed"} /\ StandingOf(d) \in {"speaks", "lost", "away", "closed"}
        /\ (transport[d] = "open" <=> StandingOf(d) \in {"speaks", "lost"})
    BY <1>2, <1>6, StandingIs, StandingBound
  <2>2. bound'[d] = s /\ epoch'[s] # boundEpoch'[d]
    <3>1. boundEpoch[d] <= epoch[s] /\ boundEpoch[d] \in Nat /\ epoch[s] \in Nat
      BY <1>2, <1>6 DEF SessionInv, BoundInv, SessionsSound, STypeOK
    <3>2. epoch[s] + 1 # boundEpoch[d]
      BY <3>1
    <3>. QED
      BY <1>2, <1>4, <1>6, <3>2
  <2>3. ~Authoritative(d)' /\ ~Waits(d)'
    BY <2>2 DEF Authoritative, IsActive, Waits
  <2>4. StandingOf(d)' = (IF transport[d] = "open" THEN "lost" ELSE "closed")
    BY <1>1, <1>2, <2>1, <2>2, <2>3, StandingIsNow
  <2>. QED
    BY <2>1, <2>4 DEF Authority!Bereft
<1>7. StandingOf(c) = "open"
  BY StandingIs
<1>8. StandingOf(c)' = "speaks"
  <2>1. Authoritative(c)' /\ bound'[c] # NoConn
    BY <1>1, <1>2, <1>4 DEF Authoritative, IsActive
  <2>. QED
    BY <1>1, <2>1, StandingIsNow
<1>. QED
  BY <1>1, <1>3, <1>5, <1>6, <1>7, <1>8 DEF Authority!CSpeak

\* The other connections of the session of an active one have old epochs.
LEMMA OthersAreOld ==
  ASSUME SessionInv, NEW c \in Conn, NEW d \in Conn, bound[c] # NoConn,
         boundEpoch[c] = epoch[bound[c]], d # c, bound[d] = bound[c]
  PROVE  epoch[bound[d]] # boundEpoch[d] /\ bound[d] # NoConn
BY DEF SessionInv, HolderInv

\* A connection that has an old epoch, before and after, stands where it stood.
LEMMA StaysOld ==
  ASSUME SessionInv, NEW d \in Conn, bound[d] # NoConn, epoch[bound[d]] # boundEpoch[d],
         transport'[d] = transport[d], bound'[d] = bound[d], boundEpoch'[d] = boundEpoch[d],
         epoch'[bound[d]] = epoch[bound[d]]
  PROVE  StandingOf(d)' = StandingOf(d)
<1>1. ~Authoritative(d) /\ ~Waits(d) /\ ~Authoritative(d)' /\ ~Waits(d)'
  BY DEF Authoritative, IsActive, Waits
<1>2. transport[d] \in {"open", "closed"}
  BY StandingBound
<1>. QED
  BY <1>1, <1>2, StandingIs, StandingIsNow

LEMMA GoodbyeEnds ==
  ASSUME SessionInv, NEW c \in Conn, Goodbye(c)
  PROVE  Authority!CEnd(c)
<1>. DEFINE s == bound[c]
<1>1. transport[c] = "open" /\ ~fenced[c] /\ IsActive(c) /\ Authoritative(c)
  BY DEF Goodbye, Authoritative
<1>2. s \in Conn /\ s # NoConn /\ epoch[s] = boundEpoch[c]
  BY <1>1, ActiveIsAttached, ConnAssumption DEF Session
<1>3. /\ attachment' = [attachment EXCEPT ![s] = NoConn]
      /\ recordState' = [recordState EXCEPT ![s] = "revoked"]
      /\ fenced' = [fenced EXCEPT ![c] = TRUE]
      /\ UNCHANGED <<transport, bound, boundEpoch, epoch>>
      /\ UNCHANGED <<managerGone, failed, stoppedLocus>>
  BY DEF Goodbye, lifeVars
<1>4. StandingOf(c) = "speaks" /\ StandingOf(c)' = "lost"
  <2>1. fenced'[c]
    BY <1>3 DEF SessionInv, SessionsSound, STypeOK
  <2>2. ~Authoritative(c)'
    BY <2>1 DEF Authoritative
  <2>. QED
    BY <1>1, <1>2, <1>3, <2>2, StandingIs, StandingIsNow
<1>5. ASSUME NEW d \in Conn, d # c PROVE StandingOf(d)' = StandingOf(d)
  <2>1. CASE bound[d] = s
    BY <1>2, <1>3, <1>5, <2>1, OthersAreOld, StaysOld
  <2>2. CASE bound[d] # s
    <3>1. /\ fenced'[d] <=> fenced[d]
          /\ bound[d] # NoConn => recordState'[bound[d]] = recordState[bound[d]]
                                  /\ attachment'[bound[d]] = attachment[bound[d]]
      BY <1>3, <1>5, <2>2 DEF SessionInv, SessionsSound, STypeOK, Session
    <3>. QED
      BY <1>3, <3>1, StandsStill
  <2>. QED
    BY <2>1, <2>2
<1>. QED
  BY <1>3, <1>4, <1>5 DEF Authority!CEnd, Authority!Bereft

\* A close takes away what the connection had, or lets its session wait.
LEMMA CloseCloses ==
  ASSUME SessionInv, NEW c \in Conn, Close(c)
  PROVE  Authority!CClose(c)
<1>. DEFINE s == bound[c]
<1>1. /\ transport[c] = "open" /\ transport' = [transport EXCEPT ![c] = "closed"]
      /\ UNCHANGED <<fenced, bound, boundEpoch>>
      /\ UNCHANGED <<managerGone, failed, stoppedLocus>>
  BY DEF Close, lifeVars
<1>2. /\ transport'[c] = "closed"
      /\ \A d \in Conn : d # c => transport'[d] = transport[d]
  BY <1>1 DEF SessionInv, SessionsSound, STypeOK
<1>3. StandingOf(c) \in {"open", "speaks", "lost"}
  BY <1>1, StandingIs
<1>4. StandingOf(c)' \in {"away", "closed"}
  BY <1>2, StandingIsNow
<1>5. CASE ~IsActive(c)
  <2>1. UNCHANGED <<recordState, epoch, attachment>>
    BY <1>5 DEF Close, sessVars
  <2>2. ~Waits(c)'
    <3>1. ~Waits(c)
      BY <1>1 DEF Waits, SessionInv, AttachInv, SessionsSound, STypeOK, Session
    <3>. QED
      BY <1>1, <2>1, <3>1 DEF Waits
  <2>3. StandingOf(c)' = "closed"
    BY <1>2, <2>2, StandingIsNow
  <2>4. \A d \in Conn : d # c => StandingOf(d)' = StandingOf(d)
    BY <1>1, <1>2, <2>1, StandsStill
  <2>. QED
    BY <1>1, <1>3, <2>3, <2>4 DEF Authority!CClose
<1>6. CASE IsActive(c)
  <2>1. s \in Conn /\ s # NoConn /\ epoch[s] = boundEpoch[c] /\ ~fenced[c]
    BY <1>6, ActiveIsAttached, ConnAssumption DEF Session
  <2>2. /\ attachment' = [attachment EXCEPT ![s] = NoConn]
        /\ epoch' = epoch
        /\ \E to \in {"disconnected", "expired"} : recordState' = [recordState EXCEPT ![s] = to]
    BY <1>6 DEF Close, DetachSession
  <2>3. StandingOf(c) = "speaks"
    BY <1>1, <1>6, <2>1, StandingIs DEF Authoritative
  <2>4. ASSUME NEW d \in Conn, d # c PROVE StandingOf(d)' = StandingOf(d)
    <3>1. CASE bound[d] = s
      BY <1>1, <1>2, <2>1, <2>2, <2>4, <3>1, OthersAreOld, StaysOld
    <3>2. CASE bound[d] # s
      <4>1. bound[d] # NoConn => recordState'[bound[d]] = recordState[bound[d]]
                                 /\ attachment'[bound[d]] = attachment[bound[d]]
        BY <2>2, <3>2 DEF SessionInv, SessionsSound, STypeOK, Session
      <4>. QED
        BY <1>1, <1>2, <2>2, <2>4, <4>1, StandsStill
    <3>. QED
      BY <3>1, <3>2
  <2>. QED
    BY <1>1, <1>4, <2>3, <2>4 DEF Authority!CClose
<1>. QED
  BY <1>5, <1>6

\* An expiry ends the session for the one connection that could have come back
\* to it; if that one has been shut down in another way, nothing changes.
LEMMA ExpireEnds ==
  ASSUME SessionInv, NEW s \in Session, Expire(s)
  PROVE  [Authority!CNext]_(Authority!authorityVars)
<1>1. recordState[s] = "disconnected" /\ s \in Conn
  BY DEF SessionInv, SessionsSound, TimerIsCurrent, Expire, Session
<1>2. /\ recordState' = [recordState EXCEPT ![s] = "expired"]
      /\ UNCHANGED <<transport, fenced, bound, boundEpoch, epoch, attachment>>
      /\ UNCHANGED <<managerGone, failed, stoppedLocus>>
  BY <1>1 DEF Expire, connVars, lifeVars
<1>3. recordState'[s] = "expired" /\ \A x \in Conn : x # s => recordState'[x] = recordState[x]
  BY <1>1, <1>2 DEF SessionInv, SessionsSound, STypeOK, Session
<1>4. ASSUME NEW d \in Conn, bound[d] # s PROVE StandingOf(d)' = StandingOf(d)
  <2>1. bound[d] # NoConn => recordState'[bound[d]] = recordState[bound[d]]
    BY <1>3, <1>4 DEF SessionInv, SessionsSound, STypeOK, Session
  <2>. QED
    BY <1>2, <2>1, StandsStill
<1>5. ASSUME NEW d \in Conn, bound[d] = s, boundEpoch[d] # epoch[s]
      PROVE  StandingOf(d)' = StandingOf(d)
  BY <1>1, <1>2, <1>5, StaysOld, ConnAssumption
<1>6. CASE \E c \in Conn : bound[c] = s /\ boundEpoch[c] = epoch[s]
  <2>1. PICK c \in Conn : bound[c] = s /\ boundEpoch[c] = epoch[s]
    BY <1>6
  <2>2. transport[c] = "closed" /\ s # NoConn
    BY <1>1, <2>1, ConnAssumption DEF SessionInv, AttachInv, BoundInv, Session
  <2>3. Waits(c) /\ ~Waits(c)'
    BY <1>1, <1>2, <1>3, <2>1, <2>2 DEF Waits
  <2>4. StandingOf(c) = "away" /\ StandingOf(c)' = "closed"
    BY <1>2, <2>2, <2>3, StandingIs, StandingIsNow
  <2>5. ASSUME NEW d \in Conn, d # c PROVE StandingOf(d)' = StandingOf(d)
    <3>1. bound[d] = s => boundEpoch[d] # epoch[s]
      BY <2>1, <2>2, <2>5 DEF SessionInv, HolderInv
    <3>. QED
      BY <1>4, <1>5, <3>1
  <2>6. Authority!CEnd(c)
    BY <1>2, <2>4, <2>5 DEF Authority!CEnd, Authority!Bereft
  <2>. QED
    BY <2>6 DEF Authority!CNext
<1>7. CASE ~\E c \in Conn : bound[c] = s /\ boundEpoch[c] = epoch[s]
  <2>1. \A d \in Conn : StandingOf(d)' = StandingOf(d)
    BY <1>4, <1>5, <1>7
  <2>. QED
    BY <1>2, <2>1 DEF Authority!authorityVars
<1>. QED
  BY <1>6, <1>7

\* When every session is revoked, nobody speaks and nobody waits.
LEMMA RevokedStanding ==
  ASSUME SessionInv, RevokeAll, bound' = bound, NEW c \in Conn
  PROVE  ~Authoritative(c)' /\ ~Waits(c)'
<1>1. \A x \in Conn : recordState'[x] \notin {"attached", "disconnected"}
  BY DEF RevokeAll, Live, Session, SessionInv, SessionsSound, STypeOK
<1>2. bound[c] # NoConn => bound[c] \in Conn
  BY DEF SessionInv, SessionsSound, STypeOK, Session
<1>. QED
  BY <1>1, <1>2 DEF Authoritative, IsActive, Waits

\* Every connection that was made is closed.
LEMMA StopsAll ==
  ASSUME failed' \/ stoppedLocus', bound' = bound,
         \A d \in Conn : StandingOf(d)' = IF StandingOf(d) = "none" THEN "none" ELSE "closed"
  PROVE  Authority!CStopAll
<1>1. PICK waits \in SUBSET {d \in Conn : StandingOf(d) = "away"} : waits = {}
  OBVIOUS
<1>2. \A d \in Conn : StandingOf(d)' = IF d \in waits \/ StandingOf(d) = "none" THEN StandingOf(d)
                                      ELSE "closed"
  BY <1>1
<1>. QED
  BY <1>1, <1>2 DEF Authority!CStopAll

LEMMA DisposeSessionsStops ==
  ASSUME SessionInv, DisposeSessions
  PROVE  Authority!CStopSessions \/ Authority!CStopAll
<1>1. /\ ~managerGone /\ managerGone' = TRUE /\ RevokeAll
      /\ UNCHANGED <<transport, fenced, bound, boundEpoch, failed, stoppedLocus>>
  BY DEF DisposeSessions, connVars
<1>2. ~stoppedLocus
  BY <1>1 DEF SessionInv, LifeInv
<1>3. \A d \in Conn : transport[d] \in {"none", "open", "closed", "inert"}
  BY DEF SessionInv, SessionsSound, STypeOK
<1>4. CASE ~failed
  <2>1. ASSUME NEW d \in Conn
        PROVE  StandingOf(d)' = IF StandingOf(d) = "speaks" THEN "lost"
                                ELSE IF StandingOf(d) = "away" THEN "closed" ELSE StandingOf(d)
    <3>1. CASE transport[d] = "none"
      BY <1>1, <3>1, StandingIs, StandingIsNow
    <3>2. CASE transport[d] = "open" /\ bound[d] = NoConn
      BY <1>1, <3>2, StandingIs, StandingIsNow
    <3>3. CASE transport[d] = "open" /\ bound[d] # NoConn
      <4>1. StandingOf(d)' = "lost" /\ StandingOf(d) \in {"speaks", "lost"}
        BY <1>1, <3>3, RevokedStanding, StandingIs, StandingIsNow
      <4>. QED
        BY <4>1
    <3>4. CASE transport[d] \in {"closed", "inert"}
      <4>1. StandingOf(d)' = "closed" /\ StandingOf(d) \in {"away", "closed"}
        BY <1>1, <3>4, RevokedStanding, StandingIs, StandingIsNow
      <4>. QED
        BY <4>1
    <3>5. transport[d] \in {"none", "open", "closed", "inert"}
      BY <1>3
    <3>. QED
      BY <3>1, <3>2, <3>3, <3>4, <3>5
  <2>2. Authority!CStopSessions
    BY <1>1, <1>2, <1>4, <2>1 DEF Authority!CStopSessions, Authority!Bereft
  <2>. QED
    BY <2>2
<1>5. CASE failed
  <2>1. \A d \in Conn : transport[d] # "open"
    BY <1>5 DEF SessionInv, LifeInv
  <2>2. ASSUME NEW d \in Conn
        PROVE  StandingOf(d)' = IF StandingOf(d) = "none" THEN "none" ELSE "closed"
    <3>1. CASE transport[d] = "none"
      BY <1>1, <3>1, StandingIs, StandingIsNow
    <3>2. CASE transport[d] \in {"closed", "inert"}
      <4>1. StandingOf(d)' = "closed" /\ StandingOf(d) \in {"away", "closed"}
        BY <1>1, <3>2, RevokedStanding, StandingIs, StandingIsNow
      <4>. QED
        BY <4>1
    <3>. QED
      BY <1>3, <2>1, <3>1, <3>2
  <2>3. Authority!CStopAll
    BY <1>1, <1>5, <2>2, StopsAll
  <2>. QED
    BY <2>3
<1>. QED
  BY <1>4, <1>5

LEMMA FailStops ==
  ASSUME SessionInv, Fail
  PROVE  Authority!CStopAll
<1>1. /\ failed' = TRUE /\ ShutdownConnections
      /\ UNCHANGED <<recordState, epoch, attachment>>
      /\ UNCHANGED <<managerGone, stoppedLocus>>
  BY DEF Fail, sessVars
<1>2. /\ UNCHANGED <<fenced, bound, boundEpoch>>
      /\ \A c \in Conn : transport'[c] = IF transport[c] = "open" THEN "closed" ELSE transport[c]
  BY <1>1 DEF ShutdownConnections
<1>3. ASSUME NEW c \in Conn
      PROVE  StandingOf(c)' = IF StandingOf(c) \in {"none", "away"} THEN StandingOf(c) ELSE "closed"
  <2>1. Waits(c)' <=> Waits(c)
    BY <1>1, <1>2 DEF Waits
  <2>2. transport[c] = "open" => ~Waits(c)
    BY DEF Waits, SessionInv, AttachInv, SessionsSound, STypeOK, Session
  <2>3. transport[c] \in {"none", "open", "closed", "inert"}
    BY DEF SessionInv, SessionsSound, STypeOK
  <2>4. CASE transport[c] = "none"
    BY <1>2, <2>4, StandingIs, StandingIsNow
  <2>5. CASE transport[c] = "open"
    <3>1. StandingOf(c) \in {"open", "speaks", "lost"} /\ StandingOf(c)' = "closed"
      BY <1>2, <2>1, <2>2, <2>5, StandingIs, StandingIsNow
    <3>. QED
      BY <3>1
  <2>6. CASE transport[c] \in {"closed", "inert"}
    BY <1>2, <2>1, <2>6, StandingIs, StandingIsNow
  <2>. QED
    BY <2>3, <2>4, <2>5, <2>6
<1>4. PICK waits \in SUBSET Conn : waits = {c \in Conn : StandingOf(c) = "away"}
  OBVIOUS
<1>5. \A c \in Conn : StandingOf(c)' = IF c \in waits \/ StandingOf(c) = "none" THEN StandingOf(c)
                                      ELSE "closed"
  BY <1>3, <1>4
<1>. QED
  BY <1>1, <1>2, <1>4, <1>5 DEF Authority!CStopAll

LEMMA DisposeLocusStops ==
  ASSUME SessionInv, DisposeLocus
  PROVE  Authority!CStopAll
<1>1. stoppedLocus' = TRUE /\ ShutdownConnections
  BY DEF DisposeLocus
<1>2. /\ UNCHANGED <<fenced, bound, boundEpoch>>
      /\ \A c \in Conn : /\ transport'[c] = IF transport[c] = "open" THEN "closed" ELSE transport[c]
                         /\ transport[c] \in {"none", "open", "closed", "inert"}
  BY <1>1 DEF ShutdownConnections, SessionInv, SessionsSound, STypeOK
<1>3. ASSUME NEW c \in Conn PROVE ~Waits(c)'
  <2>1. CASE ~managerGone
    BY <1>2, <2>1, RevokedStanding DEF DisposeLocus
  <2>2. CASE managerGone
    <3>1. recordState' = recordState
      BY <2>2 DEF DisposeLocus, sessVars
    <3>2. bound[c] # NoConn => recordState[bound[c]] # "disconnected"
      BY <2>2 DEF SessionInv, LifeInv, Live, SessionsSound, STypeOK, Session
    <3>. QED
      BY <1>2, <3>1, <3>2 DEF Waits
  <2>. QED
    BY <2>1, <2>2
<1>4. ASSUME NEW d \in Conn
      PROVE  StandingOf(d)' = IF StandingOf(d) = "none" THEN "none" ELSE "closed"
  <2>1. CASE transport[d] = "none"
    BY <1>2, <2>1, StandingIs, StandingIsNow
  <2>2. CASE transport[d] # "none"
    <3>1. transport'[d] \notin {"none", "open"} /\ StandingOf(d) # "none"
      BY <1>2, <2>2, StandingIs
    <3>. QED
      BY <1>3, <3>1, StandingIsNow
  <2>. QED
    BY <2>1, <2>2
<1>. QED
  BY <1>1, <1>2, <1>4, StopsAll

\* A reattachment speaks at once, or begins to fence and changes nothing yet.
LEMMA ReattachSpeaks ==
  ASSUME SessionInv, NEW c \in Conn, NEW s \in Session, Reattach(c, s)
  PROVE  Authority!CSpeak(c, s) \/ UNCHANGED Authority!authorityVars
<1>1. /\ transport[c] = "open" /\ ~fenced[c] /\ bound[c] = NoConn /\ ~managerGone
  BY DEF Reattach, Admits
<1>2. CASE TakeOver(c, s, {})
  BY <1>1, <1>2, TakeOverSpeaks
<1>3. CASE ~TakeOver(c, s, {})
  <2>1. /\ UNCHANGED <<transport, fenced, bound, boundEpoch, recordState, epoch, attachment>>
        /\ UNCHANGED <<managerGone, failed, stoppedLocus>>
    BY <1>3 DEF Reattach, connVars, sessVars, lifeVars
  <2>2. \A d \in Conn : StandingOf(d)' = StandingOf(d)
    BY <2>1, StandsStill
  <2>. QED
    BY <2>1, <2>2 DEF Authority!authorityVars
<1>. QED
  BY <1>2, <1>3

\* Every step of the sessions is one of ConnectionAuthority, or none.
LEMMA AuthorityStep ==
  ASSUME SessionInv, [SessionStep]_sVars
  PROVE  [Authority!CNext]_(Authority!authorityVars)
<1>1. ASSUME NEW c \in Conn, Connect(c) \/ Goodbye(c) \/ Close(c)
      PROVE  Authority!COpen(c) \/ Authority!CEnd(c) \/ Authority!CClose(c)
  BY <1>1, ConnectOpens, GoodbyeEnds, CloseCloses
<1>2. ASSUME NEW c \in Conn, NEW resume \in BOOLEAN, Bind(c, resume)
      PROVE  Authority!CSpeak(c, c)
  BY <1>2, BindSpeaks
<1>3. ASSUME NEW c \in Conn, NEW s \in Session, Reattach(c, s)
      PROVE  Authority!CSpeak(c, s) \/ UNCHANGED Authority!authorityVars
  BY <1>3, ReattachSpeaks
<1>4. ASSUME FinishReattach PROVE \E c, s \in Conn : Authority!CSpeak(c, s)
  <2>1. fencing # NotFencing /\ TakeOver(fencing.conn, fencing.sid, {fencing.prev})
    BY <1>4 DEF FinishReattach
  <2>2. /\ fencing.conn \in Conn /\ fencing.sid \in Session /\ fencing.prev \in Conn
        /\ transport[fencing.conn] = "open" /\ ~fenced[fencing.conn] /\ bound[fencing.conn] = NoConn
        /\ bound[fencing.prev] = fencing.sid /\ ~managerGone
    BY <2>1 DEF SessionInv, FencingInv
  <2>3. fencing.conn \notin {fencing.prev} /\ \A d \in {fencing.prev} : bound[d] = fencing.sid
    BY <2>2, ConnAssumption DEF Session
  <2>4. Authority!CSpeak(fencing.conn, fencing.sid)
    BY <2>1, <2>2, <2>3, TakeOverSpeaks
  <2>. QED
    BY <2>2, <2>4 DEF Session
<1>5. ASSUME (\E c \in Conn : Subscribe(c)) \/ UNCHANGED sVars
      PROVE  UNCHANGED Authority!authorityVars
  <2>1. /\ UNCHANGED <<transport, fenced, bound, boundEpoch, recordState, epoch, attachment>>
        /\ UNCHANGED <<managerGone, failed, stoppedLocus>>
    BY <1>5 DEF Subscribe, sVars, connVars, sessVars, lifeVars
  <2>2. \A d \in Conn : StandingOf(d)' = StandingOf(d)
    BY <2>1, StandsStill
  <2>. QED
    BY <2>1, <2>2 DEF Authority!authorityVars
<1>6. ASSUME DisposeSessions \/ Fail \/ DisposeLocus
      PROVE  Authority!CStopSessions \/ Authority!CStopAll
  BY <1>6, DisposeSessionsStops, FailStops, DisposeLocusStops
<1>. QED
  BY <1>1, <1>2, <1>3, <1>4, <1>5, <1>6, ExpireEnds DEF SessionStep, Session, Authority!CNext

\* To anyone who asks only who may speak, the sessions are ConnectionAuthority:
\* a connection comes to speak for one session, once, and alone, and what was
\* fenced, said goodbye, expired or was revoked never speaks again (reattach(),
\* detach(), expire() and revoke() of locus.session.ts, authoritative() of
\* locus.core.ts).
THEOREM SessionsGiveAuthority == SSpec => GivesAuthority
<1>1. SInit => SessionInv /\ Authority!CInit
  BY SessionInit, AuthorityInit
<1>2. SessionInv /\ [SessionStep]_sVars => SessionInv' /\ [Authority!CNext]_(Authority!authorityVars)
  BY SessionKeeps, AuthorityStep
<1>. QED
  BY <1>1, <1>2, PTL DEF SSpec, GivesAuthority, Authority!AuthoritySpec

\* A session that expired or was revoked comes back in one case only: its
\* transport said goodbye while it was being fenced, and the reattachment that
\* fenced it goes on (reattach() does not look at the record again after its
\* send); what it followed is gone then.
THEOREM GoneSessionsStayGone == SSpec => GoneStaysGone
<1>1. SInit => SessionInv
  BY SessionInit
<1>2. ASSUME SessionInv, SessionStep, NEW s \in Session,
             recordState[s] \in Gone, recordState'[s] \notin Gone
      PROVE  fencing # NotFencing /\ fencing.sid = s /\ s \notin synced'
  <2>1. recordState \in [Conn -> {"none"} \cup Live \cup Gone] /\ s \in Conn /\ s \notin synced
    BY <1>2 DEF SessionInv, SessionsSound, STypeOK, ResourcesFollowSession, Live, Gone, Session
  <2>2. recordState' # recordState
    BY <1>2
  <2>3. ASSUME NEW c \in Conn, NEW resume \in BOOLEAN, Bind(c, resume) PROVE FALSE
    <3>1. recordState[c] = "none" /\ recordState' = [recordState EXCEPT ![c] = "attached"]
      BY <1>2, <2>3, ConnAssumption DEF Bind, CreateSession, SessionInv, BoundInv
    <3>. QED
      BY <1>2, <2>1, <3>1 DEF Gone
  <2>4. ASSUME NEW c \in Conn, NEW x \in Session, Reattach(c, x) PROVE FALSE
    <3>1. recordState[x] \in Live /\ recordState' = [recordState EXCEPT ![x] = "attached"]
      BY <2>2, <2>4 DEF Reattach, Admits, TakeOver, sessVars
    <3>. QED
      BY <1>2, <2>1, <3>1 DEF Gone, Live
  <2>5. ASSUME NEW c \in Conn, Goodbye(c) \/ Close(c) PROVE FALSE
    <3>1. CASE Goodbye(c)
      BY <1>2, <2>1, <3>1 DEF Goodbye, Gone
    <3>2. CASE Close(c)
      <4>1. IsActive(c) /\ DetachSession(bound[c])
        BY <2>2, <3>2 DEF Close, sessVars
      <4>2. /\ recordState[bound[c]] = "attached"
            /\ \E to \in {"disconnected", "expired"} : recordState' = [recordState EXCEPT ![bound[c]] = to]
        <5>1. CASE resumable[bound[c]]
          <6>1. recordState' = [recordState EXCEPT ![bound[c]] = "disconnected"]
            BY <4>1, <5>1 DEF DetachSession
          <6>. QED
            BY <4>1, <6>1 DEF IsActive
        <5>2. CASE ~resumable[bound[c]]
          <6>1. recordState' = [recordState EXCEPT ![bound[c]] = "expired"]
            BY <4>1, <5>2 DEF DetachSession
          <6>. QED
            BY <4>1, <6>1 DEF IsActive
        <5>. QED
          BY <5>1, <5>2
      <4>. QED
        BY <1>2, <2>1, <4>2 DEF Gone
    <3>. QED
      BY <2>5, <3>1, <3>2
  <2>6. ASSUME NEW x \in Session, Expire(x) PROVE FALSE
    BY <1>2, <2>1, <2>2, <2>6 DEF Expire, Gone
  <2>7. ~RevokeAll
    BY <1>2, <2>1 DEF RevokeAll, Session, Gone, Live
  <2>8. ASSUME FinishReattach PROVE fencing # NotFencing /\ fencing.sid = s /\ synced' = synced
    BY <1>2, <2>1, <2>8 DEF FinishReattach, TakeOver
  <2>. QED
    BY <1>2, <2>1, <2>2, <2>3, <2>4, <2>5, <2>6, <2>7, <2>8
    DEF SessionStep, Connect, Subscribe, DisposeSessions, Fail, DisposeLocus, sessVars
<1>3. SessionInv /\ [SessionStep]_sVars =>
        [\A s \in Session : recordState[s] \in Gone /\ recordState'[s] \notin Gone
                              => fencing # NotFencing /\ fencing.sid = s /\ s \notin synced']_sVars
  BY <1>2
<1>4. SessionInv /\ [SessionStep]_sVars => SessionInv'
  BY SessionKeeps
<1>. QED
  BY <1>1, <1>3, <1>4, PTL DEF SSpec, GoneStaysGone
=============================================================================
