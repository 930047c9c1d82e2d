--------------------------- MODULE LocusAuthority ---------------------------
(***************************************************************************)
(* The exclusive authority of one Locus (api/locus/locus.authority.ts): a  *)
(* FIFO of mutations and barriers over one managed LiveMap.  A changed     *)
(* mutation is prepared on a draft, approved by an optional asynchronous   *)
(* gate, installed in the map, shown to the map's observers and then       *)
(* ingested into the canonical history.                                    *)
(*                                                                         *)
(* JavaScript runs one callback at a time, so an action below is a stretch *)
(* of code without an await, cut once more where listeners are called: at  *)
(* phase "notify" the map has the new revision and the history does not,   *)
(* and the listeners may call back into the authority.                     *)
(*                                                                         *)
(* A commit is named by the call that made it, the map is the sequence of  *)
(* its commits, and its revision is the length of that sequence.           *)
(***************************************************************************)
EXTENDS Naturals, Sequences

CONSTANTS Task,     \* the calls that may be made, each at most once
          NoTask    \* "nothing is running"

ASSUME NoTaskAssumption == NoTask \notin Task

VARIABLES
  gated,     \* whether the authority was made with a gate; never changes
  state,     \* "open" | "closing" | "failed" | "closed"
  queue,     \* tasks waiting, oldest first
  active,    \* the running task, or NoTask
  phase,     \* where the running task is
  base,      \* map revision the running mutation was prepared against
  mapLog,    \* the commits installed in the map, oldest first
  headRev,   \* head revision of the canonical history
  outcome,   \* how the promise returned to each caller stands
  managed,   \* whether this authority still owns the map
  serving,   \* whether connections and recovery are up
  disposed,  \* whether dispose() was called on the Locus
  called     \* history variable: the calls the queue took, in order

vars == <<gated, state, queue, active, phase, base, mapLog, headRev, outcome,
          managed, serving, disposed, called>>

Kind == {"mutation", "barrier"}
Entry == [task : Task, kind : Kind]

\* "done": a changed commit was accepted; "noop": an unchanged one was;
\* "completed": a barrier ran.  "lost": the process stopped before the promise
\* settled, which happens in the modules that add crashes.
Success == {"done", "noop", "completed"}
Rejection == {"prepare", "gate", "operation", "closed", "terminal", "ingestion"}
Outcome == {"none", "pending", "lost"} \cup Success \cup Rejection
Settled(t) == outcome[t] \notin {"none", "pending"}

Installed(t) == \E i \in 1..Len(mapLog) : mapLog[i] = t
QueuedIn(q, t) == \E i \in 1..Len(q) : q[i].task = t

Init ==
  /\ gated \in BOOLEAN
  /\ state = "open"
  /\ queue = << >>
  /\ active = NoTask
  /\ phase = "idle"
  /\ base = 0
  /\ mapLog = << >>
  /\ headRev = 0
  /\ outcome = [t \in Task |-> "none"]
  /\ managed = TRUE
  /\ serving = TRUE
  /\ disposed = FALSE
  /\ called = << >>

-----------------------------------------------------------------------------
(* Pieces shared by the actions.  t is the running task, rest the queue     *)
(* behind it, out the outcomes so far.                                      *)

\* Mutation: a new task overtakes the waiting ones.
EnqueueFirst(q, e) == <<e>> \o q

Enqueue(q, e) == Append(q, e)

\* Every waiting task, and those in S, are rejected with one error.
Reject(S, rest, out, code) ==
  [t \in Task |-> IF t \in S \/ QueuedIn(rest, t) THEN code ELSE out[t]]

\* Mutation: the failed Locus goes on serving its clients.
TerminalStillServing(t, rest, out, code) ==
  /\ state' = "failed"
  /\ queue' = << >>
  /\ outcome' = Reject({t}, rest, out, code)
  /\ phase' = "settled"
  /\ UNCHANGED <<mapLog, headRev, serving>>

\* Mutation: the state is left open.
TerminalStillOpen(t, rest, out, code) ==
  /\ queue' = << >>
  /\ outcome' = Reject({t}, rest, out, code)
  /\ serving' = FALSE
  /\ phase' = "settled"
  /\ UNCHANGED <<state, mapLog, headRev>>

\* Mutation: the waiting tasks are dropped without an answer.
TerminalDropsQueue(t, rest, out, code) ==
  /\ state' = "failed"
  /\ queue' = << >>
  /\ outcome' = Reject({t}, << >>, out, code)
  /\ serving' = FALSE
  /\ phase' = "settled"
  /\ UNCHANGED <<mapLog, headRev>>

\* terminal(cause): the queue is emptied with the error of the cause, recovery
\* is disposed and every connection shut.
Terminal(t, rest, out, code) ==
  /\ state' = "failed"
  /\ queue' = << >>
  /\ outcome' = Reject({t}, rest, out, code)
  /\ serving' = FALSE
  /\ phase' = "settled"
  /\ UNCHANGED <<mapLog, headRev>>

\* The task's promise is settled; `running.finally` has yet to run.
SettleAs(t, rest, out, code) ==
  /\ outcome' = [out EXCEPT ![t] = code]
  /\ queue' = rest
  /\ phase' = "settled"
  /\ UNCHANGED <<state, mapLog, headRev, serving>>

\* staged.accept: a stale transition or a failing installation is terminal,
\* otherwise the map advances and its observers are told.
Accept(t, rest, out, b) ==
  \/ /\ b = Len(mapLog)
     /\ mapLog' = Append(mapLog, t)
     /\ queue' = rest
     /\ outcome' = out
     /\ phase' = "notify"
     /\ UNCHANGED <<state, headRev, serving>>
  \/ Terminal(t, rest, out, "terminal")

\* drain() starting the task at the head of q: a barrier's operation is
\* called, a mutation is prepared and, if it changes the map, sent to the gate.
Begin(q, out) ==
  LET t == Head(q).task
      rest == Tail(q)
  IN  /\ active' = t
      /\ \/ /\ Head(q).kind = "barrier"
            /\ queue' = rest
            /\ outcome' = out
            /\ phase' = "barrier"
            /\ UNCHANGED <<state, base, mapLog, headRev, serving>>
         \/ /\ Head(q).kind = "mutation"
            /\ base' = Len(mapLog)
            /\ \/ \E code \in {"prepare", "noop"} : SettleAs(t, rest, out, code)
               \/ /\ gated
                  /\ queue' = rest
                  /\ outcome' = out
                  /\ phase' = "gate"
                  /\ UNCHANGED <<state, mapLog, headRev, serving>>
               \/ ~gated /\ Accept(t, rest, out, Len(mapLog))
      /\ UNCHANGED <<managed, disposed>>

-----------------------------------------------------------------------------
(* Calls.                                                                   *)

\* mutate (and the scheduler of managed links), runExclusive.
Submit(t, kind) ==
  /\ outcome[t] = "none"
  /\ \/ /\ state = "failed"
        /\ outcome' = [outcome EXCEPT ![t] = "terminal"]
        /\ UNCHANGED <<state, queue, active, phase, base, mapLog, headRev,
                       managed, serving, disposed, called>>
     \/ /\ state \in {"closing", "closed"}
        /\ outcome' = [outcome EXCEPT ![t] = "closed"]
        /\ UNCHANGED <<state, queue, active, phase, base, mapLog, headRev,
                       managed, serving, disposed, called>>
     \/ /\ state = "open"
        /\ called' = Append(called, t)
        /\ LET q == Enqueue(queue, [task |-> t, kind |-> kind])
               out == [outcome EXCEPT ![t] = "pending"]
           IN  \/ /\ active # NoTask
                  /\ queue' = q
                  /\ outcome' = out
                  /\ UNCHANGED <<state, active, phase, base, mapLog, headRev,
                                 managed, serving, disposed>>
               \/ active = NoTask /\ Begin(q, out)

\* A mutation called on the map itself: fenced while the map is managed.
DirectWrite(t) ==
  /\ outcome[t] = "none"
  /\ ~managed
  /\ outcome' = [outcome EXCEPT ![t] = "done"]
  /\ mapLog' = Append(mapLog, t)
  /\ UNCHANGED <<state, queue, active, phase, base, headRev, managed, serving,
                 disposed, called>>

\* Mutation: the map is released although a task is still running.
DisposeAtOnce ==
  /\ ~disposed
  /\ disposed' = TRUE
  /\ serving' = FALSE
  /\ queue' = << >>
  /\ outcome' = Reject({}, queue, outcome, "closed")
  /\ state' = IF active = NoTask THEN "closed" ELSE "closing"
  /\ managed' = FALSE
  /\ UNCHANGED <<active, phase, base, mapLog, headRev, called>>

\* Locus.dispose(): runs once; connections, sessions and recovery stop, then
\* the authority closes and releases the map unless a task is still running.
Dispose ==
  /\ ~disposed
  /\ disposed' = TRUE
  /\ serving' = FALSE
  /\ queue' = << >>
  /\ outcome' = Reject({}, queue, outcome, "closed")
  /\ IF active = NoTask
       THEN state' = "closed" /\ managed' = FALSE
       ELSE state' = "closing" /\ UNCHANGED managed
  /\ UNCHANGED <<active, phase, base, mapLog, headRev, called>>

-----------------------------------------------------------------------------
(* Continuations of the running task.                                       *)

\* The gate's promise resolves.
GatePasses ==
  /\ phase = "gate"
  /\ Accept(active, queue, outcome, base)
  /\ UNCHANGED <<active, base, managed, disposed, called>>

\* The gate's promise rejects: the transition is discarded.
GateRejects ==
  /\ phase = "gate"
  /\ SettleAs(active, queue, outcome, "gate")
  /\ UNCHANGED <<active, base, managed, disposed, called>>

\* options.accepted -> ingest: the canonical history takes the commit that
\* follows its head and publishes it.
Ingest ==
  /\ phase = "notify"
  /\ \/ /\ Len(mapLog) = headRev + 1
        /\ headRev' = headRev + 1
        /\ outcome' = [outcome EXCEPT ![active] = "done"]
        /\ phase' = "settled"
        /\ UNCHANGED <<state, queue, mapLog, serving>>
     \/ Terminal(active, queue, outcome, "ingestion")
  /\ UNCHANGED <<active, base, managed, disposed, called>>

\* The barrier's operation settles.
BarrierSettles ==
  /\ phase = "barrier"
  /\ \E code \in {"completed", "operation"} :
        SettleAs(active, queue, outcome, code)
  /\ UNCHANGED <<active, base, managed, disposed, called>>

\* release_if_idle, with nothing running.
ReleaseIfIdle ==
  /\ IF state = "closing"
       THEN state' = "closed" /\ managed' = FALSE
       ELSE UNCHANGED <<state, managed>>
  /\ active' = NoTask
  /\ phase' = "idle"
  /\ UNCHANGED <<queue, base, mapLog, headRev, outcome, serving, disposed>>

\* running.finally: active is cleared and drain() runs.
Finish ==
  /\ phase = "settled"
  /\ \/ /\ state \in {"failed", "closed"}
        /\ active' = NoTask
        /\ phase' = "idle"
        /\ UNCHANGED <<state, queue, base, mapLog, headRev, outcome, managed,
                       serving, disposed>>
     \/ /\ state \in {"open", "closing"}
        /\ queue = << >>
        /\ ReleaseIfIdle
     \/ /\ state \in {"open", "closing"}
        /\ queue # << >>
        /\ Begin(queue, outcome)
  /\ UNCHANGED called

Call == \E t \in Task : (\E kind \in Kind : Submit(t, kind)) \/ DirectWrite(t)
Continue ==
  /\ GatePasses \/ GateRejects \/ Ingest \/ BarrierSettles \/ Finish
  /\ UNCHANGED gated
Next == ((Call \/ Dispose) /\ UNCHANGED gated) \/ Continue

Spec == Init /\ [][Next]_vars

\* The event loop runs every continuation that is ready, and the promises of
\* gates and barrier operations are assumed to settle.
FairSpec == Spec /\ WF_vars(Continue)

-----------------------------------------------------------------------------
(* Properties.                                                              *)

\* Every variable keeps its type, and a task runs exactly when the phase says
\* so (active and the states of run_mutation, run_barrier and drain).
TypeOK ==
  /\ gated \in BOOLEAN
  /\ state \in {"open", "closing", "failed", "closed"}
  /\ queue \in Seq(Entry)
  /\ active \in Task \cup {NoTask}
  /\ phase \in {"idle", "gate", "notify", "barrier", "settled"}
  /\ (phase = "idle") <=> (active = NoTask)
  /\ base \in Nat
  /\ mapLog \in Seq(Task)
  /\ headRev \in Nat
  /\ outcome \in [Task -> Outcome]
  /\ managed \in BOOLEAN
  /\ serving \in BOOLEAN
  /\ disposed \in BOOLEAN
  /\ called \in Seq(Task)

\* The queue is served first in, first out: when a task has had its turn
\* (succeeded, or failed by its own preparation, gate or operation), every task
\* called before it is settled, and the map holds commits in the order of the
\* calls (queue, drain).
ServedInCallOrder ==
  \A i, j \in 1..Len(called) :
    i < j =>
      /\ outcome[called[j]] \in Success \cup {"prepare", "gate", "operation"}
           => Settled(called[i])
      /\ \A m, n \in 1..Len(mapLog) :
           mapLog[m] = called[j] /\ mapLog[n] = called[i] => n < m

\* A caller told that its mutation was rejected before acceptance finds no
\* trace of it in the map: preparation and gate failures, closing and failed
\* acceptance all discard the transition (run_mutation, dispose, terminal).
RejectedLeavesNoTrace ==
  \A t \in Task :
    outcome[t] \in Rejection \ {"ingestion"} => ~Installed(t)

\* A mutation acknowledged to its caller is in the map and, unless it was
\* written after the map was released, already in the canonical history: the
\* promise resolves only after ingestAccepted (run_mutation).
AcknowledgedIsCanonical ==
  \A i \in 1..Len(called) :
    outcome[called[i]] = "done" =>
      \E r \in 1..headRev : r <= Len(mapLog) /\ mapLog[r] = called[i]

\* As long as clients are served, the history head is the map's revision, and
\* lags it by one only while the map's observers run (accept, ingestAccepted).
ServedHistoryIsCurrent ==
  serving => headRev = IF phase = "notify" THEN Len(mapLog) - 1 ELSE Len(mapLog)

\* Nothing touches the map between the preparation of a transition and its
\* gate: ownership is held through the await, so a durable commit is never
\* found stale afterwards (release_if_idle, claimManagement).
PreparedStillCurrent ==
  phase = "gate" => managed /\ base = Len(mapLog)

\* After a terminal failure of a Locus that was not disposed, neither the map
\* nor the history ever moves again (terminal, drain, mutate).
FailureFreezesHistory ==
  [][~serving /\ ~disposed => UNCHANGED <<mapLog, headRev>>]_vars

\* Every mutation and barrier the authority takes is eventually settled, also
\* when the Locus fails or is disposed meanwhile (drain, terminal, dispose).
EveryCallSettles ==
  \A t \in Task : (outcome[t] = "pending") ~> Settled(t)

\* Disposal ends in the release of the map, unless the authority fails
\* (dispose, release_if_idle).
DisposeReleasesUnlessFailed ==
  disposed ~> (~managed \/ state = "failed")

\* What docs/locus/overview.md says of host destruction: ownership is released
\* after active authority work settles.  The code does not keep this when the
\* work fails: see the README.
DisposeReleases == disposed ~> ~managed

\* What the callers of mutate() are told of their calls is true of the
\* history: served in call order, a refusal left nothing, a success is in it.
CallsServedTruly ==
  TypeOK /\ ServedInCallOrder /\ RejectedLeavesNoTrace /\ AcknowledgedIsCanonical

\* Every promise settles, and dispose() ends by giving the map back.
SettlesAndReleases == EveryCallSettles /\ DisposeReleasesUnlessFailed
=============================================================================
