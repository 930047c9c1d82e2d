---------------------------- MODULE LocusRegistry ----------------------------
(***************************************************************************)
(* The bounded Locus registry of LiveHost                                  *)
(* (api/livehost/services/livehost.authority-registry.ts): acquire() with  *)
(* same-key creation coalescing and leases, an admission queue that evicts *)
(* idle authorities when the registry is full, evict(), the idle sweep and *)
(* dispose().                                                              *)
(*                                                                         *)
(* An action is a stretch of code between two awaits.  Creations, entries  *)
(* and authorities are named by the acquire() call that reserved them: a   *)
(* pending entry of the code and the ready entry that replaces it are two  *)
(* objects, so waits[e] counts the acquisitions of the first and leases[e] *)
(* those of the second.                                                    *)
(*                                                                         *)
(* The order among idle candidates, their idle time and the generation     *)
(* numbers are left out: the code reads a generation in the same stretch   *)
(* that checks it, so it can only tell two entries of one key apart.       *)
(***************************************************************************)
EXTENDS Integers, FiniteSets, Sequences

CONSTANTS Call,      \* the acquire() calls that may be made, each once
          NoCall,    \* no entry, no call
          Key,       \* residency keys
          Asked,     \* which keys the calls may ask for
          MaxLoci    \* maxLoci

ASSUME CallAssumption == IsFiniteSet(Call) /\ NoCall \notin Call
ASSUME KeyAssumption == IsFiniteSet(Key) /\ Asked \subseteq [Call -> Key]
ASSUME MaxLociAssumption == MaxLoci \in Nat \ {0}

VARIABLES
  state,     \* "accepting" | "disposing" | "disposed"
  entries,   \* [Key -> the entry in the map, or NoCall]
  status,    \* [Call -> the state of the entry the call reserved]
  waits,     \* acquisitions of the pending entry
  leases,    \* acquisitions of the ready entry
  promise,   \* the creation's promise
  closes,    \* dispose calls on the authority that have not failed
  busy,      \* authorities whose activity reports a blocker
  pc, key, on,  \* of each call: where it is, its key, the entry it deals with
  queue,     \* admissions, the running one first
  evicting,  \* entries whose eviction awaits the authority's disposal
  swept,     \* candidates a sweep has yet to take
  sweeping,  \* "off", "on", or the entry whose eviction the sweep awaits
  todo,      \* entries that dispose() has yet to take
  current,   \* the entry it deals with
  disposer,  \* where dispose() is
  failures   \* whether dispose() has a failure to report

authority == <<status, waits, leases, promise, closes, busy, evicting>>
caller == <<pc, key, on>>
sweeper == <<swept, sweeping>>
disposal == <<todo, current, disposer, failures>>
vars == <<state, entries, authority, caller, queue, sweeper, disposal>>

Resident == {entries[k] : k \in Key} \ {NoCall}
Loading(k) == entries[k] # NoCall /\ status[entries[k]] = "loading"
Occupied == {k \in Key : entries[k] # NoCall}
Full == Cardinality(Occupied) >= MaxLoci
Rejected == {"failed", "stopped"}
Settled(c) == pc[c] \in {"holding", "released", "failed"}

\* The ready entries that no acquisition and no activity blocks.
Idle == {e \in Resident : status[e] = "ready" /\ leases[e] = 0 /\ e \notin busy}

Decrement(n) == IF n = 0 THEN 0 ELSE n - 1

Init ==
  /\ state = "accepting"
  /\ entries = [k \in Key |-> NoCall]
  /\ status = [c \in Call |-> "none"]
  /\ waits = [c \in Call |-> 0]
  /\ leases = [c \in Call |-> 0]
  /\ promise = [c \in Call |-> "none"]
  /\ closes = [c \in Call |-> 0]
  /\ busy = {}
  /\ pc = [c \in Call |-> "start"]
  /\ key \in Asked
  /\ on = [c \in Call |-> NoCall]
  /\ queue = << >>
  /\ evicting = {}
  /\ swept = {} /\ sweeping = "off"
  /\ todo = {} /\ current = NoCall /\ disposer = "none" /\ failures = FALSE

-----------------------------------------------------------------------------
(* Acquisition.                                                             *)

Goto(c, label, e) == pc' = [pc EXCEPT ![c] = label] /\ on' = [on EXCEPT ![c] = e] /\ UNCHANGED key

\* The call's own reservation enters the map; its creation is scheduled.
Reserve(c) ==
  /\ entries' = [entries EXCEPT ![key[c]] = c]
  /\ status' = [status EXCEPT ![c] = "loading"]
  /\ promise' = [promise EXCEPT ![c] = "pending"]
  /\ UNCHANGED <<leases, closes, busy, evicting>>

\* A lease on a ready entry is given, or refused when the entry is going away.
AcquireReady(c, e) ==
  \/ /\ state = "accepting" /\ status[e] = "ready"
     /\ leases' = [leases EXCEPT ![e] = @ + 1]
     /\ Goto(c, "holding", e)
  \/ /\ ~(state = "accepting" /\ status[e] = "ready")
     /\ UNCHANGED leases
     /\ Goto(c, "failed", e)

WaitFor(c, e) == waits' = [waits EXCEPT ![e] = @ + 1] /\ Goto(c, "waiting", e)

\* Mutation: a free place is taken past the admissions that wait for one.
JumpsQueue == ~Full

\* A miss takes a free place only when no admission waits for one.
FreePlace == queue = << >> /\ ~Full

Acquire(c) ==
  /\ pc[c] = "start"
  /\ LET e == entries[key[c]] IN
     \/ /\ state # "accepting" /\ Goto(c, "failed", NoCall)
        /\ UNCHANGED <<authority, entries, queue>>
     \/ /\ state = "accepting" /\ e # NoCall /\ status[e] \in {"ready", "disposing"}
        /\ AcquireReady(c, e)
        /\ UNCHANGED <<status, waits, promise, closes, busy, evicting, entries, queue>>
     \/ /\ state = "accepting" /\ Loading(key[c])
        /\ WaitFor(c, e)
        /\ UNCHANGED <<status, leases, promise, closes, busy, evicting, entries, queue>>
     \/ /\ state = "accepting" /\ e = NoCall /\ FreePlace
        /\ Reserve(c) /\ WaitFor(c, c)
        /\ UNCHANGED queue
     \/ /\ state = "accepting" /\ e = NoCall /\ ~FreePlace
        /\ queue' = Append(queue, c)
        /\ Goto(c, "queued", NoCall)
        /\ UNCHANGED <<authority, entries>>
  /\ UNCHANGED <<state, sweeper, disposal>>

\* The running admission ends and the next may start.
LeaveQueue(c, label, e) == queue' = Tail(queue) /\ Goto(c, label, e)

\* What the admission hands over: a pending entry to wait for, or a ready one.
Handover(e) == IF status[e] = "loading" THEN "joining" ELSE "admitted"

\* The admission of c comes up: what an earlier one reserved is taken as it is.
Admit(c) ==
  /\ queue # << >> /\ Head(queue) = c /\ pc[c] = "queued"
  /\ \/ /\ state # "accepting" /\ LeaveQueue(c, "failed", NoCall)
     \/ /\ state = "accepting" /\ entries[key[c]] # NoCall
        /\ LeaveQueue(c, Handover(entries[key[c]]), entries[key[c]])
     \/ /\ state = "accepting" /\ entries[key[c]] = NoCall
        /\ Goto(c, "capacity", NoCall) /\ UNCHANGED queue
  /\ UNCHANGED <<state, entries, authority, sweeper, disposal>>

-----------------------------------------------------------------------------
(* Eviction.                                                                *)

\* Mutation: an entry being evicted stays ready.
MarkReady(e) ==
  /\ closes' = [closes EXCEPT ![e] = @ + 1]
  /\ evicting' = evicting \cup {e}
  /\ UNCHANGED <<status, waits, leases, promise, busy>>

\* The entry is marked and its authority's disposal called.
BeginEviction(e) ==
  /\ status' = [status EXCEPT ![e] = "disposing"]
  /\ closes' = [closes EXCEPT ![e] = @ + 1]
  /\ evicting' = evicting \cup {e}
  /\ UNCHANGED <<waits, leases, promise, busy>>

Evict(e) ==
  /\ e \in Idle
  /\ BeginEviction(e)
  /\ UNCHANGED <<state, entries, caller, queue, sweeper, disposal>>

\* Mutation: an admission is not told of an eviction that failed.
FailureUnseen(e, label) ==
  /\ pc' = [c \in Call |-> IF pc[c] = "evicting" /\ on[c] = e /\ label = "capacity"
                           THEN label ELSE pc[c]]
  /\ sweeping' = IF sweeping = e THEN "on" ELSE sweeping
  /\ disposer' = IF disposer = "eviction" /\ current = e THEN "loop" ELSE disposer
  /\ UNCHANGED <<key, on, swept>>

\* The awaits on an eviction continue: an admission looks at the capacity
\* again, or may be refused when the eviction failed; a sweep and dispose() go on.
EvictionSeen(e, label) ==
  /\ pc' = [c \in Call |-> IF pc[c] = "evicting" /\ on[c] = e THEN label ELSE pc[c]]
  /\ sweeping' = IF sweeping = e THEN "on" ELSE sweeping
  /\ disposer' = IF disposer = "eviction" /\ current = e THEN "loop" ELSE disposer
  /\ UNCHANGED <<key, on, swept>>

EvictionSucceeds(e) ==
  /\ status' = [status EXCEPT ![e] = "gone"]
  /\ entries' = [entries EXCEPT ![key[e]] = IF @ = e THEN NoCall ELSE @]
  /\ EvictionSeen(e, "capacity")
  /\ UNCHANGED <<closes, failures>>

EvictionFails(e) ==
  /\ status' = [status EXCEPT ![e] = "ready"]
  /\ closes' = [closes EXCEPT ![e] = @ - 1]
  /\ EvictionSeen(e, "refusable")
  /\ failures' = (failures \/ (disposer = "eviction" /\ current = e))
  /\ UNCHANGED entries

EndEviction(e) ==
  /\ e \in evicting
  /\ EvictionSucceeds(e) \/ EvictionFails(e)
  /\ evicting' = evicting \ {e}
  /\ UNCHANGED <<state, waits, leases, promise, busy, queue, todo, current>>

\* The running admission makes room: it evicts idle entries one at a time.
MakeRoom(c) ==
  /\ \/ pc[c] = "capacity" \/ (pc[c] = "refusable" /\ ~Full)
  /\ \/ /\ ~Full
        /\ Goto(c, "reserve", NoCall)
        /\ UNCHANGED <<authority, queue>>
     \/ /\ Full /\ Idle = {}
        /\ LeaveQueue(c, "failed", NoCall)
        /\ UNCHANGED authority
     \/ /\ Full
        /\ \E e \in Idle : BeginEviction(e) /\ Goto(c, "evicting", e)
        /\ UNCHANGED queue
  /\ UNCHANGED <<state, entries, sweeper, disposal>>

RefuseAdmission(c) ==
  /\ pc[c] = "refusable" /\ Full
  /\ LeaveQueue(c, "failed", NoCall)
  /\ UNCHANGED <<state, entries, authority, sweeper, disposal>>

\* Room was found: the state and the key are checked once more.
AdmitReserve(c) ==
  /\ pc[c] = "reserve"
  /\ LET e == entries[key[c]] IN
     \/ /\ state # "accepting" /\ LeaveQueue(c, "failed", NoCall)
        /\ UNCHANGED <<entries, authority>>
     \/ /\ state = "accepting" /\ e # NoCall /\ LeaveQueue(c, Handover(e), e)
        /\ UNCHANGED <<entries, authority>>
     \/ /\ state = "accepting" /\ e = NoCall
        /\ Reserve(c) /\ UNCHANGED waits
        /\ LeaveQueue(c, "joining", c)
  /\ UNCHANGED <<state, sweeper, disposal>>

\* acquire() continues with the entry its admission handed over.  A pending
\* entry is waited for even when the ready one has replaced it meanwhile.
Admitted(c) ==
  /\ \/ pc[c] = "joining" /\ WaitFor(c, on[c]) /\ UNCHANGED leases
     \/ pc[c] = "admitted" /\ AcquireReady(c, on[c]) /\ UNCHANGED waits
  /\ UNCHANGED <<state, entries, status, promise, closes, busy, evicting, queue,
                 sweeper, disposal>>

-----------------------------------------------------------------------------
(* Creation.  options.create() may return or throw at once, or take its time. *)

InstallReady(e) ==
  /\ entries' = [entries EXCEPT ![key[e]] = e]
  /\ status' = [status EXCEPT ![e] = "ready"]
  /\ leases' = [leases EXCEPT ![e] = waits[e]]
  /\ promise' = [promise EXCEPT ![e] = "ok"]
  /\ UNCHANGED <<waits, closes, busy, evicting>>

StillWanted(e) == state = "accepting" /\ Loading(key[e])

Created(e) ==
  /\ promise[e] = "pending"
  /\ \/ StillWanted(e) /\ InstallReady(e)
     \/ /\ ~StillWanted(e)
        /\ promise' = [promise EXCEPT ![e] = "stopping"]
        /\ closes' = [closes EXCEPT ![e] = @ + 1]
        /\ UNCHANGED <<entries, status, waits, leases, busy, evicting>>
  /\ UNCHANGED <<state, caller, queue, sweeper, disposal>>

\* The disposal of an authority that was no longer wanted ends, either way.
Stopped(e) ==
  /\ promise[e] = "stopping"
  /\ promise' = [promise EXCEPT ![e] = "stopped"]
  /\ \E failed \in {0, 1} : closes' = [closes EXCEPT ![e] = @ - failed]
  /\ UNCHANGED <<state, entries, status, waits, leases, busy, evicting, caller,
                 queue, sweeper, disposal>>

\* Whatever creation of the key is loading, its entry is deleted.
ForgetLoading(k) == entries' = IF Loading(k) THEN [entries EXCEPT ![k] = NoCall] ELSE entries

CreationFails(e) ==
  /\ promise[e] = "pending"
  /\ promise' = [promise EXCEPT ![e] = "failed"]
  /\ ForgetLoading(key[e])
  /\ UNCHANGED <<state, status, waits, leases, closes, busy, evicting, caller,
                 queue, sweeper, disposal>>

\* A waiter was counted when its wait began.
Grant(c, e) == Goto(c, "holding", e) /\ UNCHANGED leases

\* The await of a creation continues.
Resume(c) ==
  /\ pc[c] = "waiting"
  /\ LET e == on[c]
         here == entries[key[c]] = e /\ status[e] = "ready"
     IN
     \/ /\ promise[e] = "ok" /\ here /\ state = "accepting"
        /\ Grant(c, e) /\ UNCHANGED entries
     \/ /\ promise[e] = "ok" /\ here /\ state # "accepting"
        /\ leases' = [leases EXCEPT ![e] = Decrement(@)]
        /\ Goto(c, "failed", e) /\ UNCHANGED entries
     \/ /\ promise[e] = "ok" /\ ~here
        /\ Goto(c, "failed", e) /\ UNCHANGED <<leases, entries>>
     \/ /\ promise[e] \in Rejected
        /\ ForgetLoading(key[c])
        /\ Goto(c, "failed", e) /\ UNCHANGED leases
  /\ UNCHANGED <<state, status, waits, promise, closes, busy, evicting, queue,
                 sweeper, disposal>>

ReleasedLease(n) == Decrement(n)

Release(c) ==
  /\ pc[c] = "holding"
  /\ leases' = [leases EXCEPT ![on[c]] = ReleasedLease(@)]
  /\ Goto(c, "released", on[c])
  /\ UNCHANGED <<state, entries, status, waits, promise, closes, busy, evicting,
                 queue, sweeper, disposal>>

\* A holder's connection, session, action ... on the authority begins, and ends.
Activity(e) ==
  /\ \/ /\ \E c \in Call : pc[c] = "holding" /\ on[c] = e
        /\ e \notin busy /\ busy' = busy \cup {e}
     \/ e \in busy /\ busy' = busy \ {e}
  /\ UNCHANGED <<state, entries, status, waits, leases, promise, closes, evicting,
                 caller, queue, sweeper, disposal>>

-----------------------------------------------------------------------------
(* Sweep.                                                                   *)

\* The entries idle for idleMs are listed.
Sweep ==
  /\ state = "accepting" /\ sweeping = "off"
  /\ \E listed \in SUBSET Idle \ {{}} : swept' = listed
  /\ sweeping' = "on"
  /\ UNCHANGED <<state, entries, authority, caller, queue, disposal>>

\* The next listed entry e: the entry its key has by now is evicted when it is
\* idle and, if it is another one, has the same generation.
SweepNext ==
  /\ sweeping = "on"
  /\ \/ /\ state # "accepting" \/ swept = {}
        /\ swept' = {} /\ sweeping' = "off"
        /\ UNCHANGED authority
     \/ \E e \in swept :
        /\ state = "accepting"
        /\ swept' = swept \ {e}
        /\ LET now == entries[key[e]] IN
           \/ now \in Idle /\ BeginEviction(now) /\ sweeping' = now
           \/ /\ now \notin Idle \/ now # e
              /\ UNCHANGED <<authority, sweeping>>
  /\ UNCHANGED <<state, entries, caller, queue, disposal>>

-----------------------------------------------------------------------------
(* dispose().                                                               *)

Dispose ==
  /\ state = "accepting"
  /\ state' = "disposing"
  /\ disposer' = "pending"
  /\ todo' = {e \in Resident : status[e] = "loading"}
  /\ UNCHANGED <<entries, authority, caller, queue, sweeper, current, failures>>

\* Every pending creation has settled; a rejection is a failure to report.
PendingSettled ==
  /\ disposer = "pending"
  /\ \A e \in todo : promise[e] \in Rejected \cup {"ok"}
  /\ failures' = \E e \in todo : promise[e] \in Rejected
  /\ todo' = Resident
  /\ disposer' = "loop"
  /\ UNCHANGED <<state, entries, authority, caller, queue, sweeper, current>>

\* Mutation: an entry that is being evicted is taken for gone.
SkipEvicting(e) == disposer' = disposer

AwaitEviction(e) == disposer' = "eviction"

DisposeEntry(e) ==
  /\ disposer = "loop" /\ e \in todo
  /\ todo' = todo \ {e}
  /\ current' = e
  /\ \/ /\ status[e] = "loading"
        /\ entries' = [entries EXCEPT ![key[e]] = NoCall]
        /\ UNCHANGED <<authority, disposer>>
     \/ /\ status[e] = "disposing" /\ e \in evicting
        /\ AwaitEviction(e)
        /\ UNCHANGED <<entries, authority>>
     \/ /\ status[e] = "gone"
        /\ UNCHANGED <<entries, authority, disposer>>
     \/ /\ status[e] = "ready"
        /\ status' = [status EXCEPT ![e] = "disposing"]
        /\ closes' = [closes EXCEPT ![e] = @ + 1]
        /\ disposer' = "closing"
        /\ UNCHANGED <<entries, waits, leases, promise, busy, evicting>>
  /\ UNCHANGED <<state, caller, queue, sweeper, failures>>

AuthorityDisposed ==
  /\ disposer = "closing"
  /\ disposer' = "loop"
  /\ \/ /\ entries' = [entries EXCEPT ![key[current]] = NoCall]
        /\ status' = [status EXCEPT ![current] = "gone"]
        /\ UNCHANGED <<closes, failures>>
     \/ /\ failures' = TRUE
        /\ closes' = [closes EXCEPT ![current] = @ - 1]
        /\ UNCHANGED <<entries, status>>
  /\ UNCHANGED <<state, waits, leases, promise, busy, evicting, caller, queue,
                 sweeper, todo, current>>

Disposed ==
  /\ disposer = "loop" /\ todo = {}
  /\ state' = "disposed" /\ disposer' = "done"
  /\ UNCHANGED <<entries, authority, caller, queue, sweeper, todo, current, failures>>

\* What the call's own awaits lead to, and what a creation or eviction does.
CallContinues(c) ==
  Admit(c) \/ MakeRoom(c) \/ RefuseAdmission(c) \/ AdmitReserve(c) \/ Admitted(c) \/ Resume(c)
EntryContinues(e) == Created(e) \/ CreationFails(e) \/ Stopped(e) \/ EndEviction(e)
DisposerContinues ==
  PendingSettled \/ AuthorityDisposed \/ Disposed \/ \E e \in Call : DisposeEntry(e)

Next ==
  \/ \E c \in Call : Acquire(c) \/ CallContinues(c) \/ EntryContinues(c)
                     \/ Release(c) \/ Activity(c) \/ Evict(c)
  \/ Sweep \/ SweepNext
  \/ Dispose \/ DisposerContinues

Spec == Init /\ [][Next]_vars

\* Promises settle: the application's create() and dispose() do, and with them
\* every continuation behind an await runs.  Nobody has to release a lease.
Fairness ==
  /\ \A c \in Call : WF_vars(CallContinues(c)) /\ WF_vars(EntryContinues(c))
  /\ WF_vars(SweepNext)
  /\ WF_vars(DisposerContinues)

FairSpec == Spec /\ Fairness

-----------------------------------------------------------------------------
(* Properties.                                                              *)

\* The type invariant.
TypeOK ==
  /\ state \in {"accepting", "disposing", "disposed"}
  /\ entries \in [Key -> Call \cup {NoCall}]
  /\ status \in [Call -> {"none", "loading", "ready", "disposing", "gone"}]
  /\ waits \in [Call -> Nat] /\ leases \in [Call -> Nat]
  /\ promise \in [Call -> {"none", "pending", "stopping", "ok"} \cup Rejected]
  /\ closes \in [Call -> Nat]
  /\ busy \subseteq Call /\ evicting \subseteq Call
  /\ pc \in [Call -> {"start", "queued", "capacity", "evicting", "refusable", "reserve",
                      "joining", "admitted", "waiting", "holding", "released", "failed"}]
  /\ key \in [Call -> Key] /\ on \in [Call -> Call \cup {NoCall}]
  /\ queue \in Seq(Call)
  /\ swept \subseteq Call /\ sweeping \in {"off", "on"} \cup Call
  /\ todo \subseteq Call /\ current \in Call \cup {NoCall}
  /\ disposer \in {"none", "pending", "loop", "eviction", "closing", "done"}
  /\ failures \in BOOLEAN

\* The registry never has more entries than maxLoci, although room is checked,
\* then made or found free behind an await, and only then taken.
Bounded == Cardinality(Occupied) <= MaxLoci

\* The authority's disposal is never called while an earlier call runs or has
\* succeeded, whichever of an eviction, the sweep, an admission, a creation
\* overtaken by disposal, and dispose() gets to it.
DisposedOnce == \A e \in Call : closes[e] <= 1

\* No lease is counted that no call holds or is about to be given, so that a
\* registry in use never keeps an authority resident for nobody.
NoLeakedLease ==
  \A e \in Resident :
    state = "accepting" /\ status[e] = "ready" =>
      leases[e] <= Cardinality({c \in Call : on[c] = e /\ pc[c] \in {"waiting", "holding"}})

\* Once dispose() has resolved without a failure, every authority the registry
\* ever held has been disposed, those whose eviction was under way included.
NothingLeftBehind ==
  state = "disposed" /\ ~failures =>
    \A e \in Call : promise[e] = "ok" => closes[e] = 1 /\ e \notin evicting

\* An authority somebody holds a lease on is not evicted: neither evict() nor
\* the sweep nor a full registry takes it (docs/livehost/overview.md:108).  The
\* code does not keep this, nor the next one: see the README.
HeldStaysReady ==
  \A c \in Call : pc[c] = "holding" /\ state = "accepting" => status[on[c]] = "ready"

\* Concurrent acquisitions of a key share one creation.
OneCreationPerKey ==
  \A e, f \in Call :
    promise[e] = "pending" /\ promise[f] = "pending" /\ key[e] = key[f] => e = f

\* Every acquire() settles, a full registry and failed evictions included.
AcquireSettles == \A c \in Call : pc[c] # "start" ~> Settled(c)

\* dispose() settles, whatever creations and evictions it met.
DisposeSettles == state = "disposing" ~> state = "disposed"

\* No lease is counted without a holder and nothing of a disposed Locus or a
\* failed creation stays in the registry.
NothingLeaks == TypeOK /\ NoLeakedLease /\ NothingLeftBehind

\* Everyone who waits on the registry is answered.
RegistrySettles == AcquireSettles /\ DisposeSettles
=============================================================================
