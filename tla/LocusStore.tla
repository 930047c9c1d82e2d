----------------------------- MODULE LocusStore -----------------------------
(***************************************************************************)
(* The persistent store of LiveHost                                        *)
(* (api/livehost/services/livehost.persistent-store.ts) for one logical    *)
(* map: create(), load() and connect(), unload(), over the resident map    *)
(* and the marker of the operation in flight.                              *)
(*                                                                         *)
(* Ids do not interact, so one is enough.  An action is a stretch of code  *)
(* between two awaits.  A host, and the promise an operation leaves in     *)
(* inflight, are named by the call that made them.  Reactions to a promise *)
(* run in the order they were registered: the call that made it goes on    *)
(* before those that joined it.                                            *)
(*                                                                         *)
(* connect() is a load() that then connects to what it got, or reports an  *)
(* unknown entry where load() answers undefined: both are Lookup.          *)
(***************************************************************************)

CONSTANTS Call,    \* the calls that may be made, each once
          NoCall   \* no host, no operation

ASSUME NoCallAssumption == NoCall \notin Call

VARIABLES
  hosts,      \* the resident host, or NoCall
  inflight,   \* the operation whose promise is in flight, or NoCall
  stored,     \* whether the adapter has a state of the map
  authority,  \* [Call -> the Locus the call constructed]
  promise,    \* [Call -> how the promise it put in flight stands]
  pc, on,     \* of each call: where it is, the host or call it deals with
  result      \* what it returned

vars == <<hosts, inflight, stored, authority, promise, pc, on, result>>

Running == {"live", "closing"}   \* still owns its managed map
Answer == {"host", "absent", "failed"}

Init ==
  /\ hosts = NoCall /\ inflight = NoCall
  /\ stored \in BOOLEAN
  /\ authority = [c \in Call |-> "none"]
  /\ promise = [c \in Call |-> "none"]
  /\ pc = [c \in Call |-> "start"]
  /\ on = [c \in Call |-> NoCall]
  /\ result = [c \in Call |-> "none"]

Goto(c, label) == pc' = [pc EXCEPT ![c] = label]
Return(c, value) == Goto(c, "settled") /\ result' = [result EXCEPT ![c] = value]
Become(c, life) == authority' = [authority EXCEPT ![c] = life]
Settle(c, value) == promise' = [promise EXCEPT ![c] = value]

\* The call's promise goes in flight.
Mark(c) == inflight' = c /\ Settle(c, "pending")

\* Mutation: whatever is in flight is cleared.
ClearMarker(c) == inflight' = NoCall

\* The finally block: the marker is cleared when it is still the call's own.
UnmarkOwn(c) == inflight' = IF inflight = c THEN NoCall ELSE inflight

DisposeHost(h) == Become(h, "closing")

-----------------------------------------------------------------------------
(* create().                                                                *)

Create(c) ==
  /\ pc[c] = "start"
  /\ \/ /\ hosts # NoCall \/ inflight # NoCall
        /\ Return(c, "conflict")
        /\ UNCHANGED <<hosts, inflight, authority, promise>>
     \/ /\ hosts = NoCall /\ inflight = NoCall
        /\ Become(c, "live") /\ Mark(c) /\ Goto(c, "creating")
        /\ UNCHANGED <<hosts, result>>
  /\ UNCHANGED <<stored, on>>

\* The initial checkpoint is stored, or is reported as failed, stored or not.
InitialCheckpoint(c) ==
  /\ pc[c] = "creating"
  /\ \/ stored' = TRUE /\ Settle(c, "host") /\ Goto(c, "created") /\ UNCHANGED authority
     \/ stored' \in {stored, TRUE} /\ DisposeHost(c) /\ Goto(c, "discarding")
        /\ UNCHANGED promise
  /\ UNCHANGED <<hosts, inflight, on, result>>

Discarded(c) ==
  /\ pc[c] = "discarding" /\ authority[c] = "released"
  /\ Settle(c, "failed") /\ Goto(c, "created")
  /\ UNCHANGED <<hosts, inflight, stored, authority, on, result>>

CreateReturns(c) ==
  /\ pc[c] = "created"
  /\ hosts' = IF promise[c] = "host" THEN c ELSE hosts
  /\ Return(c, promise[c])
  /\ UnmarkOwn(c)
  /\ UNCHANGED <<stored, authority, promise, on>>

-----------------------------------------------------------------------------
(* load() and connect().                                                    *)

\* Mutation: a load does not look for an operation in flight.
OwnLoad == TRUE

NothingInFlight == inflight = NoCall

Lookup(c) ==
  /\ pc[c] = "start"
  /\ \/ /\ hosts # NoCall
        /\ Return(c, "host") /\ on' = [on EXCEPT ![c] = hosts]
        /\ UNCHANGED <<inflight, promise>>
     \/ /\ hosts = NoCall /\ ~NothingInFlight
        /\ Goto(c, "joined") /\ on' = [on EXCEPT ![c] = inflight]
        /\ UNCHANGED <<inflight, promise, result>>
     \/ /\ hosts = NoCall /\ NothingInFlight
        /\ Mark(c) /\ Goto(c, "loading")
        /\ UNCHANGED <<on, result>>
  /\ UNCHANGED <<hosts, stored, authority>>

\* adapter.load() answers; a state it finds is validated and restored, or not.
AdapterLoads(c) ==
  /\ pc[c] = "loading"
  /\ \/ ~stored /\ Settle(c, "absent") /\ Goto(c, "loaded") /\ UNCHANGED authority
     \/ stored /\ Become(c, "live") /\ Goto(c, "restored") /\ UNCHANGED promise
     \/ Settle(c, "failed") /\ Goto(c, "loaded") /\ UNCHANGED authority
  /\ UNCHANGED <<hosts, inflight, stored, on, result>>

\* The restored host becomes the resident one.  When another did meanwhile the
\* load fails; NoRegistryConflict shows that it never does, and what would
\* follow is left out.
Install(c) ==
  /\ pc[c] = "restored"
  /\ IF hosts = NoCall
     THEN hosts' = c /\ Settle(c, "host") /\ Goto(c, "loaded")
     ELSE Goto(c, "registry_conflict") /\ UNCHANGED <<hosts, promise>>
  /\ UNCHANGED <<inflight, stored, authority, on, result>>

LoadReturns(c) ==
  /\ pc[c] = "loaded"
  /\ Return(c, promise[c])
  /\ UnmarkOwn(c)
  /\ UNCHANGED <<hosts, stored, authority, promise, on>>

\* The joined operation has settled and gone on.
JoinedIsOver(c) == pc[on[c]] = "settled"

Join(c) ==
  /\ pc[c] = "joined" /\ JoinedIsOver(c)
  /\ Return(c, promise[on[c]])
  /\ UNCHANGED <<hosts, inflight, stored, authority, promise, on>>

-----------------------------------------------------------------------------
(* unload().                                                                *)

Withdraw == hosts' = NoCall

Unload(c) ==
  /\ pc[c] = "start"
  /\ \/ /\ hosts = NoCall
        /\ Return(c, "false")
        /\ UNCHANGED <<hosts, inflight, authority, promise, on>>
     \/ /\ hosts # NoCall
        /\ Withdraw
        /\ DisposeHost(hosts) /\ on' = [on EXCEPT ![c] = hosts]
        /\ Mark(c) /\ Goto(c, "unloading")
        /\ UNCHANGED result
  /\ UNCHANGED stored

\* The disposed authority has settled its work and releases the map.
Release(h) ==
  /\ authority[h] = "closing"
  /\ Become(h, "released")
  /\ UNCHANGED <<hosts, inflight, stored, promise, pc, on, result>>

Unloaded(c) ==
  /\ pc[c] = "unloading" /\ authority[on[c]] = "released"
  /\ Settle(c, "absent") /\ Goto(c, "unloaded")
  /\ UNCHANGED <<hosts, inflight, stored, authority, on, result>>

\* Mutation: an unload leaves its marker behind.
ReturnsMarked(c) ==
  /\ pc[c] = "unloaded"
  /\ Return(c, "true")
  /\ UNCHANGED <<hosts, inflight, stored, authority, promise, on>>

UnloadReturns(c) ==
  /\ pc[c] = "unloaded"
  /\ Return(c, "true")
  /\ UnmarkOwn(c)
  /\ UNCHANGED <<hosts, stored, authority, promise, on>>

Continues(c) ==
  \/ InitialCheckpoint(c) \/ Discarded(c) \/ CreateReturns(c)
  \/ AdapterLoads(c) \/ Install(c) \/ LoadReturns(c) \/ Join(c)
  \/ Unloaded(c) \/ UnloadReturns(c)

Next == \E c \in Call : Create(c) \/ Lookup(c) \/ Unload(c) \/ Release(c) \/ Continues(c)

Spec == Init /\ [][Next]_vars

\* The adapter answers, a disposed authority releases its map, and what waits
\* for either goes on.
Fairness == \A c \in Call : WF_vars(Continues(c)) /\ WF_vars(Release(c))

FairSpec == Spec /\ Fairness

-----------------------------------------------------------------------------
(* Properties.                                                              *)

\* The type invariant.
TypeOK ==
  /\ hosts \in Call \cup {NoCall} /\ inflight \in Call \cup {NoCall}
  /\ stored \in BOOLEAN
  /\ authority \in [Call -> {"none", "released"} \cup Running]
  /\ promise \in [Call -> {"none", "pending"} \cup Answer]
  /\ pc \in [Call -> {"start", "creating", "discarding", "created", "loading", "restored",
                      "registry_conflict", "loaded", "joined", "unloading", "unloaded",
                      "settled"}]
  /\ on \in [Call -> Call \cup {NoCall}]
  /\ result \in [Call -> {"none", "conflict", "true", "false"} \cup Answer]

\* The persisted state has one authority at a time: the one being created,
\* restored, resident, or still finishing its work while it is unloaded.
OneAuthority ==
  \A a, b \in Call : authority[a] \in Running /\ authority[b] \in Running => a = b

\* What is resident has not been disposed.
ResidentIsLive == hosts # NoCall => authority[hosts] = "live"

\* The registry never changes under a load: the check the code makes for it
\* after the restore (livehost.persistent-store.ts:64) is never the one to fire.
NoRegistryConflict == \A c \in Call : pc[c] # "registry_conflict"

\* A marker stands for an operation that is still running, so that a failed
\* load may be retried (docs/locus/overview.md:443).
MarkerClears == inflight # NoCall => pc[inflight] # "settled"

\* A load or connect of a map that is stored when it is called never finds it
\* absent: a registry miss leads to the adapter (docs/locus/overview.md:355).
\* The code does not keep this: see the README.
StoredIsFound ==
  \A c \in Call : [](stored /\ pc[c] = "start" => [](result[c] # "absent"))

\* Every call settles.
EveryCallSettles == \A c \in Call : pc[c] # "start" ~> pc[c] = "settled"

\* The store's tables say what is live: the host it answers with is not
\* disposed, and the marker of a load that is over is gone.
StoreConsistent == TypeOK /\ ResidentIsLive /\ MarkerClears
=============================================================================
