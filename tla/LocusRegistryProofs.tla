------------------------- MODULE LocusRegistryProofs -------------------------
(***************************************************************************)
(* Three promises of LocusRegistry, for any calls, keys and limit: the     *)
(* registry never exceeds maxLoci, no authority's disposal is called again *)
(* unless it failed, and nothing leaks: neither a lease while the registry *)
(* is in use, nor an authority once it is disposed.                        *)
(*                                                                         *)
(* The limit rests on the admission queue: only the admission at its head  *)
(* is beyond the queue, a miss takes a free place only when the queue is   *)
(* empty, so the place an admission found free stays free until it takes   *)
(* it, although it awaits in between.                                      *)
(***************************************************************************)
EXTENDS LocusRegistry, FiniteSetTheorems, SequenceTheorems, TLAPS

Label == {"start", "queued", "capacity", "evicting", "refusable", "reserve",
          "joining", "admitted", "waiting", "holding", "released", "failed"}
Admitting == {"capacity", "evicting", "refusable", "reserve"}

AdmissionInv ==
  /\ entries \in [Key -> Call \cup {NoCall}]
  /\ key \in [Call -> Key]
  /\ queue \in Seq(Call)
  /\ pc \in [Call -> Label]
  /\ \A c \in Call : pc[c] \in Admitting => queue # << >> /\ Head(queue) = c
  /\ \A c \in Call : pc[c] = "reserve" => Cardinality(Occupied) < MaxLoci
  /\ Bounded

\* A place is added to a finite number of others, or taken from them.
LEMMA OccupiedFinite == IsFiniteSet(Occupied) /\ Cardinality(Occupied) \in Nat
BY KeyAssumption, FS_Subset, FS_CardinalityType DEF Occupied

LEMMA AdmissionInit == Init => AdmissionInv
<1>. SUFFICES ASSUME Init PROVE AdmissionInv
  OBVIOUS
<1>1. Occupied = {}
  BY DEF Init, Occupied
<1>2. << >> \in Seq(Call)
  OBVIOUS
<1>. QED
  BY <1>1, <1>2, FS_EmptySet, MaxLociAssumption, KeyAssumption DEF Init, AdmissionInv, Label, Admitting, Bounded

\* A step that takes no place keeps the invariant when the admissions beyond the
\* queue still stand at its head and none of them was given a place unseen.
LEMMA KeepsPlaces ==
  ASSUME AdmissionInv,
         entries' \in [Key -> Call \cup {NoCall}], key' = key,
         queue' \in Seq(Call), pc' \in [Call -> Label],
         \A k \in Key : entries'[k] # NoCall => entries[k] # NoCall,
         \A c \in Call : pc'[c] \in Admitting => queue' # << >> /\ Head(queue') = c,
         \A c \in Call : pc'[c] = "reserve" => pc[c] = "reserve" \/ ~Full
  PROVE  AdmissionInv'
<1>1. Occupied' \subseteq Occupied
  BY DEF Occupied
<1>2. Cardinality(Occupied') <= Cardinality(Occupied) /\ Cardinality(Occupied') \in Nat
  BY <1>1, OccupiedFinite, FS_Subset, FS_CardinalityType
<1>3. Cardinality(Occupied)' = Cardinality(Occupied')
  OBVIOUS
<1>. QED
  BY <1>2, <1>3, OccupiedFinite, MaxLociAssumption DEF AdmissionInv, Bounded, Full

\* A step that takes one place keeps it when there was room and no admission is
\* left beyond the queue.
LEMMA TakesPlace ==
  ASSUME AdmissionInv, NEW c \in Call, Cardinality(Occupied) < MaxLoci,
         entries' = [entries EXCEPT ![key[c]] = c], key' = key,
         queue' \in Seq(Call), pc' \in [Call -> Label],
         \A d \in Call : pc'[d] \notin Admitting
  PROVE  AdmissionInv'
<1>1. Occupied' = Occupied \cup {key[c]}
  BY CallAssumption DEF Occupied, AdmissionInv
<1>2. Cardinality(Occupied \cup {key[c]}) = IF key[c] \in Occupied THEN Cardinality(Occupied)
                                                                  ELSE Cardinality(Occupied) + 1
  BY OccupiedFinite, FS_AddElement
<1>3. Cardinality(Occupied)' = Cardinality(Occupied')
  OBVIOUS
<1>. QED
  BY <1>1, <1>2, <1>3, OccupiedFinite, MaxLociAssumption DEF AdmissionInv, Bounded, Admitting

\* When the running admission leaves the queue, none is beyond it.
LEMMA LeavesQueue ==
  ASSUME AdmissionInv, NEW c \in Call, NEW label \in Label \ Admitting, NEW e,
         queue # << >>, Head(queue) = c, LeaveQueue(c, label, e)
  PROVE  /\ queue' \in Seq(Call) /\ pc' \in [Call -> Label] /\ key' = key
         /\ \A d \in Call : pc'[d] \notin Admitting
<1>1. queue' \in Seq(Call)
  BY HeadTailProperties DEF AdmissionInv, LeaveQueue
<1>. QED
  BY <1>1 DEF AdmissionInv, LeaveQueue, Goto

\* Every step preserves the invariant.
LEMMA AdmissionStep == AdmissionInv /\ [Next]_vars => AdmissionInv'
<1>. SUFFICES ASSUME AdmissionInv, [Next]_vars PROVE AdmissionInv'
  OBVIOUS
<1>. USE DEF Label, Admitting
<1>0. ASSUME UNCHANGED <<entries, key, queue, pc>> PROVE AdmissionInv'
  BY <1>0, KeepsPlaces DEF AdmissionInv
<1>1. ASSUME NEW c \in Call, Acquire(c) PROVE AdmissionInv'
  <2>1. CASE UNCHANGED <<entries, queue>>
    BY <1>1, <2>1, KeepsPlaces DEF AdmissionInv, Acquire, AcquireReady, WaitFor, Goto
  <2>2. CASE FreePlace /\ Reserve(c) /\ WaitFor(c, c) /\ UNCHANGED queue
    <3>1. \A d \in Call : pc'[d] \notin Admitting
      BY <2>2 DEF AdmissionInv, FreePlace, WaitFor, Goto
    <3>2. Cardinality(Occupied) < MaxLoci
      BY <2>2, OccupiedFinite, MaxLociAssumption DEF FreePlace, Full
    <3>. QED
      BY <2>2, <3>1, <3>2, TakesPlace DEF AdmissionInv, Reserve, WaitFor, Goto
  <2>3. CASE queue' = Append(queue, c) /\ Goto(c, "queued", NoCall) /\ UNCHANGED entries
             /\ pc[c] = "start"
    <3>1. queue' \in Seq(Call) /\ queue' # << >> /\ (queue # << >> => Head(queue') = Head(queue))
      BY <2>3, AppendProperties DEF AdmissionInv
    <3>. QED
      BY <2>3, <3>1, KeepsPlaces DEF AdmissionInv, Goto
  <2>. QED
    BY <1>1, <2>1, <2>2, <2>3 DEF Acquire
<1>2. ASSUME NEW c \in Call, Admit(c) PROVE AdmissionInv'
  <2>1. CASE UNCHANGED queue
    BY <1>2, <2>1, KeepsPlaces DEF AdmissionInv, Admit, Goto, LeaveQueue
  <2>2. CASE \E label \in Label \ Admitting, e \in Call \cup {NoCall} : LeaveQueue(c, label, e)
    BY <1>2, <2>2, LeavesQueue, KeepsPlaces DEF AdmissionInv, Admit
  <2>. QED
    BY <1>2, <2>1, <2>2 DEF Admit, Handover, AdmissionInv
<1>3. ASSUME NEW c \in Call, MakeRoom(c) PROVE AdmissionInv'
  <2>1. CASE UNCHANGED queue
    BY <1>3, <2>1, KeepsPlaces DEF AdmissionInv, MakeRoom, Goto, LeaveQueue
  <2>2. CASE LeaveQueue(c, "failed", NoCall)
    BY <1>3, <2>2, LeavesQueue, KeepsPlaces DEF AdmissionInv, MakeRoom
  <2>. QED
    BY <1>3, <2>1, <2>2 DEF MakeRoom
<1>4. ASSUME NEW c \in Call, RefuseAdmission(c) PROVE AdmissionInv'
  BY <1>4, LeavesQueue, KeepsPlaces DEF AdmissionInv, RefuseAdmission
<1>5. ASSUME NEW c \in Call, AdmitReserve(c) PROVE AdmissionInv'
  <2>1. queue # << >> /\ Head(queue) = c /\ Cardinality(Occupied) < MaxLoci
    BY <1>5 DEF AdmissionInv, AdmitReserve
  <2>2. CASE UNCHANGED entries
    BY <1>5, <2>1, <2>2, LeavesQueue, KeepsPlaces DEF AdmissionInv, AdmitReserve, Handover
  <2>3. CASE Reserve(c) /\ LeaveQueue(c, "joining", c)
    BY <2>1, <2>3, LeavesQueue, TakesPlace DEF Reserve
  <2>. QED
    BY <1>5, <2>2, <2>3 DEF AdmitReserve
<1>6. ASSUME NEW c \in Call, Admitted(c) PROVE AdmissionInv'
  BY <1>6, KeepsPlaces DEF AdmissionInv, Admitted, AcquireReady, WaitFor, Goto
<1>7. ASSUME NEW c \in Call, Resume(c) PROVE AdmissionInv'
  BY <1>7, KeepsPlaces DEF AdmissionInv, Resume, Grant, ForgetLoading, Goto
<1>8. ASSUME NEW c \in Call, Release(c) PROVE AdmissionInv'
  BY <1>8, KeepsPlaces DEF AdmissionInv, Release, Goto
<1>9. ASSUME NEW c \in Call, Created(c) PROVE AdmissionInv'
  <2>1. \A k \in Key : entries'[k] # NoCall => entries[k] # NoCall
    BY <1>9 DEF AdmissionInv, Created, InstallReady, StillWanted, Loading
  <2>. QED
    BY <1>9, <2>1, KeepsPlaces DEF AdmissionInv, Created, InstallReady, caller
<1>10. ASSUME NEW c \in Call, CreationFails(c) PROVE AdmissionInv'
  BY <1>10, KeepsPlaces DEF AdmissionInv, CreationFails, ForgetLoading, caller
<1>11. ASSUME NEW c \in Call, EndEviction(c) PROVE AdmissionInv'
  BY <1>11, KeepsPlaces
     DEF AdmissionInv, EndEviction, EvictionSucceeds, EvictionFails, EvictionSeen
<1>12. ASSUME NEW c \in Call, Stopped(c) \/ Activity(c) \/ Evict(c) PROVE AdmissionInv'
  BY <1>0, <1>12 DEF Stopped, Activity, Evict, caller
<1>13. ASSUME Sweep \/ SweepNext \/ Dispose \/ PendingSettled \/ Disposed PROVE AdmissionInv'
  BY <1>0, <1>13 DEF Sweep, SweepNext, Dispose, PendingSettled, Disposed, caller
<1>14. ASSUME NEW e \in Call, DisposeEntry(e) PROVE AdmissionInv'
  BY <1>14, KeepsPlaces DEF AdmissionInv, DisposeEntry, caller
<1>15. ASSUME AuthorityDisposed PROVE AdmissionInv'
  BY <1>15, KeepsPlaces DEF AdmissionInv, AuthorityDisposed, caller
<1>16. CASE UNCHANGED vars
  BY <1>0, <1>16 DEF vars, caller
<1>. QED
  BY <1>1, <1>2, <1>3, <1>4, <1>5, <1>6, <1>7, <1>8, <1>9, <1>10, <1>11, <1>12, <1>13,
     <1>14, <1>15, <1>16 DEF Next, CallContinues, EntryContinues, DisposerContinues

\* The registry stays within maxLoci (livehost.authority-registry.ts:405 and :419),
\* whatever acquisitions, evictions and failures interleave.
THEOREM RegistryBounded == Spec => []Bounded
<1>1. AdmissionInv => Bounded
  BY DEF AdmissionInv
<1>. QED
  BY <1>1, AdmissionInit, AdmissionStep, PTL DEF Spec

-----------------------------------------------------------------------------

\* Who is disposing an authority: a ready one nobody, one being evicted its
\* eviction, one that came too late its creation, the current one dispose().
ClosingInv ==
  /\ entries \in [Key -> Call \cup {NoCall}] /\ key \in [Call -> Key]
  /\ pc \in [Call -> Label] /\ evicting \subseteq Call
  /\ status \in [Call -> {"none", "loading", "ready", "disposing", "gone"}]
  /\ promise \in [Call -> {"none", "pending", "stopping", "ok"} \cup Rejected]
  /\ closes \in [Call -> 0..1]
  /\ \A e \in Call : status[e] = "ready" => closes[e] = 0
  /\ \A e \in Call : status[e] = "none" => promise[e] = "none"
  /\ \A e \in Call : pc[e] \in {"start", "queued", "capacity", "evicting", "refusable",
                                "reserve"} => status[e] = "none" /\ closes[e] = 0
  /\ \A e \in Call : promise[e] = "pending" => status[e] = "loading" /\ closes[e] = 0
  /\ \A e \in Call : promise[e] = "stopping" => status[e] = "loading" /\ closes[e] = 1
  /\ \A e \in evicting : status[e] = "disposing" /\ closes[e] = 1
  /\ disposer = "closing" =>
       current \in Call \ evicting /\ status[current] = "disposing" /\ closes[current] = 1

LEMMA ClosingStep == ClosingInv /\ [Next]_vars => ClosingInv'
<1>. SUFFICES ASSUME ClosingInv, [Next]_vars PROVE ClosingInv'
  OBVIOUS
<1>. USE CallAssumption DEF ClosingInv, Rejected, Label
<1>1. ASSUME NEW c \in Call, Acquire(c) PROVE ClosingInv'
  <2>1. CASE Reserve(c) /\ WaitFor(c, c)
    BY <1>1, <2>1 DEF Acquire, WaitFor, Reserve, Goto, disposal
  <2>2. CASE UNCHANGED <<entries, status, promise, closes, evicting>>
    <3>1. \A d \in Call : pc'[d] = pc[d] \/ (d = c /\ pc[c] = "start")
      BY <1>1 DEF Acquire, AcquireReady, WaitFor, Goto
    <3>2. pc' \in [Call -> Label] /\ key' = key /\ UNCHANGED disposal
      BY <1>1 DEF Acquire, AcquireReady, WaitFor, Goto
    <3>. QED
      BY <2>2, <3>1, <3>2 DEF disposal
  <2>. QED
    BY <1>1, <2>1, <2>2 DEF Acquire, authority
<1>2. ASSUME NEW c \in Call, Admit(c) \/ RefuseAdmission(c) PROVE ClosingInv'
  <2>1. \A e : Handover(e) \in Label
    BY DEF Handover
  <2>2. \A d \in Call : pc'[d] = pc[d] \/ (d = c /\ pc[c] \in {"queued", "refusable"})
    BY <1>2 DEF Admit, RefuseAdmission, LeaveQueue, Goto
  <2>3. pc' \in [Call -> Label] /\ key' = key
    BY <1>2, <2>1 DEF Admit, RefuseAdmission, LeaveQueue, Goto
  <2>. QED
    BY <1>2, <2>2, <2>3 DEF Admit, RefuseAdmission, authority, disposal
<1>3. ASSUME NEW c \in Call, MakeRoom(c) PROVE ClosingInv'
  BY <1>3 DEF MakeRoom, LeaveQueue, Goto, authority, disposal, BeginEviction, Idle, Resident
<1>5. ASSUME NEW c \in Call, AdmitReserve(c) PROVE ClosingInv'
  BY <1>5 DEF AdmitReserve, LeaveQueue, Goto, authority, disposal, Reserve, Handover
<1>6. ASSUME NEW c \in Call, Admitted(c) PROVE ClosingInv'
  BY <1>6 DEF Admitted, AcquireReady, WaitFor, Goto, disposal
<1>7. ASSUME NEW c \in Call, Resume(c) PROVE ClosingInv'
  BY <1>7 DEF Resume, Grant, ForgetLoading, Goto, disposal
<1>8. ASSUME NEW c \in Call, Release(c) PROVE ClosingInv'
  BY <1>8 DEF Release, Goto, disposal
<1>9. ASSUME NEW c \in Call, Created(c) PROVE ClosingInv'
  BY <1>9 DEF Created, InstallReady, caller, disposal
<1>10. ASSUME NEW c \in Call, CreationFails(c) \/ Stopped(c) PROVE ClosingInv'
  BY <1>10 DEF CreationFails, ForgetLoading, Stopped, caller, disposal
<1>11. ASSUME NEW c \in Call, EndEviction(c) PROVE ClosingInv'
  BY <1>11 DEF EndEviction, EvictionSucceeds, EvictionFails, EvictionSeen
<1>12. ASSUME NEW c \in Call, Evict(c) \/ Activity(c) PROVE ClosingInv'
  BY <1>12 DEF Evict, Activity, BeginEviction, Idle, Resident, caller, disposal
<1>13. ASSUME Sweep \/ SweepNext PROVE ClosingInv'
  BY <1>13 DEF Sweep, SweepNext, BeginEviction, Idle, Resident, authority, caller, disposal
<1>14. ASSUME Dispose \/ PendingSettled \/ Disposed PROVE ClosingInv'
  <2>1. UNCHANGED <<entries, key, pc, evicting, status, promise, closes>> /\ disposer' # "closing"
    BY <1>14 DEF Dispose, PendingSettled, Disposed, authority, caller
  <2>. QED
    BY <2>1
<1>15. ASSUME NEW e \in Call, DisposeEntry(e) PROVE ClosingInv'
  BY <1>15 DEF DisposeEntry, AwaitEviction, authority, caller
<1>16. ASSUME AuthorityDisposed PROVE ClosingInv'
  BY <1>16 DEF AuthorityDisposed, caller
<1>17. CASE UNCHANGED vars
  BY <1>17 DEF vars, authority, caller, disposal
<1>. QED
  BY <1>1, <1>2, <1>3, <1>5, <1>6, <1>7, <1>8, <1>9, <1>10, <1>11, <1>12, <1>13, <1>14,
     <1>15, <1>16, <1>17 DEF Next, CallContinues, EntryContinues, DisposerContinues

\* No authority's disposal is called while an earlier call runs or has succeeded
\* (livehost.authority-registry.ts: evict, sweep, admissions, late creations, dispose).
THEOREM AuthorityDisposedOnce == Spec => []DisposedOnce
<1>1. Init => ClosingInv
  BY KeyAssumption DEF Init, ClosingInv, Rejected, Label
<1>2. ClosingInv => DisposedOnce
  BY DEF ClosingInv, DisposedOnce
<1>. QED
  BY <1>1, <1>2, ClosingStep, PTL DEF Spec

-----------------------------------------------------------------------------
(* Nothing leaks.  A lease is counted for every call in use of an entry, and *)
(* those calls are counted as a set: what a step does to the counter is      *)
(* compared with what it does to the set.                                    *)

Users(p, o, W, e) == {c \in Call : o[c] = e /\ p[c] \in W}
InUse == {"waiting", "holding"}

LEMMA UsersFinite ==
  ASSUME NEW p, NEW o, NEW W, NEW e
  PROVE  IsFiniteSet(Users(p, o, W, e)) /\ Cardinality(Users(p, o, W, e)) \in Nat
BY CallAssumption, FS_Subset, FS_CardinalityType DEF Users

LEMMA MoreUsers ==
  ASSUME NEW p, NEW o, NEW W, NEW p2, NEW o2, NEW W2, NEW e,
         Users(p, o, W, e) \subseteq Users(p2, o2, W2, e)
  PROVE  Cardinality(Users(p, o, W, e)) <= Cardinality(Users(p2, o2, W2, e))
BY UsersFinite, FS_Subset

LEMMA OneMoreUser ==
  ASSUME NEW p, NEW o, NEW W, NEW p2, NEW o2, NEW e, NEW c,
         Users(p, o, W, e) \subseteq Users(p2, o2, W, e),
         c \in Users(p2, o2, W, e), c \notin Users(p, o, W, e)
  PROVE  Cardinality(Users(p, o, W, e)) + 1 <= Cardinality(Users(p2, o2, W, e))
<1>1. Users(p, o, W, e) \cup {c} \subseteq Users(p2, o2, W, e)
  OBVIOUS
<1>2. Cardinality(Users(p, o, W, e) \cup {c}) <= Cardinality(Users(p2, o2, W, e))
  BY <1>1, UsersFinite, FS_Subset
<1>. QED
  <2>1. Cardinality(Users(p, o, W, e) \cup {c}) = Cardinality(Users(p, o, W, e)) + 1
    BY UsersFinite, FS_AddElement, Zenon
  <2>. QED
    BY <1>2, <2>1

LEMMA OneUserLess ==
  ASSUME NEW p, NEW o, NEW W, NEW p2, NEW o2, NEW e, NEW c,
         Users(p, o, W, e) \ {c} \subseteq Users(p2, o2, W, e)
  PROVE  Cardinality(Users(p, o, W, e)) - 1 <= Cardinality(Users(p2, o2, W, e))
<1>1. IsFiniteSet(Users(p, o, W, e) \ {c})
  BY UsersFinite, FS_Subset
<1>2. Cardinality(Users(p, o, W, e) \ {c}) <= Cardinality(Users(p2, o2, W, e))
  BY UsersFinite, FS_Subset
<1>3. Cardinality(Users(p, o, W, e) \ {c}) >= Cardinality(Users(p, o, W, e)) - 1
  BY UsersFinite, FS_RemoveElement
<1>. QED
  BY <1>1, <1>2, <1>3, UsersFinite, FS_CardinalityType

\* The life of an entry: it is known once reserved, its creation has succeeded
\* while it is ready or going away, and until dispose() takes the entries over
\* every authority is the one in the map.
LifeInv ==
  /\ \A k \in Key : entries[k] # NoCall => key[entries[k]] = k /\ status[entries[k]] # "none"
  /\ \A e \in Call : (status[e] = "none") <=> (promise[e] = "none")
  /\ \A e \in Call : promise[e] = "ok" <=> status[e] \in {"ready", "disposing", "gone"}
  /\ \A e \in Call : status[e] = "gone" => closes[e] = 1
  /\ (state = "accepting") <=> (disposer = "none")
  /\ (state = "disposed") <=> (disposer = "done")
  /\ disposer \in {"none", "pending"} =>
       \A e \in Call : status[e] \in {"ready", "disposing"} =>
          entries[key[e]] = e /\ (status[e] = "disposing" => e \in evicting)

\* A call deals with an entry of its own key; those who wait for a creation are
\* the acquisitions the pending entry counts, those who wait or hold the leases.
Dealing == {"joining", "admitted", "waiting", "holding"}
LeaseInv ==
  /\ \A c \in Call : pc[c] \in Dealing =>
       on[c] \in Call /\ key[on[c]] = key[c] /\ status[on[c]] # "none"
  /\ \A e \in Call : promise[e] \in {"none", "pending"} =>
       waits[e] <= Cardinality(Users(pc, on, {"waiting"}, e))
  /\ state = "accepting" => \A e \in Call :
       /\ status[e] = "ready" => leases[e] <= Cardinality(Users(pc, on, InUse, e))
       /\ status[e] = "disposing" => leases[e] = 0

\* dispose() misses nothing: what is ready it has yet to take, what is going away
\* it has yet to take, awaits the eviction of, or is closing.
Underway == {"loop", "eviction", "closing", "done"}
DisposalInv ==
  /\ disposer \in Underway /\ ~failures => \A e \in Call :
       /\ status[e] = "ready" => e \in todo
       /\ status[e] = "disposing" =>
            \/ e \in evicting /\ (e \in todo \/ (disposer = "eviction" /\ current = e))
            \/ disposer = "closing" /\ current = e
  /\ disposer = "done" => todo = {}

LeakInv == TypeOK /\ AdmissionInv /\ ClosingInv /\ LifeInv /\ LeaseInv /\ DisposalInv


LEMMA KeysKept == [Next]_vars => key' = key
<1>1. ASSUME NEW c \in Call, Acquire(c) \/ CallContinues(c) PROVE key' = key
  BY <1>1 DEF CallContinues, caller, Acquire, Admit, MakeRoom, RefuseAdmission, AdmitReserve,
     Admitted, Resume, Goto, LeaveQueue, AcquireReady, WaitFor, Grant
<1>2. ASSUME NEW e \in Call, EntryContinues(e) PROVE key' = key
  BY <1>2 DEF EntryContinues, caller, Created, CreationFails, Stopped, EndEviction,
     EvictionSucceeds, EvictionFails, EvictionSeen
<1>3. ASSUME NEW c \in Call, Release(c) \/ Activity(c) \/ Evict(c) PROVE key' = key
  BY <1>3 DEF caller, Goto, Release, Activity, Evict
<1>4. Sweep \/ SweepNext \/ Dispose => key' = key
  BY DEF caller, Sweep, SweepNext, Dispose
<1>5. DisposerContinues => key' = key
  BY DEF DisposerContinues, caller, PendingSettled, AuthorityDisposed, Disposed, DisposeEntry
<1>. QED
  BY <1>1, <1>2, <1>3, <1>4, <1>5 DEF Next, vars, caller

\* Every step keeps the types.
LEMMA TypeStep == LeakInv /\ [Next]_vars => TypeOK'
<1>. SUFFICES ASSUME LeakInv, [Next]_vars PROVE TypeOK'
  OBVIOUS
<1>. DEFINE Rest ==
       /\ state \in {"accepting", "disposing", "disposed"}
       /\ waits \in [Call -> Nat] /\ leases \in [Call -> Nat]
       /\ busy \subseteq Call /\ on \in [Call -> Call \cup {NoCall}]
       /\ swept \subseteq Call /\ sweeping \in {"off", "on"} \cup Call
       /\ todo \subseteq Call /\ current \in Call \cup {NoCall}
       /\ disposer \in {"none", "pending", "loop", "eviction", "closing", "done"}
       /\ failures \in BOOLEAN
<1>1. closes' \in [Call -> Nat] /\ key' = key /\ queue' \in Seq(Call) /\ pc' \in [Call -> Label]
      /\ entries' \in [Key -> Call \cup {NoCall}] /\ evicting' \subseteq Call
      /\ status' \in [Call -> {"none", "loading", "ready", "disposing", "gone"}]
      /\ promise' \in [Call -> {"none", "pending", "stopping", "ok"} \cup Rejected]
  <2>1. AdmissionInv' /\ ClosingInv'
    BY AdmissionStep, ClosingStep DEF LeakInv
  <2>. QED
    BY <2>1, KeysKept DEF AdmissionInv, ClosingInv
<1>. SUFFICES Rest'
  BY <1>1 DEF LeakInv, TypeOK, Label
<1>2. Rest /\ entries \in [Key -> Call \cup {NoCall}] /\ key \in [Call -> Key]
  BY DEF LeakInv, TypeOK
<1>3. Resident \subseteq Call /\ Idle \subseteq Call /\ \A n \in Nat : Decrement(n) \in Nat
  BY <1>2 DEF Resident, Idle, Decrement
<1>4. ASSUME NEW c \in Call, Acquire(c) PROVE Rest'
  <2>1. \A e \in Call : WaitFor(c, e) => waits' \in [Call -> Nat] /\ on' \in [Call -> Call \cup {NoCall}]
    <3>. SUFFICES ASSUME NEW e \in Call, WaitFor(c, e)
                  PROVE  waits' \in [Call -> Nat] /\ on' \in [Call -> Call \cup {NoCall}]
      OBVIOUS
    <3>1. waits' = [waits EXCEPT ![e] = waits[e] + 1] /\ on' = [on EXCEPT ![c] = e]
      BY DEF WaitFor, Goto
    <3>2. waits' \in [Call -> Nat]
      BY <1>2, <3>1
    <3>. QED
      BY <1>2, <3>1, <3>2
  <2>2. \A e \in Call \cup {NoCall} : AcquireReady(c, e) => leases' \in [Call -> Nat] /\ on' \in [Call -> Call \cup {NoCall}]
    BY <1>2 DEF AcquireReady, Goto
  <2>3. \A label : Goto(c, label, NoCall) => on' \in [Call -> Call \cup {NoCall}]
    BY <1>2 DEF Goto
  <2>4. waits' \in [Call -> Nat] /\ leases' \in [Call -> Nat] /\ on' \in [Call -> Call \cup {NoCall}]
    BY <1>2, <1>4, <2>1, <2>2, <2>3 DEF Acquire, Loading, Reserve, authority
  <2>. QED
    BY <1>2, <1>4, <2>4 DEF Acquire, Reserve, authority, sweeper, disposal
<1>5. ASSUME NEW c \in Call, Admit(c) \/ MakeRoom(c) \/ RefuseAdmission(c) PROVE Rest'
  BY <1>2, <1>3, <1>5
     DEF Admit, MakeRoom, RefuseAdmission, LeaveQueue, Goto, BeginEviction, authority, sweeper, disposal
<1>6. ASSUME NEW c \in Call, AdmitReserve(c) PROVE Rest'
  BY <1>2, <1>6 DEF AdmitReserve, Reserve, LeaveQueue, Goto, authority, sweeper, disposal
<1>7. ASSUME NEW c \in Call, Admitted(c) PROVE Rest'
  BY <1>2, <1>7 DEF Admitted, AcquireReady, WaitFor, Goto, sweeper, disposal
<1>8. ASSUME NEW c \in Call, Resume(c) \/ Release(c) PROVE Rest'
  <2>1. UNCHANGED leases \/ leases' = [leases EXCEPT ![on[c]] = Decrement(leases[on[c]])]
    BY <1>8 DEF Resume, Release, ReleasedLease, Grant
  <2>2. leases' \in [Call -> Nat]
    BY <1>2, <1>3, <2>1
  <2>. QED
    BY <1>2, <1>8, <2>2 DEF Resume, Release, Grant, Goto, sweeper, disposal
<1>9. ASSUME NEW c \in Call, Activity(c) \/ Evict(c) PROVE Rest'
  BY <1>2, <1>9 DEF Activity, Evict, BeginEviction, caller, sweeper, disposal
<1>10. ASSUME NEW e \in Call, Created(e) \/ CreationFails(e) \/ Stopped(e) PROVE Rest'
  BY <1>2, <1>10 DEF Created, CreationFails, Stopped, InstallReady, caller, sweeper, disposal
<1>11. ASSUME NEW e \in Call, EndEviction(e) PROVE Rest'
  BY <1>2, <1>11 DEF EndEviction, EvictionSucceeds, EvictionFails, EvictionSeen
<1>12. ASSUME Sweep \/ SweepNext PROVE Rest'
  BY <1>2, <1>3, <1>12 DEF Sweep, SweepNext, BeginEviction, authority, caller, disposal
<1>13. ASSUME Dispose \/ PendingSettled \/ AuthorityDisposed \/ Disposed PROVE Rest'
  BY <1>2, <1>3, <1>13
     DEF Dispose, PendingSettled, AuthorityDisposed, Disposed, authority, caller, sweeper
<1>14. ASSUME NEW e \in Call, DisposeEntry(e) PROVE Rest'
  BY <1>2, <1>14 DEF DisposeEntry, AwaitEviction, authority, caller, sweeper
<1>15. CASE UNCHANGED vars
  BY <1>2, <1>15 DEF vars, authority, caller, sweeper, disposal
<1>. QED
  BY <1>4, <1>5, <1>6, <1>7, <1>8, <1>9, <1>10, <1>11, <1>12, <1>13, <1>14, <1>15
     DEF Next, CallContinues, EntryContinues, DisposerContinues

LEMMA LifeStep == LeakInv /\ [Next]_vars => LifeInv'
<1>. SUFFICES ASSUME LeakInv, [Next]_vars PROVE LifeInv'
  OBVIOUS
<1>0. /\ entries \in [Key -> Call \cup {NoCall}] /\ key \in [Call -> Key]
      /\ status \in [Call -> {"none", "loading", "ready", "disposing", "gone"}]
      /\ promise \in [Call -> {"none", "pending", "stopping", "ok"} \cup Rejected]
      /\ closes \in [Call -> 0..1] /\ LifeInv
  BY DEF LeakInv, TypeOK, ClosingInv
<1>. USE <1>0, CallAssumption DEF LifeInv, Rejected
<1>1. ASSUME NEW c \in Call, status[c] = "none", Reserve(c), entries[key[c]] = NoCall,
             UNCHANGED <<key, state, disposal>>
      PROVE  LifeInv'
  BY <1>1 DEF Reserve, disposal
<1>2. ASSUME UNCHANGED <<state, entries, status, promise, closes, evicting, key, disposer>>
      PROVE  LifeInv'
  BY <1>2
<1>3. ASSUME NEW e \in Idle, BeginEviction(e), UNCHANGED <<state, entries, key, disposer>>
      PROVE  LifeInv'
  BY <1>3 DEF BeginEviction, Idle, Resident
<1>4. ASSUME UNCHANGED <<state, status, promise, closes, evicting, key, disposer>>,
             NEW k \in Key, ForgetLoading(k)
      PROVE  LifeInv'
  BY <1>4 DEF ForgetLoading, Loading
<1>5. \A c \in Call : pc[c] \in {"start", "reserve"} => status[c] = "none"
  BY DEF LeakInv, ClosingInv
<1>6. ASSUME NEW c \in Call, Acquire(c) PROVE LifeInv'
  BY <1>1, <1>2, <1>5, <1>6 DEF Acquire, AcquireReady, WaitFor, Goto, authority, disposal
<1>7. ASSUME NEW c \in Call,
             Admit(c) \/ RefuseAdmission(c) \/ Admitted(c) \/ Release(c) \/ Activity(c)
      PROVE  LifeInv'
  BY <1>2, <1>7 DEF Admit, RefuseAdmission, Admitted, Release, Activity, LeaveQueue, Goto,
     AcquireReady, WaitFor, authority, caller, disposal
<1>8. ASSUME NEW c \in Call, MakeRoom(c) \/ Evict(c) PROVE LifeInv'
  BY <1>2, <1>3, <1>8 DEF MakeRoom, Evict, LeaveQueue, Goto, authority, caller, disposal
<1>9. ASSUME NEW c \in Call, AdmitReserve(c) PROVE LifeInv'
  BY <1>1, <1>2, <1>5, <1>9 DEF AdmitReserve, LeaveQueue, Goto, authority, disposal
<1>10. ASSUME NEW c \in Call, Resume(c) PROVE LifeInv'
  BY <1>2, <1>4, <1>10 DEF Resume, Grant, Goto, disposal
<1>11. ASSUME NEW e \in Call, Created(e) PROVE LifeInv'
  <2>1. status[e] = "loading" /\ promise[e] = "pending" /\ closes[e] = 0
    BY <1>11 DEF Created, LeakInv, ClosingInv
  <2>2. CASE StillWanted(e) /\ InstallReady(e)
    BY <1>11, <2>1, <2>2 DEF Created, StillWanted, InstallReady, Loading, caller, disposal
  <2>3. CASE ~StillWanted(e)
    BY <1>11, <2>1, <2>3 DEF Created, caller, disposal
  <2>. QED
    BY <1>11, <2>2, <2>3 DEF Created
<1>12. ASSUME NEW e \in Call, CreationFails(e) PROVE LifeInv'
  <2>1. status[e] = "loading"
    BY <1>12 DEF CreationFails, LeakInv, ClosingInv
  <2>. QED
    BY <1>12, <2>1 DEF CreationFails, ForgetLoading, Loading, caller, disposal
<1>13. ASSUME NEW e \in Call, Stopped(e) PROVE LifeInv'
  <2>1. status[e] = "loading"
    BY <1>13 DEF Stopped, LeakInv, ClosingInv
  <2>. QED
    BY <1>13, <2>1 DEF Stopped, caller, disposal
<1>14. ASSUME NEW e \in Call, EndEviction(e) PROVE LifeInv'
  <2>1. status[e] = "disposing" /\ closes[e] = 1
    BY <1>14 DEF LeakInv, ClosingInv, EndEviction
  <2>2. key' = key /\ state' = state /\ promise' = promise /\ evicting' = evicting \ {e}
        /\ disposer' = IF disposer = "eviction" /\ current = e THEN "loop" ELSE disposer
    BY <1>14 DEF EndEviction, EvictionSucceeds, EvictionFails, EvictionSeen
  <2>3. CASE EvictionSucceeds(e)
    BY <2>1, <2>2, <2>3 DEF EvictionSucceeds
  <2>4. CASE EvictionFails(e)
    BY <2>1, <2>2, <2>4 DEF EvictionFails
  <2>. QED
    BY <1>14, <2>3, <2>4 DEF EndEviction
<1>15. ASSUME Sweep \/ SweepNext PROVE LifeInv'
  BY <1>2, <1>3, <1>15 DEF Sweep, SweepNext, authority, caller, disposal
<1>16. ASSUME Dispose \/ PendingSettled \/ Disposed PROVE LifeInv'
  <2>1. UNCHANGED <<entries, status, promise, closes, evicting, key>>
    BY <1>16 DEF Dispose, PendingSettled, Disposed, authority, caller
  <2>2. (state' = "accepting" <=> disposer' = "none") /\ (state' = "disposed" <=> disposer' = "done")
        /\ (disposer' \in {"none", "pending"} => disposer \in {"none", "pending"})
    BY <1>16 DEF Dispose, PendingSettled, Disposed
  <2>. QED
    BY <2>1, <2>2
<1>17. ASSUME NEW e \in Call, DisposeEntry(e) PROVE LifeInv'
  <2>1. state' = state /\ promise' = promise /\ key' = key
        /\ disposer = "loop" /\ disposer' \in {"loop", "eviction", "closing"}
    BY <1>17 DEF DisposeEntry, AwaitEviction, authority, caller
  <2>2. CASE entries' = [entries EXCEPT ![key[e]] = NoCall] /\ UNCHANGED authority
    BY <2>1, <2>2 DEF authority
  <2>3. CASE UNCHANGED <<entries, authority>>
    BY <2>1, <2>3 DEF authority
  <2>4. CASE /\ status[e] = "ready" /\ UNCHANGED entries
             /\ status' = [status EXCEPT ![e] = "disposing"] /\ closes' = [closes EXCEPT ![e] = @ + 1]
    BY <2>1, <2>4
  <2>. QED
    BY <1>17, <2>2, <2>3, <2>4 DEF DisposeEntry
<1>18. ASSUME AuthorityDisposed PROVE LifeInv'
  <2>1. state' = state /\ promise' = promise /\ key' = key
        /\ disposer = "closing" /\ disposer' = "loop"
    BY <1>18 DEF AuthorityDisposed, caller
  <2>2. current \in Call /\ status[current] = "disposing" /\ closes[current] = 1
    BY <2>1 DEF LeakInv, ClosingInv
  <2>3. CASE /\ entries' = [entries EXCEPT ![key[current]] = NoCall]
             /\ status' = [status EXCEPT ![current] = "gone"] /\ UNCHANGED closes
    BY <2>1, <2>2, <2>3
  <2>4. CASE closes' = [closes EXCEPT ![current] = @ - 1] /\ UNCHANGED <<entries, status>>
    BY <2>1, <2>2, <2>4
  <2>. QED
    BY <1>18, <2>3, <2>4 DEF AuthorityDisposed
<1>19. CASE UNCHANGED vars
  BY <1>2, <1>19 DEF vars, authority, caller, disposal
<1>. QED
  BY <1>6, <1>7, <1>8, <1>9, <1>10, <1>11, <1>12, <1>13, <1>14, <1>15, <1>16, <1>17, <1>18, <1>19
     DEF Next, CallContinues, EntryContinues, DisposerContinues

\* A step in which no call stops using an entry keeps the counts true when every
\* counter it raises is raised for a call.
LEMMA KeepsLeases ==
  ASSUME LeakInv, key' = key, pc' \in [Call -> Label],
         \A d \in Call : pc[d] \in InUse => pc'[d] = pc[d] /\ on'[d] = on[d],
         \A d \in Call : pc'[d] \in Dealing =>
            \/ pc[d] \in Dealing /\ on'[d] = on[d]
            \/ on'[d] \in Call /\ key[on'[d]] = key[d] /\ status'[on'[d]] # "none",
         \A e \in Call : status[e] # "none" => status'[e] # "none",
         \A e \in Call : promise'[e] \in {"none", "pending"} =>
            /\ promise[e] \in {"none", "pending"}
            /\ \/ waits'[e] = waits[e]
               \/ waits'[e] <= Cardinality(Users(pc', on', {"waiting"}, e)),
         waits' \in [Call -> Nat], leases' \in [Call -> Nat],
         state' = "accepting" => \A e \in Call :
            /\ status'[e] = "ready" => \/ leases'[e] <= Cardinality(Users(pc, on, InUse, e))
                                       \/ leases'[e] <= Cardinality(Users(pc', on', InUse, e))
            /\ status'[e] = "disposing" => leases'[e] = 0
  PROVE  LeaseInv'
<1>1. \A c \in Call : pc'[c] \in Dealing =>
        on'[c] \in Call /\ key[on'[c]] = key[c] /\ status'[on'[c]] # "none"
  BY DEF LeakInv, LeaseInv
<1>2. ASSUME NEW e \in Call
      PROVE  /\ Cardinality(Users(pc, on, {"waiting"}, e)) <= Cardinality(Users(pc', on', {"waiting"}, e))
             /\ Cardinality(Users(pc, on, InUse, e)) <= Cardinality(Users(pc', on', InUse, e))
  <2>1. /\ Users(pc, on, {"waiting"}, e) \subseteq Users(pc', on', {"waiting"}, e)
        /\ Users(pc, on, InUse, e) \subseteq Users(pc', on', InUse, e)
    BY DEF Users, InUse
  <2>. QED
    BY <2>1, MoreUsers
<1>3. ASSUME NEW e \in Call, promise'[e] \in {"none", "pending"}
      PROVE  waits'[e] <= Cardinality(Users(pc', on', {"waiting"}, e))
  <2>1. promise[e] \in {"none", "pending"} => waits[e] <= Cardinality(Users(pc, on, {"waiting"}, e))
    BY DEF LeakInv, LeaseInv
  <2>2. waits[e] \in Nat
    BY DEF LeakInv, TypeOK
  <2>. QED
    BY <1>2, <1>3, <2>1, <2>2, UsersFinite
<1>4. ASSUME NEW e \in Call, state' = "accepting"
      PROVE  /\ status'[e] = "ready" => leases'[e] <= Cardinality(Users(pc', on', InUse, e))
             /\ status'[e] = "disposing" => leases'[e] = 0
  BY <1>2, <1>4, UsersFinite
<1>5. \A e \in Call : /\ Users(pc, on, {"waiting"}, e)' = Users(pc', on', {"waiting"}, e)
                      /\ Users(pc, on, InUse, e)' = Users(pc', on', InUse, e)
  BY DEF Users
<1>. QED
  BY <1>1, <1>3, <1>4, <1>5 DEF LeaseInv

\* A call that takes an entry up is one user more.
LEMMA TakesUp ==
  ASSUME LeakInv, NEW c \in Call, NEW label \in InUse, NEW e, Goto(c, label, e), pc[c] \notin InUse
  PROVE  /\ Cardinality(Users(pc, on, InUse, e)) + 1 <= Cardinality(Users(pc', on', InUse, e))
         /\ label = "waiting" =>
              Cardinality(Users(pc, on, {"waiting"}, e)) + 1 <= Cardinality(Users(pc', on', {"waiting"}, e))
<1>1. pc' = [pc EXCEPT ![c] = label] /\ on' = [on EXCEPT ![c] = e] /\ pc \in [Call -> Label]
      /\ on \in [Call -> Call \cup {NoCall}]
  BY DEF Goto, LeakInv, TypeOK, AdmissionInv
<1>2. /\ Users(pc, on, InUse, e) \subseteq Users(pc', on', InUse, e)
      /\ c \in Users(pc', on', InUse, e) /\ c \notin Users(pc, on, InUse, e)
  BY <1>1 DEF Users, InUse
<1>3. label = "waiting" =>
        /\ Users(pc, on, {"waiting"}, e) \subseteq Users(pc', on', {"waiting"}, e)
        /\ c \in Users(pc', on', {"waiting"}, e) /\ c \notin Users(pc, on, {"waiting"}, e)
  BY <1>1 DEF Users, InUse
<1>. QED
  BY <1>2, <1>3, OneMoreUser

LEMMA LeaseStep == LeakInv /\ [Next]_vars => LeaseInv'
<1>. SUFFICES ASSUME LeakInv, [Next]_vars PROVE LeaseInv'
  OBVIOUS
<1>0. /\ entries \in [Key -> Call \cup {NoCall}] /\ key \in [Call -> Key] /\ key' = key
      /\ status \in [Call -> {"none", "loading", "ready", "disposing", "gone"}]
      /\ promise \in [Call -> {"none", "pending", "stopping", "ok"} \cup Rejected]
      /\ waits \in [Call -> Nat] /\ leases \in [Call -> Nat]
      /\ waits' \in [Call -> Nat] /\ leases' \in [Call -> Nat]
      /\ pc \in [Call -> Label] /\ pc' \in [Call -> Label] /\ on \in [Call -> Call \cup {NoCall}]
      /\ LifeInv /\ LeaseInv
  BY TypeStep, KeysKept DEF LeakInv, TypeOK, Label
<1>. USE <1>0, CallAssumption
<1>1. \A e \in Call :
        /\ promise[e] \in {"none", "pending"} => waits[e] <= Cardinality(Users(pc, on, {"waiting"}, e))
        /\ state = "accepting" =>
             /\ status[e] = "ready" => leases[e] <= Cardinality(Users(pc, on, InUse, e))
             /\ status[e] = "disposing" => leases[e] = 0
  BY DEF LeaseInv
<1>2. ASSUME NEW c \in Call, pc[c] \notin InUse, NEW label, NEW e, Goto(c, label, e), label \notin InUse,
             label \in Dealing => e \in Call /\ key[e] = key[c] /\ status'[e] # "none",
             UNCHANGED <<waits, leases, state>>,
             \A f \in Call : /\ status[f] # "none" => status'[f] # "none"
                             /\ promise'[f] \in {"none", "pending"} => promise[f] \in {"none", "pending"}
                             /\ status'[f] = "ready" => status[f] = "ready"
                             /\ status'[f] = "disposing" => status[f] = "disposing"
                                                            \/ (status[f] = "ready" /\ leases[f] = 0)
      PROVE  LeaseInv'
  <2>1. \A d \in Call : pc[d] \in InUse => pc'[d] = pc[d] /\ on'[d] = on[d]
    BY <1>2 DEF Goto
  <2>2. \A d \in Call : pc'[d] \in Dealing =>
            \/ pc[d] \in Dealing /\ on'[d] = on[d]
            \/ on'[d] \in Call /\ key[on'[d]] = key[d] /\ status'[on'[d]] # "none"
    BY <1>2 DEF Goto
  <2>. QED
    BY <1>1, <1>2, <2>1, <2>2, KeepsLeases
<1>3. ASSUME UNCHANGED <<pc, on, waits, leases>>,
             \A f \in Call : /\ status[f] # "none" => status'[f] # "none"
                             /\ promise'[f] \in {"none", "pending"} => promise[f] \in {"none", "pending"},
             state' = "accepting" => state = "accepting" /\ \A f \in Call :
                  /\ status'[f] = "ready" => leases[f] = 0 \/ status[f] = "ready"
                  /\ status'[f] = "disposing" => leases[f] = 0
      PROVE  LeaseInv'
  <2>1. state' = "accepting" => \A f \in Call :
            /\ status'[f] = "ready" => leases'[f] <= Cardinality(Users(pc, on, InUse, f))
            /\ status'[f] = "disposing" => leases'[f] = 0
    BY <1>1, <1>3, UsersFinite
  <2>. QED
    BY <1>3, <2>1, KeepsLeases
<1>4. ASSUME NEW c \in Call, NEW e \in Call, pc[c] \notin InUse, WaitFor(c, e), key[e] = key[c],
             status'[e] # "none", UNCHANGED <<leases, state>>,
             \A f \in Call : /\ status[f] # "none" => status'[f] # "none"
                             /\ promise'[f] \in {"none", "pending"} => promise[f] \in {"none", "pending"}
                             /\ status'[f] = "ready" => status[f] = "ready"
                             /\ status'[f] = "disposing" => status[f] = "disposing"
      PROVE  LeaseInv'
  <2>1. Goto(c, "waiting", e) /\ waits' = [waits EXCEPT ![e] = waits[e] + 1]
    BY <1>4 DEF WaitFor
  <2>2. Cardinality(Users(pc, on, {"waiting"}, e)) + 1 <= Cardinality(Users(pc', on', {"waiting"}, e))
    BY <1>4, <2>1, TakesUp DEF InUse
  <2>3. \A f \in Call : promise'[f] \in {"none", "pending"} =>
            /\ promise[f] \in {"none", "pending"}
            /\ \/ waits'[f] = waits[f]
               \/ waits'[f] <= Cardinality(Users(pc', on', {"waiting"}, f))
    <3>1. promise[e] \in {"none", "pending"} => waits[e] + 1 <= Cardinality(Users(pc', on', {"waiting"}, e))
      BY <1>1, <2>2, UsersFinite
    <3>. QED
      BY <1>4, <2>1, <3>1
  <2>4. \A d \in Call : pc[d] \in InUse => pc'[d] = pc[d] /\ on'[d] = on[d]
    BY <1>4, <2>1 DEF Goto
  <2>5. \A d \in Call : pc'[d] \in Dealing =>
            \/ pc[d] \in Dealing /\ on'[d] = on[d]
            \/ on'[d] \in Call /\ key[on'[d]] = key[d] /\ status'[on'[d]] # "none"
    BY <1>4, <2>1 DEF Goto
  <2>. QED
    BY <1>1, <1>4, <2>3, <2>4, <2>5, KeepsLeases
<1>5. ASSUME NEW c \in Call, NEW e \in Call, pc[c] \notin InUse, AcquireReady(c, e), key[e] = key[c],
             status[e] # "none", UNCHANGED <<waits, status, promise, state>>
      PROVE  LeaseInv'
  <2>1. CASE Goto(c, "failed", e) /\ UNCHANGED leases
    BY <1>2, <1>5, <2>1 DEF InUse, Dealing
  <2>2. CASE leases' = [leases EXCEPT ![e] = leases[e] + 1] /\ Goto(c, "holding", e)
             /\ state = "accepting" /\ status[e] = "ready"
    <3>1. Cardinality(Users(pc, on, InUse, e)) + 1 <= Cardinality(Users(pc', on', InUse, e))
      BY <1>5, <2>2, TakesUp DEF InUse
    <3>2. leases[e] + 1 <= Cardinality(Users(pc', on', InUse, e))
      BY <1>1, <2>2, <3>1, UsersFinite
    <3>3. \A d \in Call : pc[d] \in InUse => pc'[d] = pc[d] /\ on'[d] = on[d]
      BY <1>5, <2>2 DEF Goto
    <3>4. \A d \in Call : pc'[d] \in Dealing =>
              \/ pc[d] \in Dealing /\ on'[d] = on[d]
              \/ on'[d] \in Call /\ key[on'[d]] = key[d] /\ status'[on'[d]] # "none"
      BY <1>5, <2>2 DEF Goto
    <3>5. \A f \in Call :
            /\ status'[f] = "ready" => \/ leases'[f] <= Cardinality(Users(pc, on, InUse, f))
                                       \/ leases'[f] <= Cardinality(Users(pc', on', InUse, f))
            /\ status'[f] = "disposing" => leases'[f] = 0
      BY <1>1, <1>5, <2>2, <3>2
    <3>. QED
      BY <1>5, <3>3, <3>4, <3>5, KeepsLeases
  <2>. QED
    BY <1>5, <2>1, <2>2 DEF AcquireReady
<1>6. ASSUME NEW e \in Idle, BeginEviction(e)
      PROVE  /\ UNCHANGED <<waits, leases, promise>>
             /\ \A f \in Call : /\ status[f] # "none" => status'[f] # "none"
                                /\ status'[f] = "ready" => status[f] = "ready"
                                /\ status'[f] = "disposing" => status[f] = "disposing"
                                                               \/ (status[f] = "ready" /\ leases[f] = 0)
  BY <1>6 DEF BeginEviction, Idle, Resident
<1>7. \A k \in Key : entries[k] # NoCall => entries[k] \in Call /\ key[entries[k]] = k
                                            /\ status[entries[k]] # "none"
  BY DEF LifeInv
<1>8. ASSUME NEW c \in Call, Reserve(c)
      PROVE  /\ status'[c] # "none" /\ UNCHANGED leases
             /\ \A f \in Call : /\ status[f] # "none" => status'[f] # "none"
                                /\ promise'[f] \in {"none", "pending"} => promise[f] \in {"none", "pending"} \/ f = c
                                /\ status'[f] = "ready" => status[f] = "ready"
                                /\ status'[f] = "disposing" => status[f] = "disposing"
  BY <1>8 DEF Reserve
<1>9. \A c \in Call : pc[c] \in {"start", "reserve"} => status[c] = "none" /\ promise[c] = "none"
  BY DEF LeakInv, ClosingInv
<1>10. ASSUME NEW c \in Call, Acquire(c) PROVE LeaseInv'
  <2>1. pc[c] \notin InUse /\ key[c] \in Key
    BY <1>10 DEF Acquire, InUse
  <2>2. CASE Goto(c, "failed", NoCall) /\ UNCHANGED <<state, authority>>
    BY <1>2, <2>1, <2>2 DEF authority, InUse, Dealing
  <2>3. CASE /\ entries[key[c]] # NoCall /\ AcquireReady(c, entries[key[c]])
             /\ UNCHANGED <<state, status, waits, promise>>
    BY <1>5, <1>7, <2>1, <2>3
  <2>4. CASE /\ entries[key[c]] # NoCall /\ WaitFor(c, entries[key[c]])
             /\ UNCHANGED <<state, status, leases, promise>>
    BY <1>4, <1>7, <2>1, <2>4
  <2>5. CASE Reserve(c) /\ WaitFor(c, c) /\ UNCHANGED state
    BY <1>4, <1>8, <1>9, <1>10, <2>1, <2>5 DEF Acquire
  <2>6. CASE Goto(c, "queued", NoCall) /\ UNCHANGED <<state, authority>>
    BY <1>2, <2>1, <2>6 DEF authority, InUse, Dealing
  <2>. QED
    BY <1>10, <2>2, <2>3, <2>4, <2>5, <2>6 DEF Acquire, Loading
<1>11. ASSUME NEW c \in Call, Admit(c) PROVE LeaseInv'
  <2>1. /\ pc[c] \notin InUse /\ UNCHANGED <<state, authority>>
        /\ \/ \E label \in {"failed", "capacity"} : Goto(c, label, NoCall)
           \/ entries[key[c]] # NoCall /\ Goto(c, Handover(entries[key[c]]), entries[key[c]])
    BY <1>11 DEF Admit, LeaveQueue, InUse
  <2>2. \A e : Handover(e) \in {"joining", "admitted"}
    BY DEF Handover
  <2>. QED
    BY <1>2, <1>7, <2>1, <2>2 DEF authority, InUse, Dealing
<1>12. ASSUME NEW c \in Call, MakeRoom(c) \/ RefuseAdmission(c) PROVE LeaseInv'
  <2>1. /\ pc[c] \notin InUse /\ UNCHANGED state
        /\ \E label \in {"reserve", "failed", "evicting"}, e \in Call \cup {NoCall} : Goto(c, label, e)
        /\ UNCHANGED authority \/ \E e \in Idle : BeginEviction(e)
    BY <1>12 DEF MakeRoom, RefuseAdmission, LeaveQueue, InUse, Idle, Resident
  <2>. QED
    BY <1>2, <1>6, <2>1 DEF authority, InUse, Dealing
<1>13. ASSUME NEW c \in Call, AdmitReserve(c) PROVE LeaseInv'
  <2>1. pc[c] \notin InUse /\ UNCHANGED <<state, waits, leases>> /\ key[c] \in Key
    BY <1>13 DEF AdmitReserve, Reserve, LeaveQueue, InUse, authority
  <2>2. CASE Goto(c, "failed", NoCall) /\ UNCHANGED authority
    BY <1>2, <2>1, <2>2 DEF authority, InUse, Dealing
  <2>3. CASE entries[key[c]] # NoCall /\ Goto(c, Handover(entries[key[c]]), entries[key[c]])
             /\ UNCHANGED authority
    <3>1. Handover(entries[key[c]]) \notin InUse
      BY DEF Handover, InUse
    <3>. QED
      BY <1>2, <1>7, <2>1, <2>3, <3>1 DEF authority
  <2>4. CASE Reserve(c) /\ Goto(c, "joining", c)
    BY <1>2, <1>8, <1>9, <1>13, <2>1, <2>4 DEF AdmitReserve, InUse
  <2>. QED
    BY <1>13, <2>2, <2>3, <2>4 DEF AdmitReserve, LeaveQueue
<1>14. ASSUME NEW c \in Call, Admitted(c) PROVE LeaseInv'
  <2>1. pc[c] \notin InUse /\ on[c] \in Call /\ key[on[c]] = key[c] /\ status[on[c]] # "none"
    BY <1>14 DEF Admitted, LeaseInv, InUse, Dealing
  <2>. QED
    BY <1>4, <1>5, <1>14, <2>1 DEF Admitted
<1>15. ASSUME NEW c \in Call, Resume(c) PROVE LeaseInv'
  <2>1. on[c] \in Call /\ key[on[c]] = key[c] /\ pc[c] = "waiting" /\ promise[on[c]] \notin {"none", "pending"}
    BY <1>15 DEF Resume, LeaseInv, Dealing, Rejected
  <2>2. UNCHANGED <<state, status, waits, promise>> /\ \E label \in {"holding", "failed"} : Goto(c, label, on[c])
    BY <1>15 DEF Resume, Grant
  <2>3. \A d \in Call : pc'[d] \in Dealing => pc[d] \in Dealing /\ on'[d] = on[d]
    BY <2>1, <2>2 DEF Goto, Dealing
  <2>4. \A f \in Call : f # on[c] => /\ Users(pc, on, {"waiting"}, f) \subseteq Users(pc', on', {"waiting"}, f)
                                     /\ Users(pc, on, InUse, f) \subseteq Users(pc', on', InUse, f)
    BY <2>1, <2>2 DEF Goto, Users
  <2>5. \A f \in Call : f # on[c] =>
          /\ Cardinality(Users(pc, on, {"waiting"}, f)) <= Cardinality(Users(pc', on', {"waiting"}, f))
          /\ Cardinality(Users(pc, on, InUse, f)) <= Cardinality(Users(pc', on', InUse, f))
    BY <2>4, MoreUsers
  <2>6. \A f \in Call : promise'[f] \in {"none", "pending"} =>
          waits'[f] <= Cardinality(Users(pc', on', {"waiting"}, f))
    BY <1>1, <2>1, <2>2, <2>5, UsersFinite
  <2>7. ASSUME state = "accepting", NEW f \in Call
        PROVE  /\ status[f] = "ready" => leases'[f] <= Cardinality(Users(pc', on', InUse, f))
               /\ status[f] = "disposing" => leases'[f] = 0
    <3>1. leases' = leases
      BY <1>15, <2>7 DEF Resume, Grant
    <3>2. CASE f # on[c]
      BY <1>1, <2>5, <2>7, <3>1, <3>2, UsersFinite
    <3>3. CASE f = on[c] /\ status[f] = "ready"
      <4>1. entries[key[f]] = f /\ promise[f] = "ok"
        BY <2>7, <3>3 DEF LifeInv
      <4>2. Goto(c, "holding", f)
        BY <1>15, <2>1, <2>7, <3>3, <4>1 DEF Resume, Grant, Rejected
      <4>3. Users(pc, on, InUse, f) \subseteq Users(pc', on', InUse, f)
        BY <2>1, <3>3, <4>2 DEF Goto, Users, InUse
      <4>. QED
        BY <1>1, <2>7, <3>1, <3>3, <4>3, MoreUsers, UsersFinite
    <3>. QED
      BY <1>1, <2>7, <3>1, <3>2, <3>3
  <2>8. \A f \in Call : /\ Users(pc, on, {"waiting"}, f)' = Users(pc', on', {"waiting"}, f)
                        /\ Users(pc, on, InUse, f)' = Users(pc', on', InUse, f)
    BY DEF Users
  <2>. QED
    BY <2>2, <2>3, <2>6, <2>7, <2>8 DEF LeaseInv
<1>16. ASSUME NEW c \in Call, Release(c) PROVE LeaseInv'
  <2>1. on[c] \in Call /\ pc[c] = "holding" /\ Goto(c, "released", on[c])
        /\ UNCHANGED <<state, status, waits, promise>>
        /\ leases' = [leases EXCEPT ![on[c]] = Decrement(leases[on[c]])]
    BY <1>16 DEF Release, ReleasedLease, LeaseInv, Dealing
  <2>2. \A d \in Call : pc'[d] \in Dealing => pc[d] \in Dealing /\ on'[d] = on[d]
    BY <2>1 DEF Goto, Dealing
  <2>3. \A f \in Call : /\ Users(pc, on, {"waiting"}, f) \subseteq Users(pc', on', {"waiting"}, f)
                        /\ f # on[c] => Users(pc, on, InUse, f) \subseteq Users(pc', on', InUse, f)
                        /\ Users(pc, on, InUse, f) \ {c} \subseteq Users(pc', on', InUse, f)
    BY <2>1 DEF Goto, Users, InUse
  <2>4. \A f \in Call :
          /\ Cardinality(Users(pc, on, {"waiting"}, f)) <= Cardinality(Users(pc', on', {"waiting"}, f))
          /\ f # on[c] => Cardinality(Users(pc, on, InUse, f)) <= Cardinality(Users(pc', on', InUse, f))
          /\ Cardinality(Users(pc, on, InUse, f)) - 1 <= Cardinality(Users(pc', on', InUse, f))
    BY <2>3, MoreUsers, OneUserLess
  <2>5. \A f \in Call : promise'[f] \in {"none", "pending"} =>
          waits'[f] <= Cardinality(Users(pc', on', {"waiting"}, f))
    BY <1>1, <2>1, <2>4, UsersFinite
  <2>6. ASSUME state = "accepting", NEW f \in Call
        PROVE  /\ status[f] = "ready" => leases'[f] <= Cardinality(Users(pc', on', InUse, f))
               /\ status[f] = "disposing" => leases'[f] = 0
    <3>1. CASE f # on[c]
      BY <1>1, <2>1, <2>4, <2>6, <3>1, UsersFinite
    <3>2. CASE f = on[c]
      <4>1. leases'[f] = IF leases[f] = 0 THEN 0 ELSE leases[f] - 1
        BY <2>1, <3>2 DEF Decrement
      <4>. QED
        BY <1>1, <2>4, <2>6, <4>1, UsersFinite
    <3>. QED
      BY <3>1, <3>2
  <2>7. \A f \in Call : /\ Users(pc, on, {"waiting"}, f)' = Users(pc', on', {"waiting"}, f)
                        /\ Users(pc, on, InUse, f)' = Users(pc', on', InUse, f)
    BY DEF Users
  <2>. QED
    BY <2>1, <2>2, <2>5, <2>6, <2>7 DEF LeaseInv
<1>17. ASSUME NEW c \in Call, Activity(c) \/ Evict(c) PROVE LeaseInv'
  BY <1>1, <1>3, <1>6, <1>17 DEF Activity, Evict, caller
<1>18. ASSUME NEW e \in Call, Created(e) PROVE LeaseInv'
  <2>1. CASE InstallReady(e) /\ promise[e] = "pending" /\ UNCHANGED <<state, caller>>
    <3>1. Users(pc, on, {"waiting"}, e) \subseteq Users(pc, on, InUse, e)
      BY DEF Users, InUse
    <3>2. waits[e] <= Cardinality(Users(pc, on, InUse, e))
      BY <1>1, <2>1, <3>1, MoreUsers, UsersFinite
    <3>3. \A f \in Call :
            /\ status'[f] = "ready" => f = e \/ status[f] = "ready"
            /\ status'[f] = "disposing" => f # e /\ status[f] = "disposing"
            /\ status[f] # "none" => status'[f] # "none"
            /\ promise'[f] \in {"none", "pending"} => promise[f] \in {"none", "pending"}
            /\ leases'[f] = IF f = e THEN waits[e] ELSE leases[f]
      BY <2>1 DEF InstallReady
    <3>. QED
      BY <1>1, <2>1, <3>2, <3>3, KeepsLeases DEF InstallReady, caller
  <2>2. CASE ~StillWanted(e)
    BY <1>1, <1>3, <1>18, <2>2 DEF Created, caller
  <2>. QED
    BY <1>18, <2>1, <2>2 DEF Created
<1>19. ASSUME NEW e \in Call, CreationFails(e) \/ Stopped(e) PROVE LeaseInv'
  BY <1>1, <1>3, <1>19 DEF CreationFails, Stopped, caller
<1>20. ASSUME NEW e \in Call, EndEviction(e) PROVE LeaseInv'
  <2>1. status[e] = "disposing" /\ UNCHANGED <<state, waits, leases, promise, on>>
    BY <1>20 DEF LeakInv, ClosingInv, EndEviction, EvictionSucceeds, EvictionFails, EvictionSeen
  <2>2. \E label \in {"capacity", "refusable"} :
          pc' = [c \in Call |-> IF pc[c] = "evicting" /\ on[c] = e THEN label ELSE pc[c]]
    BY <1>20 DEF EndEviction, EvictionSucceeds, EvictionFails, EvictionSeen
  <2>3. status' = [status EXCEPT ![e] = "gone"] \/ status' = [status EXCEPT ![e] = "ready"]
    BY <1>20 DEF EndEviction, EvictionSucceeds, EvictionFails
  <2>4. \A d \in Call : /\ pc[d] \in InUse => pc'[d] = pc[d]
                        /\ pc'[d] \in Dealing => pc[d] \in Dealing
    BY <2>2 DEF InUse, Dealing
  <2>5. \A d \in Call : pc'[d] \in Dealing =>
            \/ pc[d] \in Dealing /\ on'[d] = on[d]
            \/ on'[d] \in Call /\ key[on'[d]] = key[d] /\ status'[on'[d]] # "none"
    BY <2>1, <2>4
  <2>6. state' = "accepting" => \A f \in Call :
            /\ status'[f] = "ready" => leases'[f] <= Cardinality(Users(pc, on, InUse, f))
            /\ status'[f] = "disposing" => leases'[f] = 0
    BY <1>1, <2>1, <2>3, UsersFinite
  <2>7. \A f \in Call : status[f] # "none" => status'[f] # "none"
    BY <2>3
  <2>. QED
    BY <2>1, <2>4, <2>5, <2>6, <2>7, KeepsLeases
<1>21. ASSUME Sweep \/ SweepNext PROVE LeaseInv'
  BY <1>1, <1>3, <1>6, <1>21 DEF Sweep, SweepNext, authority, caller
<1>22. ASSUME Dispose \/ PendingSettled \/ Disposed PROVE LeaseInv'
  BY <1>1, <1>3, <1>22 DEF Dispose, PendingSettled, Disposed, authority, caller
<1>23. ASSUME AuthorityDisposed \/ \E e \in Call : DisposeEntry(e) PROVE LeaseInv'
  <2>1. state # "accepting" /\ state' = state
    BY <1>23 DEF DisposeEntry, AuthorityDisposed, LifeInv
  <2>2. \A f \in Call : status[f] # "none" => status'[f] # "none"
    BY <1>23 DEF DisposeEntry, AuthorityDisposed, authority
  <2>. QED
    BY <1>3, <1>23, <2>1, <2>2 DEF DisposeEntry, AuthorityDisposed, authority, caller
<1>24. CASE UNCHANGED vars
  BY <1>1, <1>3, <1>24 DEF vars, authority, caller
<1>. QED
  BY <1>10, <1>11, <1>12, <1>13, <1>14, <1>15, <1>16, <1>17, <1>18, <1>19, <1>20, <1>21, <1>22,
     <1>23, <1>24 DEF Next, CallContinues, EntryContinues, DisposerContinues

LEMMA DisposalStep == LeakInv /\ [Next]_vars => DisposalInv'
<1>. SUFFICES ASSUME LeakInv, [Next]_vars PROVE DisposalInv'
  OBVIOUS
<1>0. /\ entries \in [Key -> Call \cup {NoCall}] /\ key \in [Call -> Key]
      /\ status \in [Call -> {"none", "loading", "ready", "disposing", "gone"}]
      /\ failures \in BOOLEAN /\ evicting \subseteq Call /\ LifeInv /\ DisposalInv
  BY DEF LeakInv, TypeOK
<1>. USE <1>0 DEF DisposalInv, Underway
<1>1. ASSUME UNCHANGED <<todo, current, disposer, failures>>,
             \A f \in Call : /\ status'[f] = "ready" => status[f] = "ready" \/ disposer = "none"
                             /\ status'[f] = "disposing" =>
                                  \/ status[f] = "disposing" /\ (f \in evicting => f \in evicting')
                                  \/ status[f] = "ready" /\ f \in evicting'
      PROVE  DisposalInv'
  BY <1>1
<1>2. ASSUME NEW e \in Idle, BeginEviction(e), UNCHANGED disposal PROVE DisposalInv'
  BY <1>1, <1>2 DEF BeginEviction, Idle, Resident, disposal
<1>3. ASSUME NEW c \in Call, Reserve(c), UNCHANGED disposal PROVE DisposalInv'
  BY <1>1, <1>3 DEF Reserve, disposal
<1>4. ASSUME UNCHANGED <<status, evicting, disposal>> PROVE DisposalInv'
  BY <1>1, <1>4 DEF disposal
<1>5. ASSUME NEW c \in Call, Acquire(c) \/ CallContinues(c) PROVE DisposalInv'
  <2>1. UNCHANGED disposal
        /\ \/ UNCHANGED <<status, evicting>> \/ Reserve(c) \/ \E e \in Idle : BeginEviction(e)
    BY <1>5 DEF Acquire, CallContinues, Admit, MakeRoom, RefuseAdmission, AdmitReserve, Admitted,
       Resume, authority
  <2>. QED
    BY <1>2, <1>3, <1>4, <2>1
<1>6. ASSUME NEW c \in Call, Release(c) \/ Activity(c) \/ CreationFails(c) \/ Stopped(c)
      PROVE  DisposalInv'
  BY <1>4, <1>6 DEF Release, Activity, CreationFails, Stopped
<1>7. ASSUME Sweep \/ SweepNext \/ \E e \in Call : Evict(e) PROVE DisposalInv'
  <2>1. UNCHANGED disposal /\ (UNCHANGED authority \/ \E e \in Idle : BeginEviction(e))
    BY <1>7 DEF Sweep, SweepNext, Evict
  <2>. QED
    BY <1>2, <1>4, <2>1 DEF authority
<1>8. ASSUME NEW e \in Call, Created(e) PROVE DisposalInv'
  <2>1. UNCHANGED disposal /\ evicting' = evicting
        /\ (UNCHANGED status \/ (disposer = "none" /\ status' = [status EXCEPT ![e] = "ready"]))
    BY <1>8 DEF Created, StillWanted, InstallReady, LifeInv
  <2>. QED
    BY <1>1, <2>1 DEF disposal
<1>9. ASSUME NEW e \in Call, EndEviction(e) PROVE DisposalInv'
  <2>1. status[e] = "disposing" /\ evicting' = evicting \ {e} /\ UNCHANGED <<todo, current>>
        /\ disposer' = IF disposer = "eviction" /\ current = e THEN "loop" ELSE disposer
    BY <1>9 DEF LeakInv, ClosingInv, EndEviction, EvictionSucceeds, EvictionFails, EvictionSeen
  <2>2. CASE status' = [status EXCEPT ![e] = "gone"] /\ UNCHANGED failures
    BY <2>1, <2>2
  <2>3. CASE status' = [status EXCEPT ![e] = "ready"]
             /\ failures' = (failures \/ (disposer = "eviction" /\ current = e))
    <3>1. e \in evicting /\ (disposer = "closing" => current # e)
      BY <1>9 DEF EndEviction, LeakInv, ClosingInv
    <3>. QED
      BY <2>1, <2>3, <3>1
  <2>. QED
    BY <1>9, <2>2, <2>3 DEF EndEviction, EvictionSucceeds, EvictionFails
<1>10. ASSUME Dispose PROVE DisposalInv'
  BY <1>10 DEF Dispose
<1>11. ASSUME PendingSettled PROVE DisposalInv'
  <2>1. \A f \in Call : status[f] \in {"ready", "disposing"} =>
          f \in Resident /\ (status[f] = "disposing" => f \in evicting)
    BY <1>11, CallAssumption DEF PendingSettled, LifeInv, Resident
  <2>. QED
    BY <1>11, <2>1 DEF PendingSettled, authority
<1>12. ASSUME NEW e \in Call, DisposeEntry(e) PROVE DisposalInv'
  <2>1. disposer = "loop" /\ e \in todo /\ todo' = todo \ {e} /\ current' = e /\ UNCHANGED failures
    BY <1>12 DEF DisposeEntry
  <2>2. CASE status[e] \in {"loading", "gone"} /\ UNCHANGED <<authority, disposer>>
    BY <2>1, <2>2 DEF authority
  <2>3. CASE e \in evicting /\ disposer' = "eviction" /\ UNCHANGED authority /\ status[e] = "disposing"
    BY <2>1, <2>3 DEF authority
  <2>4. CASE disposer' = "closing" /\ status' = [status EXCEPT ![e] = "disposing"] /\ UNCHANGED evicting
    BY <2>1, <2>4
  <2>. QED
    BY <1>12, <2>2, <2>3, <2>4 DEF DisposeEntry, AwaitEviction
<1>13. ASSUME AuthorityDisposed PROVE DisposalInv'
  <2>1. disposer = "closing" /\ disposer' = "loop" /\ UNCHANGED <<todo, current, evicting>>
    BY <1>13 DEF AuthorityDisposed
  <2>2. CASE status' = [status EXCEPT ![current] = "gone"] /\ UNCHANGED failures
    <3>1. current \in Call
      BY <2>1 DEF LeakInv, ClosingInv
    <3>. QED
      BY <2>1, <2>2, <3>1
  <2>3. CASE failures'
    BY <2>1, <2>3
  <2>. QED
    BY <1>13, <2>2, <2>3 DEF AuthorityDisposed
<1>14. ASSUME Disposed PROVE DisposalInv'
  BY <1>14 DEF Disposed, authority
<1>15. CASE UNCHANGED vars
  BY <1>4, <1>15 DEF vars, authority
<1>. QED
  BY <1>5, <1>6, <1>7, <1>8, <1>9, <1>10, <1>11, <1>12, <1>13, <1>14, <1>15
     DEF Next, EntryContinues, DisposerContinues

LEMMA LeakInit == Init => LeakInv
<1>. SUFFICES ASSUME Init PROVE LeakInv
  OBVIOUS
<1>1. AdmissionInv
  BY AdmissionInit
<1>2. ClosingInv
  BY KeyAssumption DEF Init, ClosingInv, Rejected, Label
<1>3. TypeOK
  BY <1>1 DEF Init, TypeOK, AdmissionInv, Rejected
<1>4. LifeInv /\ DisposalInv
  BY DEF Init, LifeInv, DisposalInv, Underway
<1>5. \A e \in Call : waits[e] <= Cardinality(Users(pc, on, {"waiting"}, e))
  BY UsersFinite DEF Init
<1>. QED
  BY <1>1, <1>2, <1>3, <1>4, <1>5 DEF Init, LeakInv, LeaseInv, Dealing

\* No lease is counted for nobody, so that a registry in use never keeps an
\* authority resident for no one (livehost.authority-registry.ts: acquire, release,
\* the installation of a created authority), and a dispose() that reports no
\* failure has left no authority running (dispose()).
THEOREM NothingLeaksEver == Spec => []NothingLeaks
<1>1. LeakInv /\ [Next]_vars => LeakInv'
  BY TypeStep, AdmissionStep, ClosingStep, LifeStep, LeaseStep, DisposalStep DEF LeakInv
<1>2. ASSUME LeakInv PROVE NoLeakedLease
  <2>1. ASSUME NEW e \in Resident PROVE e \in Call
    BY <1>2, <2>1 DEF LeakInv, TypeOK, Resident
  <2>. QED
    BY <1>2, <2>1 DEF LeakInv, LeaseInv, NoLeakedLease, Users, InUse
<1>3. ASSUME LeakInv PROVE NothingLeftBehind
  <2>. SUFFICES ASSUME state = "disposed", ~failures, NEW e \in Call, promise[e] = "ok"
                PROVE  closes[e] = 1 /\ e \notin evicting
    BY DEF NothingLeftBehind
  <2>1. disposer = "done" /\ todo = {} /\ status[e] \in {"ready", "disposing", "gone"}
    BY <1>3 DEF LeakInv, LifeInv, DisposalInv
  <2>2. status[e] = "gone"
    BY <1>3, <2>1 DEF LeakInv, DisposalInv, Underway
  <2>. QED
    BY <1>3, <2>2 DEF LeakInv, LifeInv, ClosingInv
<1>4. LeakInv => NothingLeaks
  BY <1>2, <1>3 DEF NothingLeaks, LeakInv
<1>. QED
  BY <1>1, <1>4, LeakInit, PTL DEF Spec
=============================================================================
