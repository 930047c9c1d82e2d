-------------------------- MODULE LocusPersistence --------------------------
(***************************************************************************)
(* A persistent Locus (api/locus/locus.persistence.ts): the authority of   *)
(* LocusAuthority whose gate is a durable append and whose barriers are    *)
(* checkpoints, over a storage adapter that keeps one checkpoint and the   *)
(* commits after it, with crashes, unloads and reloads.                    *)
(*                                                                         *)
(* The adapter is external: it follows the contract that                   *)
(* types/locus.persistence.types.ts and the storage of                     *)
(* tests/runtime-probes/locus-persistence.acceptance.mjs give it.  The     *)
(* disk is the log it restores to; commits up to ckpt are in the           *)
(* checkpoint's snapshot.                                                  *)
(***************************************************************************)
EXTENDS LocusAuthority

CONSTANTS Alike,       \* disjoint sets of calls: the commits of each set are equal
          MaxRestarts  \* bound: reloads in a behaviour

ASSUME MaxRestartsAssumption == MaxRestarts \in Nat

VARIABLES
  host,      \* "creating" | "up" | "unloading" | "down"
  disk,      \* [exists, ckpt, log]
  verdict,   \* the adapter's answer to the running append or checkpoint
  restarts

pvars == <<host, disk, verdict, restarts>>
allvars == <<vars, pvars>>

\* The content of a call's commit: the calls that have the same.
Edit == [t \in Task |-> {t} \cup UNION {calls \in Alike : t \in calls}]
Edits(s) == [i \in 1..Len(s) |-> Edit[s[i]]]
IsPrefixOf(s, t) == Len(s) <= Len(t) /\ SubSeq(t, 1, Len(s)) = s

PInit ==
  /\ Init /\ gated
  /\ host = "creating"
  /\ disk = [exists |-> FALSE, ckpt |-> 0, log |-> << >>]
  /\ verdict = "none"
  /\ restarts = 0

-----------------------------------------------------------------------------
(* The adapter (external).                                                  *)

Next1 == base + 1   \* the revision of the commit being appended

\* The running append continues the stored log, or repeats what is there.
Continues == disk.exists /\ Len(disk.log) = base
Repeats == /\ disk.exists /\ disk.ckpt < Next1 /\ Next1 <= Len(disk.log)
           /\ Edit[disk.log[Next1]] = Edit[active]

Store == disk' = [disk EXCEPT !.log = Append(@, active)]

AdapterAppends ==
  /\ phase = "gate" /\ verdict = "none"
  /\ \/ Continues /\ Store /\ verdict' = "ok"
     \/ Repeats /\ UNCHANGED disk /\ verdict' = "ok"
     \/ UNCHANGED disk /\ verdict' = "failed"
     \/ Continues /\ Store /\ verdict' = "lost"
  /\ UNCHANGED <<vars, host, restarts>>

\* The disk after its checkpoint is atomically replaced by doc, the commits
\* after it kept.
Trimmed(doc) ==
  [exists |-> TRUE, ckpt |-> Len(doc),
   log |-> doc \o SubSeq(disk.log, Len(doc) + 1, Len(disk.log))]

AdapterCheckpoints ==
  /\ phase = "barrier" /\ verdict = "none"
  /\ \/ disk' = Trimmed(mapLog) /\ verdict' \in {"ok", "lost"}
     \/ UNCHANGED disk /\ verdict' = "failed"
  /\ UNCHANGED <<vars, host, restarts>>

-----------------------------------------------------------------------------
(* The authority's steps.  The map cannot change while a barrier runs, so a *)
(* checkpoint stores the map it captured when it was started.               *)

Steps(A) == A /\ verdict' = "none" /\ UNCHANGED <<host, disk, restarts>>

PSubmit(t, kind) ==
  /\ host # "down"
  /\ kind = "barrier" => host # "creating"
  /\ Submit(t, kind)
  /\ UNCHANGED <<host, disk, verdict, restarts>>

\* Mutation: the gate does not wait for the adapter.
PGateDoesNotWait == Steps(GatePasses)

\* Mutation: the gate gives up on an append without knowing its result.
PGateTimesOut == Steps(GateRejects)

PGatePasses == verdict = "ok" /\ Steps(GatePasses)
PGateRejects == verdict \in {"failed", "lost"} /\ Steps(GateRejects)
PIngest == Steps(Ingest)
PFinish == Steps(Finish)
PBarrierSettles ==
  /\ verdict # "none"
  /\ Steps(BarrierSettles)
  /\ (outcome'[active] = "completed") <=> (verdict = "ok")

-----------------------------------------------------------------------------
(* Lifecycle.                                                               *)

\* create_persistent_locus: the host is returned once its first checkpoint is
\* durable, or else disposed; the map may already be the target of links.
InitialCheckpoint ==
  /\ host = "creating"
  /\ \/ /\ host' = "up"
        /\ disk' = [disk EXCEPT !.exists = TRUE]
        /\ UNCHANGED vars
     \/ /\ host' = "unloading"
        /\ Dispose
        /\ \/ UNCHANGED disk
           \/ disk' = [disk EXCEPT !.exists = TRUE]
  /\ UNCHANGED <<verdict, restarts>>

\* unload_persistent_locus: dispose, then wait for the release of the map.
Unload ==
  /\ host = "up"
  /\ host' = "unloading"
  /\ Dispose
  /\ UNCHANGED <<disk, verdict, restarts>>

Unloaded ==
  /\ host = "unloading" /\ ~managed
  /\ host' = "down"
  /\ UNCHANGED <<vars, disk, verdict, restarts>>

\* The process stops.  A request the adapter has not answered yet may still
\* reach the disk.
Crash ==
  /\ host # "down"
  /\ host' = "down"
  /\ state' = "closed" /\ queue' = << >> /\ active' = NoTask /\ phase' = "idle"
  /\ managed' = FALSE /\ serving' = FALSE /\ disposed' = TRUE
  /\ outcome' = [t \in Task |-> IF outcome[t] = "pending" THEN "lost" ELSE outcome[t]]
  /\ \/ UNCHANGED disk
     \/ host = "creating" /\ disk' = [disk EXCEPT !.exists = TRUE]
     \/ phase = "gate" /\ verdict = "none" /\ Continues /\ Store
     \/ phase = "barrier" /\ verdict = "none" /\ disk' = Trimmed(mapLog)
  /\ verdict' = "none"
  /\ UNCHANGED <<base, mapLog, headRev, called, restarts>>

\* Mutation: only the checkpoint is restored.
RestoreWithoutTail ==
  /\ host = "down" /\ disk.exists /\ restarts < MaxRestarts
  /\ host' = "up" /\ restarts' = restarts + 1
  /\ mapLog' = SubSeq(disk.log, 1, disk.ckpt) /\ headRev' = disk.ckpt
  /\ state' = "open" /\ managed' = TRUE /\ serving' = TRUE /\ disposed' = FALSE
  /\ UNCHANGED <<queue, active, phase, base, outcome, called, disk, verdict>>

\* restore_persistent_locus: a new authority, on a new map rebuilt from the
\* checkpoint and the commits after it, with those commits as its history.
Restore ==
  /\ host = "down" /\ disk.exists /\ restarts < MaxRestarts
  /\ host' = "up" /\ restarts' = restarts + 1
  /\ mapLog' = disk.log /\ headRev' = Len(disk.log)
  /\ state' = "open" /\ managed' = TRUE /\ serving' = TRUE /\ disposed' = FALSE
  /\ UNCHANGED <<queue, active, phase, base, outcome, called, disk, verdict>>

PCall == \E t \in Task, kind \in Kind : PSubmit(t, kind)
PContinue == PGatePasses \/ PGateRejects \/ PIngest \/ PFinish \/ PBarrierSettles
Adapter == AdapterAppends \/ AdapterCheckpoints
Lifecycle == InitialCheckpoint \/ Unload \/ Unloaded \/ Crash \/ Restore
PNext == (PCall \/ PContinue \/ Adapter \/ Lifecycle) /\ UNCHANGED gated

PSpec == PInit /\ [][PNext]_allvars

-----------------------------------------------------------------------------
(* Properties.                                                              *)

\* Type invariant of the adapter's and the host's variables.
PTypeOK ==
  /\ TypeOK
  /\ host \in {"creating", "up", "unloading", "down"}
  /\ disk \in [exists : BOOLEAN, ckpt : Nat, log : Seq(Task)]
  /\ verdict \in {"none", "ok", "failed", "lost"}
  /\ restarts \in 0..MaxRestarts

\* A commit is on disk before the map shows it, and the disk is never more
\* than the one running commit ahead, even when an append is reported failed
\* after it reached the disk (make_persistence_gate, accept).
WriteAhead ==
  /\ IsPrefixOf(Edits(mapLog), Edits(disk.log))
  /\ Len(disk.log) <= Len(mapLog) + 1

\* A checkpoint covers accepted commits only, never a commit that reached the
\* disk although its append was reported failed (checkpoint, replaceCheckpoint).
CheckpointCoversAccepted == disk.ckpt <= Len(mapLog)

\* An edit acknowledged to its caller is on disk from then on, through
\* crashes, unloads, checkpoints and reloads.
AcknowledgedSurvives ==
  \A t \in Task :
    outcome[t] = "done" =>
      \E r \in 1..Len(disk.log) : Edit[disk.log[r]] = Edit[t]

\* An edit whose caller was told of a failed preparation, a failed append or a
\* closing host is on disk only where the adapter itself stored it and reported
\* a failure, and is never put there afterwards ("Authority-gate failure" in
\* docs/locus/overview.md).
OnDisk(t) == \E r \in 1..Len(disk.log) : disk.log[r] = t
RejectedNeverDurable ==
  [][\A t \in Task :
       OnDisk(t)' /\ outcome'[t] \in {"prepare", "gate", "closed"} =>
         OnDisk(t) /\ (outcome[t] = outcome'[t] \/ verdict = "lost")]_allvars

\* No crash, unload or reload makes the map forget or reorder a commit it
\* showed: the whole host implements the abstract durable log.
D == INSTANCE DurableLog WITH Commit <- {Edit[t] : t \in Task},
                              log <- Edits(disk.log), visible <- Edits(mapLog)
ImplementsDurableLog == D!Spec

\* Write-ahead and checkpoint together: nothing accepted, and nothing a
\* caller was told is durable, is missing from what a restart reads.
NothingAcceptedIsLost ==
  PTypeOK /\ WriteAhead /\ CheckpointCoversAccepted /\ AcknowledgedSurvives
=============================================================================
