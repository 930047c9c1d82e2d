----------------------------- MODULE DurableLog -----------------------------
(***************************************************************************)
(* What a persistent Locus promises (docs/locus/overview.md, "a changed    *)
(* commit is durably appended before its graph, revision, notifications,   *)
(* history, or client publication become visible"): one log that only      *)
(* grows, and a visible state that is always a prefix of it and never goes *)
(* back, whatever crashes and restarts happen in between.                  *)
(***************************************************************************)
EXTENDS Naturals, Sequences

CONSTANT Commit

VARIABLES log,      \* the commits on stable storage
          visible   \* the commits the map shows

IsPrefixOf(s, t) == Len(s) <= Len(t) /\ SubSeq(t, 1, Len(s)) = s

Init == log = << >> /\ visible = << >>

Append1 == /\ \E c \in Commit : log' = Append(log, c)
           /\ UNCHANGED visible

Reveal == /\ IsPrefixOf(visible, visible')
          /\ IsPrefixOf(visible', log)
          /\ UNCHANGED log

Next == Append1 \/ Reveal

Spec == Init /\ [][Next]_<<log, visible>>
=============================================================================
