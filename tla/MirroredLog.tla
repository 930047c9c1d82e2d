---------------------------- MODULE MirroredLog ----------------------------
(***************************************************************************)
(* What recovery promises a client, with no protocol in sight.  There is   *)
(* one authoritative log; it grows, or is replaced when the authority      *)
(* starts again.  A client holds a copy.  The copy only ever becomes a     *)
(* prefix of the log as it is then, and never shrinks while it is a prefix *)
(* of it.  A client that asks to be brought up to date and is told it is   *)
(* holds all the log had when it asked.                                    *)
(***************************************************************************)
EXTENDS Naturals, Sequences, SequencesExt

VARIABLES
  log,    \* the authoritative commits, oldest first
  copy,   \* the commits the client has applied
  asked,  \* the log when the client last asked
  synced  \* whether the client has been told it is up to date

mvars == <<log, copy, asked, synced>>

MirrorInit == log = << >> /\ copy = << >> /\ asked = << >> /\ synced = FALSE

\* A restart that keeps the log may bring in a last commit as well.
Grow ==
  /\ Len(log') > Len(log)
  /\ IsPrefix(log, log')
  /\ synced' \in {synced, FALSE}
  /\ UNCHANGED <<copy, asked>>

\* The authority starts again: the old log and the new one are unrelated.
Replace ==
  /\ log' = << >>
  /\ synced' = FALSE
  /\ UNCHANGED <<copy, asked>>

\* The copy catches up, all of it at once or a part of it.
Advance ==
  /\ IsPrefix(copy', log)
  /\ IsPrefix(copy, log) => Len(copy') >= Len(copy)
  /\ UNCHANGED <<log, asked>>
  /\ synced' \in {synced, FALSE}

Ask ==
  /\ asked' = log
  /\ synced' = FALSE
  /\ UNCHANGED <<log, copy>>

Tell ==
  /\ synced' = TRUE
  /\ IsPrefix(copy, log)
  /\ IsPrefix(asked, log) => Len(copy) >= Len(asked)
  /\ UNCHANGED <<log, copy, asked>>

Forget == synced' = FALSE /\ UNCHANGED <<log, copy, asked>>

MirrorNext == Grow \/ Replace \/ Advance \/ Ask \/ Tell \/ Forget

MirrorSpec == MirrorInit /\ [][MirrorNext]_mvars
=============================================================================
