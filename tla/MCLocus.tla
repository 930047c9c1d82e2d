------------------------------- MODULE MCLocus -------------------------------
EXTENDS LocusAuthority, LocusSessions, LocusSync

VARIABLE system  \* which part of a Locus a behaviour is of

\* One run of three parts of a Locus: a behaviour is one of its authority, of
\* the sessions on its connections, or of a client that follows paths; the
\* others stay as they begin, where none of their fair steps is possible.
NoAuthority == Init /\ ~gated
NoSessions == SInit /\ principal = [c \in Conn |-> CHOOSE p \in Principal : TRUE]
NoSync == SyncInit /\ ~plain /\ paths = <<>> /\ cursor = 0

MCInit ==
  \/ system = "authority" /\ Init /\ NoSessions /\ NoSync
  \/ system = "sessions" /\ NoAuthority /\ SInit /\ NoSync
  \/ system = "paths" /\ NoAuthority /\ NoSessions /\ SyncInit
MCNext ==
  /\ UNCHANGED system
  /\ \/ system = "authority" /\ Next /\ UNCHANGED <<sVars, syncVars>>
     \/ system = "sessions" /\ SessionStep /\ UNCHANGED <<vars, syncVars>>
     \/ system = "paths" /\ SyncNext /\ UNCHANGED <<vars, sVars>>
MCSpec ==
  /\ MCInit /\ [][MCNext]_<<system, vars, sVars, syncVars>>
  /\ WF_vars(Continue) /\ SessionFairness
MCPathsSpec == MCInit /\ system = "paths" /\ [][MCNext]_<<system, vars, sVars, syncVars>>

\* A connection speaks for one session and is shown what that session follows:
\* no session has two speakers or outlives its grace time, and the mirror of
\* a client that follows paths is exact whenever it is told so.
ConversationSound == SessionsSound /\ SyncIsSafe
==============================================================================
