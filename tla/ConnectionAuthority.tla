------------------------- MODULE ConnectionAuthority -------------------------
(***************************************************************************)
(* What the sessions of a Locus promise about its connections, and all     *)
(* that the handling of actions relies on: a connection comes to speak for *)
(* a session at most once, at most one connection speaks for a session,    *)
(* and authority that is lost stays lost.                                  *)
(***************************************************************************)
EXTENDS Naturals

CONSTANTS
    Conn,   \* connections, each of one transport
    NoConn  \* none of them

ASSUME ConnAssumption == NoConn \notin Conn

VARIABLES
    standing,  \* what a connection may do
    subject,   \* the session it speaks or spoke for, named by its first connection
    stopped    \* "no"; "sessions": no session is made any more; "all": no connection is left

authorityVars == <<standing, subject, stopped>>

\* "away": the transport closed, and its session waits to be resumed.
Standing == {"none", "open", "speaks", "lost", "away", "closed"}

Bereft(standingOf) ==
    IF standingOf = "speaks" THEN "lost" ELSE IF standingOf = "away" THEN "closed" ELSE standingOf

CInit ==
    /\ standing = [c \in Conn |-> "none"]
    /\ subject = [c \in Conn |-> NoConn]
    /\ stopped = "no"

COpen(c) ==
    /\ standing[c] = "none"
    /\ standing' = [standing EXCEPT ![c] = IF stopped = "all" THEN "closed" ELSE "open"]
    /\ UNCHANGED <<subject, stopped>>

\* c speaks for s from now on, and nobody else does.
CSpeak(c, s) ==
    /\ standing[c] = "open" /\ stopped = "no"
    /\ subject' = [subject EXCEPT ![c] = s]
    /\ standing' = [d \in Conn |-> IF d = c THEN "speaks"
                                   ELSE IF subject[d] = s THEN Bereft(standing[d]) ELSE standing[d]]
    /\ UNCHANGED stopped

\* A session ends, by goodbye or because nobody came back.
CEnd(c) ==
    /\ standing[c] \in {"speaks", "away"}
    /\ standing' = [standing EXCEPT ![c] = Bereft(@)]
    /\ UNCHANGED <<subject, stopped>>

CClose(c) ==
    /\ standing[c] \in {"open", "speaks", "lost"}
    /\ \/ standing' = [standing EXCEPT ![c] = "closed"]
       \/ standing[c] = "speaks" /\ standing' = [standing EXCEPT ![c] = "away"]
    /\ UNCHANGED <<subject, stopped>>

CStopSessions ==
    /\ stopped = "no"
    /\ stopped' = "sessions"
    /\ standing' = [c \in Conn |-> Bereft(standing[c])]
    /\ UNCHANGED subject

CStopAll ==
    /\ stopped' = "all"
    /\ \E waits \in SUBSET {c \in Conn : standing[c] = "away"} :
          standing' = [c \in Conn |-> IF c \in waits \/ standing[c] = "none" THEN standing[c]
                                      ELSE "closed"]
    /\ UNCHANGED subject

CNext ==
    \/ \E c \in Conn : COpen(c) \/ CEnd(c) \/ CClose(c) \/ \E s \in Conn : CSpeak(c, s)
    \/ CStopSessions \/ CStopAll

AuthoritySpec == CInit /\ [][CNext]_authorityVars
=============================================================================
