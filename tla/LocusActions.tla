---------------------------- MODULE LocusActions ----------------------------
(***************************************************************************)
(* The actions of a client on the connections of a Locus: the client's     *)
(* promises (locus.client.ts), handle_deduped_action with validation and   *)
(* authorization (locus.core.ts) and the outcomes it keeps                 *)
(* (locus.actions.ts).  Connections behave as ConnectionAuthority says,    *)
(* which LocusSessions is shown to implement.                              *)
(*                                                                         *)
(* An attempt is one action message: a new request, a retry of it, or the  *)
(* same request id used again, possibly with other content.  All attempts  *)
(* are of one client identity.  An execution of a request is named by its  *)
(* number, so that an outcome says which execution it is of.               *)
(***************************************************************************)
EXTENDS ConnectionAuthority, Sequences

CONSTANTS
    Attempt,      \* action messages the client may send
    Request,      \* request ids
    MaxTerminal,  \* maxTerminalRecords (maxTerminalBytes acts like it)
    Scenario      \* what the attempts are (request, content, retry) and maxExpiredTombstones

ASSUME ActionAssumption ==
    /\ MaxTerminal \in Nat
    /\ \A x \in Scenario :
          /\ x.uses \in [Attempt -> [req : Request, content : Nat, retry : BOOLEAN]]
          /\ x.maxTombs \in Nat

VARIABLES
    scenario,   \* chosen once
    via,        \* the connection an attempt was sent on
    stage,      \* where an attempt is on the server
    verdict,    \* what it will be, or was, answered
    promise,    \* the client's promise: "none", "pending", "settled", "rejected"
    storeGone,  \* the store of outcomes was disposed, with the Locus
    record,     \* per request: "none", "pending" or "terminal"
    content,    \* the fingerprint a record was made with
    outcome,    \* the outcome of a terminal record
    terminals,  \* terminalOrder
    tombs,      \* tombstoneOrder
    running,    \* requests whose handler runs
    runs,       \* how often a request's handler was started
    effects,    \* how often it succeeded
    forgotten   \* how often its tombstone was dropped

storeVars == <<storeGone, record, content, outcome, terminals, tombs, forgotten>>
runVars == <<running, runs, effects>>
attemptVars == <<scenario, via, stage, verdict, promise>>
aVars == <<authorityVars, attemptVars, storeVars, runVars>>

NoVerdict == [kind |-> "none", run |-> 0, ok |-> FALSE]
Refusal(code) == [kind |-> code, run |-> 0, ok |-> FALSE]
Delivered == {"executed", "joined", "cached"}
Refused == {"rejected", "unavailable", "conflict", "expired", "unknown"}

ATypeOK ==
    /\ standing \in [Conn -> Standing]
    /\ scenario \in Scenario
    /\ via \in [Attempt -> Conn \cup {NoConn}]
    /\ stage \in [Attempt -> {"unsent", "sent", "dropped", "thrown", "authorizing",
                              "waiting", "resolved", "answered", "suppressed"}]
    /\ \A a \in Attempt : verdict[a].kind \in {"none"} \cup Delivered \cup Refused
    /\ promise \in [Attempt -> {"none", "pending", "settled", "rejected"}]
    /\ record \in [Request -> {"none", "pending", "terminal"}]
    /\ terminals \in Seq(Request) /\ tombs \in Seq(Request)
    /\ running \in SUBSET Request
    /\ \A r \in Request : effects[r] <= runs[r]

AInit ==
    /\ CInit
    /\ scenario \in Scenario
    /\ via = [a \in Attempt |-> NoConn]
    /\ stage = [a \in Attempt |-> "unsent"]
    /\ verdict = [a \in Attempt |-> NoVerdict]
    /\ promise = [a \in Attempt |-> "none"]
    /\ storeGone = FALSE
    /\ record = [r \in Request |-> "none"]
    /\ content = [r \in Request |-> 0]
    /\ outcome = [r \in Request |-> NoVerdict]
    /\ terminals = <<>> /\ tombs = <<>>
    /\ running = {}
    /\ runs = [r \in Request |-> 0]
    /\ effects = [r \in Request |-> 0]
    /\ forgotten = [r \in Request |-> 0]

ReqOf(a) == scenario.uses[a].req
ContentOf(a) == scenario.uses[a].content
RetryOf(a) == scenario.uses[a].retry

Open(c) == standing[c] \in {"open", "speaks", "lost"}
SeqRange(q) == {q[i] : i \in DOMAIN q}
RemoveFrom(q, i) == SubSeq(q, 1, i - 1) \o SubSeq(q, i + 1, Len(q))
Without(q, r) == RemoveFrom(q, CHOOSE i \in DOMAIN q : q[i] = r)
Resolve(a, v) ==
    /\ stage' = [stage EXCEPT ![a] = "resolved"]
    /\ verdict' = [verdict EXCEPT ![a] = v]

-----------------------------------------------------------------------------
(* The client. *)

(* action(), retry_action(): a promise and a message, on a connection the  *)
(* client takes for attached.  A retry follows an attempt of its request.  *)
(* (A client that was told sends nothing more; here its message is dropped.) *)
Send(a, c) ==
    /\ stage[a] = "unsent"
    /\ RetryOf(a) => \E b \in Attempt : ReqOf(b) = ReqOf(a) /\ ~RetryOf(b) /\ stage[b] # "unsent"
    /\ Open(c)
    /\ stage' = [stage EXCEPT ![a] = "sent"]
    /\ via' = [via EXCEPT ![a] = c]
    /\ promise' = [promise EXCEPT ![a] = "pending"]
    /\ UNCHANGED <<authorityVars, scenario, verdict, storeVars, runVars>>

(* A peer that lost its transport or its session is told, except of a session *)
(* manager that is disposed under it.                                         *)
Told(c) == standing[c] \in {"away", "closed"} \/ (standing[c] = "lost" /\ stopped = "no")

(* The client learns that it was fenced, that its session ended, or that the *)
(* socket closed: all its promises on that connection are rejected.          *)
ClientLeaves(c) ==
    /\ Told(c)
    /\ \E a \in Attempt : via[a] = c /\ promise[a] = "pending"
    /\ promise' = [a \in Attempt |-> IF via[a] = c /\ promise[a] = "pending"
                                     THEN "rejected" ELSE promise[a]]
    /\ UNCHANGED <<authorityVars, scenario, via, stage, verdict, storeVars, runVars>>

-----------------------------------------------------------------------------
(* The outcomes the Locus keeps. *)

(* add_tombstone(): the oldest tombstone makes place, and none is kept twice. *)
AddTombstone(r) ==
    LET all == Append(tombs, r)
    IN  /\ tombs' = IF scenario.maxTombs = 0 \/ r \in SeqRange(tombs) THEN tombs
                    ELSE IF Len(all) > scenario.maxTombs THEN Tail(all) ELSE all
        /\ forgotten' = [q \in Request |->
              IF q \in SeqRange(all) /\ q \notin SeqRange(tombs') THEN forgotten[q] + 1
                                                                  ELSE forgotten[q]]

(* execute() when nothing is known of the request: a pending record, and the *)
(* handler is called.                                                        *)
Start(a, r) ==
    /\ record' = [record EXCEPT ![r] = "pending"]
    /\ content' = [content EXCEPT ![r] = ContentOf(a)]
    /\ running' = running \cup {r}
    /\ runs' = [runs EXCEPT ![r] = @ + 1]
    /\ stage' = [stage EXCEPT ![a] = "waiting"]
    /\ verdict' = [verdict EXCEPT ![a] = [kind |-> "executed", run |-> runs[r] + 1, ok |-> FALSE]]
    /\ UNCHANGED <<storeGone, outcome, terminals, tombs, forgotten, effects>>

Join(a, r) ==
    /\ stage' = [stage EXCEPT ![a] = "waiting"]
    /\ verdict' = [verdict EXCEPT ![a] = [kind |-> "joined", run |-> runs[r], ok |-> FALSE]]
    /\ UNCHANGED <<storeVars, runVars>>

Answer(a, v) == Resolve(a, v) /\ UNCHANGED <<storeVars, runVars>>

(* Mutation: a retry whose request is not known runs it. *)
ExecuteRetries(a) ==
    LET r == ReqOf(a)
    IN  \/ /\ storeGone
           /\ Answer(a, Refusal("unavailable"))
        \/ /\ ~storeGone /\ record[r] # "none" /\ content[r] # ContentOf(a)
           /\ Answer(a, Refusal("conflict"))
        \/ /\ ~storeGone /\ record[r] = "pending" /\ content[r] = ContentOf(a)
           /\ Join(a, r)
        \/ /\ ~storeGone /\ record[r] = "terminal" /\ content[r] = ContentOf(a)
           /\ Answer(a, [outcome[r] EXCEPT !.kind = "cached"])
        \/ /\ ~storeGone /\ record[r] = "none"
           /\ Start(a, r)

(* execute(): join, repeat the kept outcome, refuse, or run. *)
Execute(a) ==
    LET r == ReqOf(a)
    IN  \/ /\ storeGone
           /\ Answer(a, Refusal("unavailable"))
        \/ /\ ~storeGone /\ record[r] # "none" /\ content[r] # ContentOf(a)
           /\ Answer(a, Refusal("conflict"))
        \/ /\ ~storeGone /\ record[r] = "pending" /\ content[r] = ContentOf(a)
           /\ Join(a, r)
        \/ /\ ~storeGone /\ record[r] = "terminal" /\ content[r] = ContentOf(a)
           /\ Answer(a, [outcome[r] EXCEPT !.kind = "cached"])
        \/ /\ ~storeGone /\ record[r] = "none" /\ r \in SeqRange(tombs)
           /\ Answer(a, Refusal("expired"))
        \/ /\ ~storeGone /\ record[r] = "none" /\ r \notin SeqRange(tombs) /\ RetryOf(a)
           /\ Answer(a, Refusal("unknown"))
        \/ /\ ~storeGone /\ record[r] = "none" /\ r \notin SeqRange(tombs) /\ ~RetryOf(a)
           /\ Start(a, r)

(* settle(): the record becomes terminal, the oldest terminal record makes   *)
(* place (one does, for the list was within its limit: StoreBounded), and all *)
(* who wait for the outcome have it.                                          *)
Settle(r, ok) ==
    LET out == [kind |-> "executed", run |-> runs[r], ok |-> ok]
        order == Append(terminals, r)
        full == Len(order) > MaxTerminal
        trimmed(q) == full /\ q = Head(order)
    IN  /\ terminals' = IF full THEN Tail(order) ELSE order
        /\ record' = [q \in Request |-> IF trimmed(q) THEN "none"
                                        ELSE IF q = r THEN "terminal" ELSE record[q]]
        /\ outcome' = [q \in Request |-> IF trimmed(q) THEN NoVerdict
                                         ELSE IF q = r THEN out ELSE outcome[q]]
        /\ IF full THEN AddTombstone(Head(order)) ELSE UNCHANGED <<tombs, forgotten>>
        /\ verdict' = [a \in Attempt |->
              IF stage[a] = "waiting" /\ ReqOf(a) = r THEN [verdict[a] EXCEPT !.ok = ok] ELSE verdict[a]]
        /\ stage' = [a \in Attempt |->
              IF stage[a] = "waiting" /\ ReqOf(a) = r THEN "resolved" ELSE stage[a]]
        /\ UNCHANGED <<storeGone, content>>

(* The handler and the mutations it began have settled. *)
HandlerSettles(r, ok) ==
    /\ r \in running
    /\ running' = running \ {r}
    /\ effects' = IF ok THEN [effects EXCEPT ![r] = @ + 1] ELSE effects
    /\ IF record[r] = "pending" THEN Settle(r, ok) ELSE UNCHANGED <<storeVars, stage, verdict>>
    /\ UNCHANGED <<authorityVars, scenario, via, promise, runs>>

(* Mutation: no tombstone remains of a request that expired. *)
ForgetWithoutTombstone(r) ==
    /\ record[r] = "terminal"
    /\ record' = [record EXCEPT ![r] = "none"]
    /\ terminals' = Without(terminals, r)
    /\ UNCHANGED <<authorityVars, attemptVars, storeGone, content, outcome, tombs, forgotten, runVars>>

(* terminalRetentionMs passed: remove_terminal(). *)
ForgetOutcome(r) ==
    /\ record[r] = "terminal"
    /\ record' = [record EXCEPT ![r] = "none"]
    /\ terminals' = Without(terminals, r)
    /\ AddTombstone(r)
    /\ UNCHANGED <<authorityVars, attemptVars, storeGone, content, outcome, runVars>>

-----------------------------------------------------------------------------
(* The connection handler. *)

(* handle_deduped_action from the arrival on: an invalid message is refused;  *)
(* with a synchronous authorizer, or none, a valid one is executed at once.   *)
(* A validate_action that throws, in a decoder of the payload, ends the       *)
(* handler: handle_message is called with void, nothing is answered and the   *)
(* connection stays as it is.                                                 *)
Accept(a) ==
    \/ Answer(a, Refusal("rejected"))
    \/ \E next \in {"authorizing", "thrown"} :
          /\ stage' = [stage EXCEPT ![a] = next]
          /\ UNCHANGED <<verdict, storeVars, runVars>>
    \/ Execute(a)

(* handle_message(): a connection without a session gets one; a message on a *)
(* connection that does not speak for its session is dropped, in silence.    *)
Arrive(a) ==
    /\ stage[a] = "sent" /\ Open(via[a])
    /\ \/ CSpeak(via[a], via[a]) /\ Accept(a)
       \/ standing[via[a]] = "speaks" /\ UNCHANGED authorityVars /\ Accept(a)
       \/ /\ standing[via[a]] = "lost" \/ (standing[via[a]] = "open" /\ stopped # "no")
          /\ stage' = [stage EXCEPT ![a] = "dropped"]
          /\ UNCHANGED <<authorityVars, verdict, storeVars, runVars>>
    /\ UNCHANGED <<scenario, via, promise>>

(* The authorizer's promise settles.  The code goes on without another look *)
(* at the session.                                                          *)
Authorize(a) ==
    /\ stage[a] = "authorizing"
    /\ Answer(a, Refusal("rejected")) \/ Execute(a)
    /\ UNCHANGED <<authorityVars, scenario, via, promise>>

(* The continuation of handle_deduped_action: send() answers only on a       *)
(* connection that still speaks for its session, and the answer settles the  *)
(* promise of this attempt, if the client still has it.                      *)
RespondIf(a, speaks) ==
    /\ stage[a] = "resolved"
    /\ stage' = [stage EXCEPT ![a] = IF speaks THEN "answered" ELSE "suppressed"]
    /\ promise' = IF speaks /\ promise[a] = "pending"
                  THEN [promise EXCEPT ![a] = "settled"] ELSE promise
    /\ UNCHANGED <<authorityVars, scenario, via, verdict, storeVars, runVars>>

Respond(a) == RespondIf(a, standing[via[a]] = "speaks")

(* dispose() of the Locus also disposes the store of outcomes: who waits is *)
(* told that it is unavailable, handlers that run go on.                    *)
Dispose ==
    /\ ~storeGone
    /\ CStopAll /\ \A c \in Conn : standing'[c] # "away"
    /\ storeGone' = TRUE
    /\ record' = [r \in Request |-> "none"]
    /\ terminals' = <<>> /\ tombs' = <<>>
    /\ stage' = [a \in Attempt |-> IF stage[a] = "waiting" THEN "resolved" ELSE stage[a]]
    /\ verdict' = [a \in Attempt |-> IF stage[a] = "waiting" THEN Refusal("unavailable") ELSE verdict[a]]
    /\ UNCHANGED <<content, outcome, forgotten, runVars, scenario, via, promise>>

(* session-create, or session-attach to the session of an earlier connection. *)
Resume(c) == \E s \in {c} \cup ({subject[d] : d \in Conn} \ {NoConn}) : CSpeak(c, s)

(* What the connections do meanwhile: come, resume a session, end, close,  *)
(* or lose the session manager.  A failure of the authority closes all of  *)
(* them, one after the other here.                                         *)
Connections ==
    /\ \/ \E c \in Conn : COpen(c) \/ CEnd(c) \/ CClose(c) \/ Resume(c)
       \/ CStopSessions
    /\ UNCHANGED <<attemptVars, storeVars, runVars>>

ANext ==
    \/ Connections
    \/ Dispose
    \/ \E a \in Attempt :
          \/ \E c \in Conn : Send(a, c)
          \/ Arrive(a) \/ Authorize(a) \/ Respond(a)
    \/ \E c \in Conn : ClientLeaves(c)
    \/ \E r \in Request : ForgetOutcome(r) \/ \E ok \in BOOLEAN : HandlerSettles(r, ok)

ASpec == AInit /\ [][ANext]_aVars

(* Messages arrive, promises of handlers and authorizers settle, and what is *)
(* ready runs.  Nobody has to send, close or reattach.                       *)
ActionFairness ==
    /\ \A a \in Attempt : WF_aVars(Arrive(a)) /\ WF_aVars(Authorize(a)) /\ WF_aVars(Respond(a))
    /\ \A c \in Conn : WF_aVars(ClientLeaves(c))
    /\ \A r \in Request : WF_aVars(\E ok \in BOOLEAN : HandlerSettles(r, ok))

AFairSpec == ASpec /\ ActionFairness

-----------------------------------------------------------------------------
(* A request runs once: its handler is started again only after its outcome   *)
(* and then its tombstone were dropped, by an attempt that is not a retry.    *)
AtMostOnce ==
    \A r \in Request : runs[r] <= 1 + forgotten[r]

(* Whoever is told an outcome is told that of an execution which happened,    *)
(* of the content it asked for; two attempts of a request that was never      *)
(* forgotten are told the same, whether they ran, joined or came later.       *)
OutcomesAgree ==
    \A a, b \in Attempt :
        LET told(x) == stage[x] \in {"resolved", "answered", "suppressed"} /\ verdict[x].kind \in Delivered
        IN  /\ told(a) /\ verdict[a].ok => effects[ReqOf(a)] > 0
            /\ told(a) /\ told(b) /\ ReqOf(a) = ReqOf(b) /\ forgotten[ReqOf(a)] = 0
                  => /\ verdict[a].run = verdict[b].run /\ verdict[a].ok = verdict[b].ok
                     /\ ContentOf(a) = ContentOf(b)

(* A refusal of an unknown or expired request is true when it is decided:     *)
(* "unknown" means the handler never ran, unless even the tombstone was       *)
(* dropped, and "expired" that it ran to its end.                             *)
RefusalsAreTrue ==
    [][\A a \in Attempt : verdict[a].kind = "none" /\ verdict'[a].kind # "none" =>
          LET r == ReqOf(a)
          IN  /\ verdict'[a].kind = "unknown" => runs[r] = 0 \/ forgotten[r] > 0
              /\ verdict'[a].kind = "expired" => runs[r] > 0 /\ r \notin running]_aVars

(* The memory is bounded and consistent: no request has both a record and a   *)
(* tombstone, terminalOrder lists exactly the terminal records, and neither   *)
(* list outgrows its limit.                                                   *)
StoreBounded ==
    /\ Len(terminals) <= MaxTerminal /\ Len(tombs) <= scenario.maxTombs
    /\ SeqRange(terminals) = {r \in Request : record[r] = "terminal"}
    /\ \A r \in SeqRange(tombs) : record[r] = "none"

(* A transport that was fenced gets no answer, however late a handler ends,   *)
(* and an attempt is answered on the connection that took it up while that    *)
(* speaks for the same session still.                                         *)
AnswersFollowAuthority ==
    [][\A a \in Attempt : stage[a] # "answered" /\ stage'[a] = "answered"
          => \A d \in Conn \ {via[a]} : subject[d] = subject[via[a]] => standing[d] # "speaks"]_aVars

(* A promise of the client settles, by an answer or because the client        *)
(* learns that it lost the connection, with two exceptions: a session manager *)
(* disposed under open connections, and an attempt whose validation threw,    *)
(* for as long as its connection lasts.                                       *)
PromisesSettle ==
    \A a \in Attempt :
        promise[a] = "pending"
            ~> \/ promise[a] # "pending" \/ stopped = "sessions"
               \/ stage[a] = "thrown" /\ ~Told(via[a])

(* The test "an asynchronous action blocks quiescence through its terminal    *)
(* outcome" (livehost-authority-lifecycle.acceptance.mts): while a handler    *)
(* runs, something keeps the Locus from being evicted.                        *)
ActionBlocksQuiescence ==
    running # {} /\ stopped = "no" => \E c \in Conn : standing[c] \in {"open", "speaks", "lost", "away"}

(* One request runs at most once and has one outcome, whoever repeats it.     *)
ActionsOnce == ATypeOK /\ AtMostOnce /\ OutcomesAgree /\ StoreBounded

(* A refusal states the truth, an answer that was accepted is in the          *)
(* authority, and the promises of the client settle.                          *)
AnswersTrue == RefusalsAreTrue /\ AnswersFollowAuthority /\ PromisesSettle
=============================================================================
