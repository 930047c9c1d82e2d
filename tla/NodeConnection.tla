--------------------------- MODULE NodeConnection ---------------------------
(***************************************************************************)
(* The sending half of a connection of the Node host (make_connection): a  *)
(* queue in front of a WebSocket that stops feeding it while its buffer is *)
(* above the limit, and gives the connection up when the queue is full.    *)
(* The WebSocket and its buffer are the ws library's (external): it calls  *)
(* back once per message, in order, when the message left the buffer.      *)
(***************************************************************************)
EXTENDS Naturals, Sequences, SequencesExt

CONSTANTS
    Sizes,              \* bytes of a message
    MaxBufferedAmount,  \* of limits
    MaxSends            \* bound: messages the application sends

ASSUME QueueAssumption == Sizes \subseteq Nat /\ MaxBufferedAmount \in Nat /\ MaxSends \in Nat

VARIABLES
    queued,      \* messages not handed to the WebSocket yet
    wire,        \* the WebSocket's buffer: messages whose callback has not run
    pinged,      \* bytes of a ping in the buffer, which no callback announces
    inFlight,    \* the count of messages the code believes to be in the buffer
    drainTimer,  \* whether a flush is scheduled
    shut,        \* the closed flag of the connection
    readyState,       \* of the WebSocket
    accepted,    \* history: how many messages send() took
    transmitted  \* history: messages handed to the WebSocket

qVars == <<queued, wire, pinged, inFlight, drainTimer, shut, readyState, accepted, transmitted>>

\* The bytes of the first messages of a sequence, and of all of them.
Sums(messages) ==
    LET sum[n \in 0 .. Len(messages)] == IF n = 0 THEN 0 ELSE sum[n - 1] + messages[n].bytes
    IN  sum
Total(messages) == Sums(messages)[Len(messages)]

BufferedAmount == Total(wire) + pinged

QInit ==
    /\ queued = <<>> /\ wire = <<>> /\ pinged = 0 /\ inFlight = 0
    /\ drainTimer = FALSE /\ shut = FALSE /\ readyState = "OPEN"
    /\ accepted = 0 /\ transmitted = <<>>

ReleaseQueue == queued' = <<>> /\ inFlight' = 0 /\ drainTimer' = FALSE

\* The close event of the WebSocket follows later.
AskClose == readyState' = IF readyState = "OPEN" THEN "CLOSING" ELSE readyState

GiveUp ==
    /\ shut' = TRUE
    /\ ReleaseQueue
    /\ AskClose
    /\ UNCHANGED <<wire, pinged, accepted, transmitted>>

TakesFitting(waiting, buffer) ==
    CHOOSE n \in 0 .. Len(waiting) :
        /\ \A k \in 1 .. n : buffer + Sums(waiting)[k] <= MaxBufferedAmount
        /\ n < Len(waiting) => buffer + Sums(waiting)[n + 1] > MaxBufferedAmount

\* How many of the waiting messages flush hands over: it stops at the first
\* one that finds the buffer above the limit.
Takes(waiting, buffer) ==
    CHOOSE n \in 0 .. Len(waiting) :
        /\ \A k \in 0 .. n - 1 : buffer + Sums(waiting)[k] <= MaxBufferedAmount
        /\ n < Len(waiting) => buffer + Sums(waiting)[n] > MaxBufferedAmount

\* flush, with the messages waiting and the buffer as the caller left them.
Flush(waiting, buffer, flying, timer) ==
    LET n == Takes(waiting, Total(buffer) + pinged)
    IN  /\ queued' = SubSeq(waiting, n + 1, Len(waiting))
        /\ wire' = buffer \o SubSeq(waiting, 1, n)
        /\ inFlight' = flying + n
        /\ transmitted' = transmitted \o SubSeq(waiting, 1, n)
        /\ drainTimer' = (timer \/ n < Len(waiting))

QueueLimit(size) ==
    LET sizes == {size} \cup {message.bytes : message \in ToSet(queued)}
    IN  MaxBufferedAmount + CHOOSE largest \in sizes : \A other \in sizes : other <= largest

Refuses(size) ==
    \/ inFlight = 0 /\ queued = <<>>
    \/ Total(queued) + size > QueueLimit(size)

HoldsByBuffer == BufferedAmount > MaxBufferedAmount

Holds == queued # <<>> \/ BufferedAmount > MaxBufferedAmount

\* A call of send(); what it is given after the connection closed is dropped.
Send(size) ==
    LET message == [id |-> accepted + 1, bytes |-> size] IN
    /\ ~shut /\ readyState = "OPEN" /\ accepted < MaxSends
    /\ \/ Holds /\ Refuses(size) /\ GiveUp
       \/ /\ Holds /\ ~Refuses(size)
          /\ accepted' = accepted + 1
          /\ Flush(Append(queued, message), wire, inFlight, drainTimer)
          /\ UNCHANGED <<pinged, shut, readyState>>
       \/ /\ ~Holds
          /\ accepted' = accepted + 1 /\ transmitted' = Append(transmitted, message)
          /\ wire' = Append(wire, message) /\ inFlight' = inFlight + 1
          /\ UNCHANGED <<queued, pinged, drainTimer, shut, readyState>>

\* A flush that finds the WebSocket closed forgets the queue.
FlushOrRelease(buffer, flying, timer) ==
    IF shut
    THEN wire' = buffer /\ drainTimer' = timer /\ UNCHANGED <<queued, inFlight, transmitted>>
    ELSE IF readyState = "OPEN" \/ queued = <<>> THEN Flush(queued, buffer, flying, timer)
    ELSE ReleaseQueue /\ wire' = buffer /\ UNCHANGED transmitted

\* The oldest message left the buffer and its callback runs.
Written ==
    /\ wire # <<>> /\ readyState # "CLOSED"
    /\ FlushOrRelease(Tail(wire), IF inFlight = 0 THEN 0 ELSE inFlight - 1, drainTimer)
    /\ UNCHANGED <<pinged, shut, readyState, accepted>>

\* A write fails: the callback of the oldest message carries the error.
WriteFails ==
    /\ wire # <<>> /\ ~shut
    /\ shut' = TRUE /\ ReleaseQueue /\ AskClose
    /\ wire' = Tail(wire)
    /\ UNCHANGED <<pinged, accepted, transmitted>>

DrainTimerFires ==
    /\ drainTimer
    /\ FlushOrRelease(wire, inFlight, FALSE)
    /\ UNCHANGED <<pinged, shut, readyState, accepted>>

\* The heartbeat writes a ping, which the transport gets rid of in its time.
Ping == pinged = 0 /\ readyState = "OPEN" /\ pinged' = 1
        /\ UNCHANGED <<queued, wire, inFlight, drainTimer, shut, readyState, accepted, transmitted>>

PingWritten == pinged = 1 /\ pinged' = 0
        /\ UNCHANGED <<queued, wire, inFlight, drainTimer, shut, readyState, accepted, transmitted>>

\* close() of the connection.
CloseConnection == ~shut /\ readyState # "CLOSED" /\ GiveUp

\* The peer or the host closes the WebSocket itself, past the connection.
SocketCloses ==
    /\ readyState = "OPEN" /\ readyState' = "CLOSING"
    /\ UNCHANGED <<queued, wire, pinged, inFlight, drainTimer, shut, accepted, transmitted>>

SocketClosed ==
    /\ readyState = "CLOSING" /\ readyState' = "CLOSED"
    /\ shut' = TRUE /\ ReleaseQueue
    /\ wire' = <<>> /\ pinged' = 0
    /\ UNCHANGED <<accepted, transmitted>>

QNext ==
    \/ \E size \in Sizes : Send(size)
    \/ Written \/ WriteFails \/ DrainTimerFires \/ Ping \/ PingWritten
    \/ CloseConnection \/ SocketCloses \/ SocketClosed

\* A timer fires, and the transport writes what it holds or fails.
QFairness ==
    /\ WF_qVars(DrainTimerFires)
    /\ WF_qVars(Written \/ WriteFails)
    /\ WF_qVars(PingWritten)

(* Properties *)

\* The state of make_connection: the count of messages in flight is right for
\* as long as the connection is open.
QTypeOK ==
    /\ readyState \in {"OPEN", "CLOSING", "CLOSED"} /\ shut \in BOOLEAN
    /\ ~shut /\ readyState = "OPEN" => inFlight = Len(wire)
    /\ shut => queued = <<>> /\ ~drainTimer

\* send and flush lose no message and let none overtake another: while the
\* connection is open, what send() took is what went out and then what waits.
NothingOvertaken == ~shut /\ readyState = "OPEN" =>
    LET all == transmitted \o queued
    IN  Len(all) = accepted /\ \A n \in 1 .. accepted : all[n].id = n

\* The queue and the buffer stay within the limit and one message more each,
\* however sends, writes, pings and timers follow one another.
MemoryBounded ==
    LET largest == CHOOSE s \in Sizes : \A t \in Sizes : t <= s
    IN  Total(queued) <= MaxBufferedAmount + largest /\ Total(wire) <= MaxBufferedAmount + largest

\* Everything taken goes out, unless the connection closes.
QueueDrains == [](queued # <<>> => <>(queued = <<>>))

\* What was accepted goes out in order, once, and is bounded while it waits.
QueueSound == QTypeOK /\ NothingOvertaken /\ MemoryBounded
=============================================================================
