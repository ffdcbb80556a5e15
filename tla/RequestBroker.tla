--------------------------- MODULE RequestBroker ---------------------------
(***************************************************************************)
(* Server-initiated requests (src/broker.rs and ToolEnv::send_request):    *)
(* the one thread that reads the transport routes each response to         *)
(* whoever waits for it.  Workers on other threads register a channel and  *)
(* block on it (Delegated); a tool on the reading thread reads for itself  *)
(* (Direct).                                                               *)
(*                                                                         *)
(* The broker's four collections have a mutex each, and its methods take   *)
(* them one after the other, so a method is as many steps as it takes      *)
(* locks.  What the client sends is chosen when it is read.  A             *)
(* cancellation naming another wait, read during a Direct one, is put off  *)
(* to the main loop; here that is one the main loop reads later.           *)
(***************************************************************************)
EXTENDS Integers, Sequences, SequencesExt

CONSTANTS
    Workers,        \* task worker threads
    MaxRequests,    \* bound: requests issued in one behaviour
    MaxParked,      \* MAX_PARKED
    MaxAbandoned,   \* MAX_ABANDONED
    Deadlines,      \* request_timeout is Some
    Rogue,          \* the client answers twice, or what it was never asked
    Garbage         \* the client may send a line that is no message

ASSUME BrokerAssumption ==
    /\ MaxRequests \in Nat
    /\ MaxParked \in Nat
    /\ MaxAbandoned \in Nat
    /\ Deadlines \in BOOLEAN
    /\ Rogue \in BOOLEAN
    /\ Garbage \in BOOLEAN

Ids  == 0 .. MaxRequests - 1
NoId == 0 - 1

VARIABLES
    nextId,     \* RequestBroker::next_id
    waiters,    \* RequestBroker::waiters, the ids with a registered sender
    parked,     \* RequestBroker::parked, the ids of the responses
    abandoned,  \* RequestBroker::abandoned
    inChannel,  \* ids whose response is in its waiter's channel
    at,         \* at[w]: where worker w is in send_request
    asking,     \* asking[w]: the id of its request
    stop,       \* stop[w]: the cancellation flag of w's task
    reader,     \* where the reading thread is in deliver or abandon
    routing,    \* the id it is routing there
    direct,     \* the id of the Direct wait it is in
    written,    \* history: requests that reached the client
    answered,   \* history: requests whose response was read
    withdrawn,  \* history: ids whose cancellation by the client was read
    recalled,   \* history: those of them whose request had been written
    late,       \* history: ids whose last response came after abandon() was done, and
                \* which MAX_ABANDONED has not pushed out before it was looked up
    over        \* history: ids whose send_request has returned

vars == <<nextId, waiters, parked, abandoned, inChannel, at, asking, stop, reader, routing,
          direct, written, answered, withdrawn, recalled, late, over>>

workerVars == <<at, asking, stop>>
readerVars == <<reader, routing, direct>>
queueVars  == <<waiters, parked, abandoned, inChannel>>
history    == <<written, answered, withdrawn, recalled, late, over>>

\* The three locks of abandon(), in the order it takes them.
AbandonSteps == {"unpark", "unregister", "remember"}
WorkerStates == {"idle", "allocated", "registered", "waiting"} \cup AbandonSteps
ReaderStates == {"reading", "lookup", "send", "check", "park"} \cup AbandonSteps

TypeOK ==
    /\ nextId \in 0 .. MaxRequests
    /\ waiters \subseteq Ids
    /\ parked \in Seq(Ids)
    /\ abandoned \in Seq(Ids)
    /\ inChannel \subseteq Ids
    /\ at \in [Workers -> WorkerStates]
    /\ asking \in [Workers -> Ids \cup {NoId}]
    /\ stop \in [Workers -> BOOLEAN]
    /\ reader \in ReaderStates
    /\ routing \in Ids \cup {NoId}
    /\ direct \in Ids \cup {NoId}
    /\ written \subseteq Ids
    /\ answered \subseteq Ids
    /\ withdrawn \subseteq Ids
    /\ recalled \subseteq withdrawn
    /\ late \subseteq Ids
    /\ over \subseteq Ids

-----------------------------------------------------------------------------
(* The queues *)

WasIssuedHere(id) == id < nextId

\* retain(), of the parked answers: one per id (see Routed), so one at most goes.
Without(queue, id) == RemoveFirst(queue, id)

\* Mutation: the ceiling is trimmed to one too late.
Trimmed_OffByOne(queue, max) ==
    IF Len(queue) > max + 1 THEN SubSeq(queue, Len(queue) - max, Len(queue)) ELSE queue

\* push_back, then pop_front down to the ceiling.
Trimmed(queue, max) ==
    IF Len(queue) > max THEN SubSeq(queue, Len(queue) - max + 1, Len(queue)) ELSE queue

\* A second answer replaces the first where it is; there is one per id.
Parked(queue, id) ==
    IF Contains(queue, id) THEN queue ELSE Trimmed(Append(queue, id), MaxParked)

Remembered(queue, id) == Trimmed(Append(queue, id), MaxAbandoned)

\* forget_abandoned removes the first occurrence only.
Forgotten(queue, id) == RemoveFirst(queue, id)

\* One lock's worth of abandon(id).
Abandon(step, id) ==
    /\ parked' = IF step = "unpark" THEN Without(parked, id) ELSE parked
    /\ waiters' = IF step = "unregister" THEN waiters \ {id} ELSE waiters
    /\ abandoned' = IF step = "remember" THEN Remembered(abandoned, id) ELSE abandoned

After(step, done) ==
    CASE step = "unpark"     -> "unregister"
      [] step = "unregister" -> "remember"
      [] step = "remember"   -> done

-----------------------------------------------------------------------------
(* A worker's send_request, in Delegated mode *)

\* Mutation: the request goes out without a registered waiter.
Allocate_Unregistered(w) ==
    /\ at[w] = "idle"
    /\ nextId < MaxRequests
    /\ nextId' = nextId + 1
    /\ at' = [at EXCEPT ![w] = "registered"]
    /\ asking' = [asking EXCEPT ![w] = nextId]
    /\ UNCHANGED <<queueVars, stop, readerVars, history>>

Allocate(w) ==
    /\ at[w] = "idle"
    /\ nextId < MaxRequests
    /\ nextId' = nextId + 1
    /\ at' = [at EXCEPT ![w] = "allocated"]
    /\ asking' = [asking EXCEPT ![w] = nextId]
    /\ UNCHANGED <<queueVars, stop, readerVars, history>>

RegisterWaiter(w) ==
    /\ at[w] = "allocated"
    /\ waiters' = waiters \cup {asking[w]}
    /\ at' = [at EXCEPT ![w] = "registered"]
    /\ UNCHANGED <<nextId, parked, abandoned, inChannel, asking, stop, readerVars, history>>

WriteRequest(w) ==
    /\ at[w] = "registered"
    /\ written' = written \cup {asking[w]}
    /\ at' = [at EXCEPT ![w] = "waiting"]
    /\ UNCHANGED <<nextId, queueVars, asking, stop, readerVars, answered, withdrawn,
                   recalled, late, over>>

\* Nobody receives any more: whatever is in the channel is dropped with it.
Leave(w, next) ==
    /\ at' = [at EXCEPT ![w] = next]
    /\ inChannel' = inChannel \ {asking[w]}
    /\ over' = IF next = "idle" THEN over \cup {asking[w]} ELSE over
    /\ UNCHANGED <<nextId, waiters, parked, abandoned, asking, stop, readerVars, written,
                   answered, withdrawn, recalled, late>>

\* Mutation: a request that could not be written is returned from at once.
WriteFails_NoAbandon(w) == at[w] = "registered" /\ Leave(w, "idle")

\* A request that never went out will never be answered.
WriteFails(w) == at[w] = "registered" /\ Leave(w, "unpark")

GiveUp(w) ==
    /\ at[w] = "waiting"
    /\ stop[w] \/ Deadlines
    /\ Leave(w, "unpark")

\* An error from the client, once the task is cancelled, is abandoned as well.
Receive(w) ==
    /\ at[w] = "waiting"
    /\ asking[w] \in inChannel
    /\ \/ Leave(w, "idle")
       \/ stop[w] /\ Leave(w, "unpark")

\* recv_timeout reports Disconnected: the sender was dropped unused.
Disconnected(w) ==
    /\ at[w] = "waiting"
    /\ asking[w] \notin waiters \cup inChannel
    /\ ~(reader = "send" /\ routing = asking[w])
    /\ Leave(w, IF stop[w] THEN "unpark" ELSE "idle")

\* An id pushed out of the queue while a response to it is being looked up.
PushedOut(queue) ==
    IF reader \in {"lookup", "check"} /\ ~Contains(queue, routing) THEN {routing} ELSE {}

WorkerAbandons(w) ==
    /\ at[w] \in AbandonSteps
    /\ Abandon(at[w], asking[w])
    /\ at' = [at EXCEPT ![w] = After(at[w], "idle")]
    /\ over' = IF at[w] = "remember" THEN over \cup {asking[w]} ELSE over
    /\ late' = late \ PushedOut(abandoned')
    /\ UNCHANGED <<nextId, inChannel, asking, stop, readerVars, written, answered, withdrawn,
                   recalled>>

\* tasks/cancel raises the flag that is_cancelled reads.
CancelTask(w) ==
    /\ ~stop[w]
    /\ stop' = [stop EXCEPT ![w] = TRUE]
    /\ UNCHANGED <<nextId, queueVars, at, asking, readerVars, history>>

-----------------------------------------------------------------------------
(* The reading thread *)

Route(id, step) == reader' = step /\ routing' = id

\* An honest client answers a request it has seen, once.
MayAnswer(id) == Rogue \/ id \in written \ answered

\* deliver(): the answer is not the one a Direct wait reads for.
ReadResponse(id) ==
    /\ reader = "reading"
    /\ direct # id
    /\ MayAnswer(id)
    /\ Route(id, "lookup")
    /\ answered' = answered \cup ({id} \cap written)
    /\ late' = IF id \in over /\ Contains(abandoned, id) /\ ~Contains(parked, id)
               THEN late \cup {id} ELSE late \ {id}
    /\ UNCHANGED <<nextId, queueVars, workerVars, direct, written, withdrawn, recalled, over>>

LookupWaiter ==
    /\ reader = "lookup"
    /\ waiters' = waiters \ {routing}
    /\ Route(routing, IF routing \in waiters THEN "send" ELSE "check")
    /\ UNCHANGED <<nextId, parked, abandoned, inChannel, workerVars, direct, history>>

\* try_send: a waiter that has given up has dropped its receiver.
SendToWaiter ==
    /\ reader = "send"
    /\ inChannel' = inChannel \cup
          {asking[w] : w \in {v \in Workers : asking[v] = routing /\ at[v] \in {"registered", "waiting"}}}
    /\ Route(NoId, "reading")
    /\ UNCHANGED <<nextId, waiters, parked, abandoned, workerVars, direct, history>>

\* Mutation: park does not look at what was abandoned.
CheckAbandoned_Parks ==
    /\ reader = "check"
    /\ IF WasIssuedHere(routing) THEN Route(routing, "park") ELSE Route(NoId, "reading")
    /\ UNCHANGED <<nextId, queueVars, workerVars, direct, history>>

\* park() drops what was never asked and what has been abandoned.
CheckAbandoned ==
    /\ reader = "check"
    /\ abandoned' = IF WasIssuedHere(routing) THEN Forgotten(abandoned, routing) ELSE abandoned
    /\ IF WasIssuedHere(routing) /\ ~Contains(abandoned, routing)
       THEN Route(routing, "park")
       ELSE Route(NoId, "reading")
    /\ UNCHANGED <<nextId, waiters, parked, inChannel, workerVars, direct, history>>

Park ==
    /\ reader = "park"
    /\ parked' = Parked(parked, routing)
    /\ Route(NoId, "reading")
    /\ UNCHANGED <<nextId, waiters, abandoned, inChannel, workerVars, direct, history>>

\* notifications/cancelled: only ids issued here are touched.
ReadWithdrawal(id) ==
    /\ reader = "reading"
    /\ direct \in {NoId, id}
    /\ Rogue \/ id \in written \ withdrawn
    /\ withdrawn' = withdrawn \cup {id}
    /\ recalled' = recalled \cup ({id} \cap written)
    /\ direct' = NoId
    /\ over' = over \cup ({direct} \ {NoId})
    /\ IF WasIssuedHere(id) THEN Route(id, "unpark") ELSE UNCHANGED <<reader, routing>>
    /\ UNCHANGED <<nextId, queueVars, workerVars, written, answered, late>>

ReaderAbandons ==
    /\ reader \in AbandonSteps
    /\ Abandon(reader, routing)
    /\ Route(IF reader = "remember" THEN NoId ELSE routing, After(reader, "reading"))
    /\ UNCHANGED <<nextId, inChannel, workerVars, direct, history>>

\* A tool on this thread asks, and its request goes out or is abandoned.
DirectAsk ==
    /\ reader = "reading"
    /\ direct = NoId
    /\ nextId < MaxRequests
    /\ nextId' = nextId + 1
    /\ \/ direct' = nextId /\ written' = written \cup {nextId} /\ UNCHANGED <<reader, routing, over>>
       \/ Route(nextId, "unpark") /\ over' = over \cup {nextId} /\ UNCHANGED <<direct, written>>
    /\ UNCHANGED <<queueVars, workerVars, answered, withdrawn, recalled, late>>

DirectReturns(next) ==
    /\ direct' = NoId
    /\ over' = over \cup {direct}
    /\ IF next = "reading" THEN UNCHANGED <<reader, routing>> ELSE Route(direct, next)
    /\ UNCHANGED <<nextId, queueVars, workerVars, written, withdrawn, recalled, late>>

\* await_response looks for a parked answer before each read; a Direct wait
\* ends with its answer, at its deadline, or with a line that is no message.
DirectAnswered ==
    /\ reader = "reading"
    /\ direct # NoId
    /\ ~Contains(parked, direct)
    /\ MayAnswer(direct)
    /\ answered' = answered \cup {direct}
    /\ DirectReturns("reading")

DirectTimesOut ==
    /\ reader = "reading"
    /\ direct # NoId
    /\ Deadlines
    /\ UNCHANGED answered
    /\ DirectReturns("unpark")

DirectReadFails ==
    /\ reader = "reading"
    /\ direct # NoId
    /\ Garbage
    /\ UNCHANGED answered
    /\ DirectReturns("reading")

-----------------------------------------------------------------------------
Init ==
    /\ nextId = 0
    /\ waiters = {} /\ parked = <<>> /\ abandoned = <<>> /\ inChannel = {}
    /\ at = [w \in Workers |-> "idle"]
    /\ asking = [w \in Workers |-> NoId]
    /\ stop = [w \in Workers |-> FALSE]
    /\ reader = "reading" /\ routing = NoId /\ direct = NoId
    /\ written = {} /\ answered = {} /\ withdrawn = {} /\ recalled = {} /\ late = {} /\ over = {}

WorkerStep(w) ==
    \/ Allocate(w) \/ RegisterWaiter(w) \/ WriteRequest(w) \/ WriteFails(w)
    \/ GiveUp(w) \/ Receive(w) \/ Disconnected(w) \/ WorkerAbandons(w)

RoutingStep == LookupWaiter \/ SendToWaiter \/ CheckAbandoned \/ Park \/ ReaderAbandons

DirectStep == DirectAsk \/ DirectAnswered \/ DirectTimesOut \/ DirectReadFails

Next ==
    \/ \E w \in Workers : WorkerStep(w) \/ CancelTask(w)
    \/ \E id \in Ids : ReadResponse(id) \/ ReadWithdrawal(id)
    \/ RoutingStep
    \/ DirectStep

Spec == Init /\ [][Next]_vars

-----------------------------------------------------------------------------
(* Properties *)

\* Every registered sender belongs to a call that is still going to be
\* answered or to take it back: no exit of send_request - unsent, timed out,
\* cancelled, disconnected - leaves one in the broker.
NoWaiterLeaked ==
    \A id \in waiters :
        \E w \in Workers : asking[w] = id /\ at[w] \in {"registered", "waiting", "unpark", "unregister"}

\* No wake-up is lost, whatever the order of registering, writing, reading and
\* routing, and though deliver and abandon of several threads are at work: once
\* the reader is done with it, an answer to a blocked worker is in the worker's
\* channel, and after a cancellation by the client its sender is gone.
WakeUpReaches ==
    \A w \in Workers :
        at[w] = "waiting" /\ routing # asking[w] =>
            /\ asking[w] \in answered \ withdrawn => asking[w] \in inChannel
            /\ asking[w] \in recalled => asking[w] \notin waiters

\* Once abandon() is done, and as long as its id is remembered, a late response is
\* discarded: it is not parked and reaches no later waiter.
LateAnswerDiscarded ==
    \A id \in late : ~Contains(parked, id) /\ id \notin inChannel

\* The broker holds what the calls in progress need and nothing more, however
\* timeouts, cancellations, failed writes and answers - late, repeated, never
\* asked for - interleave between its locks: no sender is leaked, no wake-up is
\* lost, no late answer is kept, at most one answer per id is, and MAX_PARKED and
\* MAX_ABANDONED bound the rest.
Routed ==
    /\ NoWaiterLeaked
    /\ WakeUpReaches
    /\ LateAnswerDiscarded
    /\ IsInjective(parked)
    /\ Len(parked) <= MaxParked /\ Len(abandoned) <= MaxAbandoned

\* "Remembering them is what stops a late response being parked for a waiter
\* that has gone": no parked response is one whose send_request has returned.
ParkedHasWaiter == \A id \in over : ~Contains(parked, id)
=============================================================================
