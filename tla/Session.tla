------------------------------ MODULE Session ------------------------------
(***************************************************************************)
(* One client session over a bidirectional transport (Server::start in     *)
(* src/server.rs): the loop thread that reads and answers, the             *)
(* tasks/result pump, a tool that asks the client and reads for itself,    *)
(* and the task workers, which write through the same handle and wait for  *)
(* the loop thread to route their answers.                                 *)
(*                                                                         *)
(* The broker is taken at its word here (RequestBroker has its locks) and  *)
(* so is the store (TaskStore implements TaskLifecycle).  What the client  *)
(* sends is chosen when it is read.                                        *)
(***************************************************************************)
EXTENDS Integers, Sequences, SequencesExt

CONSTANTS
    Tasks,          \* the tasks the session can start
    NoTask,         \* no task
    MaxRequests,    \* bound: client requests read
    MaxDeferred,    \* MAX_DEFERRED
    Configs,        \* the configurations a session may run under
    Kinds           \* the requests the client sends in this instance

ASSUME SessionAssumption ==
    /\ NoTask \notin Tasks
    /\ MaxRequests \in Nat
    /\ MaxDeferred \in Nat
    /\ Configs \subseteq
         [requireInit : BOOLEAN,  \* ServerConfig::require_initialization
          timeout : BOOLEAN,      \* ServerConfig::request_timeout is Some
          garbage : BOOLEAN,      \* the client may send a line that is no message
          sinkFails : BOOLEAN,    \* writing to the client may start to fail
          slowReply : BOOLEAN]    \* an answer may take longer than a TaskGate waits

\* What the session tells requests apart by.  "list" is every method that is
\* answered at once but not from inside the pump; "ping" every one that also
\* is; "ask" a call of a tool that asks the client; "task" a task-augmented
\* call; "initialize" the handshake.
AllKinds == {"initialize", "ping", "list", "ask", "task", "cancel", "result"}
Inline   == {"ping", "cancel"}

ASSUME KindsAssumption == Kinds \subseteq AllKinds

RequestIds == 1 .. MaxRequests
NoRequest  == 0

VARIABLES
    config,     \* what the session runs under, fixed at its start
    mode,       \* where the loop thread is
    current,    \* the request it is handling
    target,     \* the task its tasks/result waits for
    born,       \* the task its tools/call has started, not announced yet
    deferred,   \* RequestBroker::deferred
    arrived,    \* how many requests have been read
    answers,    \* answers[i]: responses written to request i
    order,      \* history: the requests the loop has started on
    initialized,
    life,       \* life[t]: the phase of the task's record
    worker,     \* worker[t]: its thread
    gate,       \* gate[t]: its TaskGate
    stopped,    \* tasks whose cancellation flag is up
    asked,      \* tasks whose worker has asked the client something
    heard,      \* tasks whose wait has its answer, or has lost its sender
    responded,  \* history: asks the client has answered
    withdrawn,  \* history: asks whose cancellation has been read
    announced,  \* history: tasks whose CreateTaskResult is on the wire
    spoken,     \* history: tasks whose worker has written something
    ignored,    \* history: lines that were no message, read by a waiting tool
    broken,     \* the sink has failed, and stays failed
    eof         \* the client has hung up; what it sent has been read

loopVars   == <<mode, current, target, born, deferred, arrived, answers, order, initialized>>
taskVars   == <<life, worker, gate, stopped>>
askVars    == <<asked, heard, responded, withdrawn>>
wireVars   == <<announced, spoken, ignored, broken, eof>>
vars       == <<config, loopVars, taskVars, askVars, wireVars>>

Modes   == {"idle", "replying", "pumpLook", "pumpRead", "direct", "closed"}
Workers == {"none", "gated", "running", "asked", "waiting", "done"}

Request == [kind : AllKinds, id : RequestIds, task : Tasks \cup {NoTask}]
Withdrawal == [kind : {"withdrawal"}, task : Tasks]

Life == INSTANCE TaskLifecycle WITH
            TaskIds <- Tasks,
            phase   <- life,
            result  <- [t \in Tasks |-> IF life[t] \in {"completed", "cancelled"} THEN "value" ELSE "none"]

TypeOK ==
    /\ mode \in Modes
    /\ current \in RequestIds \cup {NoRequest}
    /\ target \in Tasks \cup {NoTask}
    /\ born \in Tasks \cup {NoTask}
    /\ deferred \in Seq(Request \cup Withdrawal)
    /\ arrived \in 0 .. MaxRequests
    /\ answers \in [RequestIds -> Nat]
    /\ order \in Seq(RequestIds)
    /\ initialized \in BOOLEAN
    /\ life \in [Tasks -> Life!Phases]
    /\ worker \in [Tasks -> Workers]
    /\ gate \in [Tasks -> {"none", "shut", "open"}]
    /\ stopped \subseteq Tasks
    /\ asked \subseteq Tasks
    /\ heard \subseteq Tasks
    /\ responded \subseteq Tasks
    /\ withdrawn \subseteq Tasks
    /\ announced \subseteq Tasks
    /\ spoken \subseteq Tasks
    /\ ignored \subseteq RequestIds
    /\ broken \in BOOLEAN
    /\ eof \in BOOLEAN
    /\ mode \in {"idle", "closed"} <=> current = NoRequest
    /\ mode \in {"pumpLook", "pumpRead"} => target # NoTask

-----------------------------------------------------------------------------
(* The store and the wire *)

\* set_status, finish, cancel and the sweep: a move the state machine does not
\* allow is ignored.
MoveTask(t, to) ==
    life' = IF Life!MayFollow(life[t], to) THEN [life EXCEPT ![t] = to] ELSE life

\* A response to request i, written if the sink still works.
Answer(i) == answers' = IF broken THEN answers ELSE [answers EXCEPT ![i] = @ + 1]

\* write_message opens every gate, whatever it wrote and however that went.
ReleaseTaskWorkers == gate' = [t \in Tasks |-> IF gate[t] = "shut" THEN "open" ELSE gate[t]]

SayFor(t) == spoken' = IF broken THEN spoken ELSE spoken \cup {t}

SinkBreaks ==
    /\ config.sinkFails
    /\ ~broken
    /\ broken' = TRUE
    /\ UNCHANGED <<loopVars, taskVars, askVars, announced, spoken, ignored, eof>>

ClientHangsUp ==
    /\ ~eof
    /\ eof' = TRUE
    /\ UNCHANGED <<loopVars, taskVars, askVars, announced, spoken, ignored, broken>>

-----------------------------------------------------------------------------
(* The loop thread: handle_message *)

\* Nothing but ping before the handshake, which happens once - where that is
\* asked for.
CheckInitialized(kind) ==
    config.requireInit => \/ kind = "ping"
                          \/ kind = "initialize" /\ ~initialized
                          \/ kind # "initialize" /\ initialized

\* dispatch_request of m: what is refused, and what needs no waiting, has its
\* response ready; the others wait first.
Dispatch(m) ==
    /\ current' = m.id
    /\ order' = Append(order, m.id)
    /\ initialized' = (initialized \/ m.kind = "initialize")
    /\ \/ /\ ~CheckInitialized(m.kind) \/ m.kind \in {"initialize", "ping", "list"}
          /\ mode' = "replying"
          /\ UNCHANGED <<target, born, taskVars>>
       \/ /\ CheckInitialized(m.kind)
          /\ m.kind = "cancel"
          /\ mode' = "replying"
          /\ MoveTask(m.task, "cancelled")
          /\ stopped' = IF life[m.task] \in {"working", "input_required"}
                        THEN stopped \cup {m.task} ELSE stopped
          /\ UNCHANGED <<target, born, worker, gate>>
       \/ /\ CheckInitialized(m.kind)
          /\ m.kind = "ask"
          /\ mode' = "direct"
          /\ UNCHANGED <<target, born, taskVars>>
       \/ /\ CheckInitialized(m.kind)
          /\ m.kind = "result"
          /\ mode' = "pumpLook"
          /\ target' = m.task
          /\ UNCHANGED <<born, taskVars>>
       \/ /\ CheckInitialized(m.kind)
          /\ m.kind = "task"
          /\ mode' = "replying"
          /\ \/ \E t \in Tasks :
                   /\ life[t] = "absent"
                   /\ MoveTask(t, "working")
                   /\ worker' = [worker EXCEPT ![t] = "gated"]
                   /\ gate' = [gate EXCEPT ![t] = "shut"]
                   /\ born' = t
             \/ \E t \in Tasks :                    \* no thread can be had
                   /\ life[t] = "absent"
                   /\ life' = [life EXCEPT ![t] = "failed"]
                   /\ UNCHANGED <<worker, gate, born>>
             \/ UNCHANGED <<life, worker, gate, born>>     \* create() refuses
          /\ UNCHANGED <<target, stopped>>

\* The response, with its side effect on the gates; a failed write ends start().
WriteReply ==
    /\ mode = "replying"
    /\ Answer(current)
    /\ ReleaseTaskWorkers
    /\ announced' = IF broken \/ born = NoTask THEN announced ELSE announced \cup {born}
    /\ mode' = IF broken THEN "closed" ELSE "idle"
    /\ current' = NoRequest /\ target' = NoTask /\ born' = NoTask
    /\ UNCHANGED <<deferred, arrived, order, initialized, life, worker, stopped, askVars,
                   spoken, ignored, broken, eof>>

\* broker.cancel on behalf of a notification the loop handles.
CancelWait(t) == heard' = heard \cup {t}

\* Drain what was put off before reading.
TakeDeferred ==
    /\ mode = "idle"
    /\ deferred # <<>>
    /\ deferred' = Tail(deferred)
    /\ \/ /\ Head(deferred).kind = "withdrawal"
          /\ CancelWait(Head(deferred).task)
          /\ UNCHANGED <<mode, current, target, born, order, initialized, taskVars>>
       \/ /\ Head(deferred).kind # "withdrawal"
          /\ Dispatch(Head(deferred))
          /\ UNCHANGED heard
    /\ UNCHANGED <<arrived, answers, asked, responded, withdrawn, wireVars>>

\* The next request off the wire.
Arrives(m) ==
    /\ ~eof
    /\ arrived < MaxRequests
    /\ m.id = arrived + 1
    /\ arrived' = arrived + 1

\* Mutation: the transport is read before what was put off is drained.
Reading_Eager == mode = "idle"

Reading == mode = "idle" /\ deferred = <<>>

ReadRequest(m) ==
    /\ Reading
    /\ Arrives(m)
    /\ Dispatch(m)
    /\ UNCHANGED <<deferred, answers, askVars, wireVars>>

\* Unreadable input: an error response, and the session carries on.
ReadMalformed ==
    /\ Reading
    /\ config.garbage
    /\ ~eof
    /\ arrived < MaxRequests
    /\ arrived' = arrived + 1
    /\ current' = arrived + 1
    /\ mode' = "replying"
    /\ UNCHANGED <<target, born, deferred, answers, order, initialized, taskVars, askVars, wireVars>>

\* Mutation: nobody routes answers while the loop waits for a task.
RouteResponse_NotPumping(t) ==
    /\ ~eof
    /\ mode = "direct" \/ Reading
    /\ t \in asked \ responded
    /\ responded' = responded \cup {t}
    /\ heard' = heard \cup {t}
    /\ UNCHANGED <<loopVars, taskVars, asked, withdrawn, wireVars>>

\* The client answers each of the server's requests at most once.
RouteResponse(t) ==
    /\ ~eof
    /\ mode \in {"idle", "pumpRead", "direct"}
    /\ mode = "idle" => deferred = <<>>
    /\ t \in asked \ responded
    /\ responded' = responded \cup {t}
    /\ heard' = heard \cup {t}
    /\ mode' = IF mode = "pumpRead" THEN "pumpLook" ELSE mode
    /\ UNCHANGED <<current, target, born, deferred, arrived, answers, order, initialized,
                   taskVars, asked, withdrawn, wireVars>>

ReadWithdrawal(t) ==
    /\ Reading
    /\ ~eof
    /\ t \in asked \ withdrawn
    /\ withdrawn' = withdrawn \cup {t}
    /\ CancelWait(t)
    /\ UNCHANGED <<loopVars, taskVars, asked, responded, wireVars>>

\* read() reports the client gone, or fails: start returns.
ReadCloses ==
    /\ Reading
    /\ eof
    /\ mode' = "closed"
    /\ UNCHANGED <<current, target, born, deferred, arrived, answers, order, initialized,
                   taskVars, askVars, wireVars>>

-----------------------------------------------------------------------------
(* Setting messages aside *)

\* Mutations: a request that cannot be put off is dropped; one that is refused
\* is put off all the same.
ShedOrDefer_Drops(m) ==
    /\ deferred' = IF Len(deferred) < MaxDeferred THEN Append(deferred, m) ELSE deferred
    /\ UNCHANGED answers

ShedOrDefer_Both(m) ==
    /\ deferred' = Append(deferred, m)
    /\ IF Len(deferred) < MaxDeferred \/ m.kind = "withdrawal" THEN UNCHANGED answers ELSE Answer(m.id)

\* defer(), or a refusal: requests are told, anything else is dropped.
ShedOrDefer(m) ==
    IF Len(deferred) < MaxDeferred
    THEN deferred' = Append(deferred, m) /\ UNCHANGED answers
    ELSE /\ UNCHANGED deferred
         /\ IF m.kind = "withdrawal" THEN UNCHANGED answers ELSE Answer(m.id)

-----------------------------------------------------------------------------
(* The loop thread inside tasks/result: await_task *)

\* Mutation: a record that is gone is waited for.
PumpLook_WaitsForPurged ==
    /\ mode = "pumpLook"
    /\ mode' = IF life[target] \in Life!Terminal THEN "replying" ELSE "pumpRead"
    /\ UNCHANGED <<current, target, born, deferred, arrived, answers, order, initialized,
                   taskVars, askVars, wireVars>>

\* try_result: a terminal task ends the wait with its outcome, and so does one
\* that is not there; otherwise the transport is read for one slice.
PumpLook ==
    /\ mode = "pumpLook"
    /\ mode' = IF life[target] \in {"working", "input_required"} THEN "pumpRead" ELSE "replying"
    /\ UNCHANGED <<current, target, born, deferred, arrived, answers, order, initialized,
                   taskVars, askVars, wireVars>>

PumpTimesOut ==
    /\ mode = "pumpRead"
    /\ ~eof
    /\ mode' = "pumpLook"
    /\ UNCHANGED <<current, target, born, deferred, arrived, answers, order, initialized,
                   taskVars, askVars, wireVars>>

\* answer_inline; a failed write ends the wait with an error.
PumpInline(m) ==
    /\ mode = "pumpRead"
    /\ m.kind \in Inline
    /\ Arrives(m)
    /\ Answer(m.id)
    /\ ReleaseTaskWorkers
    /\ IF m.kind = "cancel"
       THEN /\ MoveTask(m.task, "cancelled")
            /\ stopped' = IF life[m.task] \in {"working", "input_required"}
                          THEN stopped \cup {m.task} ELSE stopped
       ELSE UNCHANGED <<life, stopped>>
    /\ mode' = IF broken THEN "replying" ELSE "pumpLook"
    /\ UNCHANGED <<current, target, born, deferred, order, initialized, worker, askVars, wireVars>>

PumpMalformed ==
    /\ mode = "pumpRead"
    /\ config.garbage
    /\ ~eof
    /\ arrived < MaxRequests
    /\ arrived' = arrived + 1
    /\ Answer(arrived + 1)
    /\ ReleaseTaskWorkers
    /\ mode' = IF broken THEN "replying" ELSE "pumpLook"
    /\ UNCHANGED <<current, target, born, deferred, order, initialized, life, worker, stopped,
                   askVars, wireVars>>

PumpDefersRequest(m) ==
    /\ mode = "pumpRead"
    /\ m.kind \notin Inline
    /\ Arrives(m)
    /\ ShedOrDefer(m)
    /\ mode' = IF broken /\ deferred' = deferred THEN "replying" ELSE "pumpLook"
    /\ UNCHANGED <<current, target, born, order, initialized, taskVars, askVars, wireVars>>

PumpDefersWithdrawal(t) ==
    /\ mode = "pumpRead"
    /\ ~eof
    /\ t \in asked \ withdrawn
    /\ withdrawn' = withdrawn \cup {t}
    /\ ShedOrDefer([kind |-> "withdrawal", task |-> t])
    /\ mode' = "pumpLook"
    /\ UNCHANGED <<current, target, born, arrived, order, initialized, taskVars, asked, heard,
                   responded, wireVars>>

\* The client hung up: the wait ends with an error, and the loop finds out too.
PumpCloses ==
    /\ mode = "pumpRead"
    /\ eof
    /\ mode' = "replying"
    /\ UNCHANGED <<current, target, born, deferred, arrived, answers, order, initialized,
                   taskVars, askVars, wireVars>>

-----------------------------------------------------------------------------
(* The loop thread inside a tool that asks the client: await_response *)

\* The tool returns, and the call is answered: the client has answered, or
\* withdrawn, what the tool asked; the deadline is over; the read, or the
\* request's own write, has failed.
DirectEnds ==
    /\ mode = "direct"
    /\ mode' = "replying"
    /\ UNCHANGED <<current, target, born, deferred, arrived, answers, order, initialized,
                   taskVars, askVars, wireVars>>

DirectHeard   == ~eof /\ DirectEnds
DirectGivesUp == (config.timeout \/ eof \/ broken) /\ DirectEnds

DirectDefersRequest(m) ==
    /\ mode = "direct"
    /\ Arrives(m)
    /\ ShedOrDefer(m)
    /\ UNCHANGED <<mode, current, target, born, order, initialized, taskVars, askVars, wireVars>>

DirectDefersWithdrawal(t) ==
    /\ mode = "direct"
    /\ ~eof
    /\ t \in asked \ withdrawn
    /\ withdrawn' = withdrawn \cup {t}
    /\ ShedOrDefer([kind |-> "withdrawal", task |-> t])
    /\ UNCHANGED <<mode, current, target, born, arrived, order, initialized, taskVars, asked,
                   heard, responded, wireVars>>

\* read()? hands the parse error to the tool.
DirectMalformed ==
    /\ mode = "direct"
    /\ config.garbage
    /\ ~eof
    /\ arrived < MaxRequests
    /\ arrived' = arrived + 1
    /\ ignored' = ignored \cup {arrived + 1}
    /\ mode' = "replying"
    /\ UNCHANGED <<current, target, born, deferred, answers, order, initialized, taskVars,
                   askVars, announced, spoken, broken, eof>>

-----------------------------------------------------------------------------
(* The worker thread of task t *)

unlooped == <<loopVars, gate, stopped, responded, withdrawn, announced, ignored, broken, eof>>

\* Mutation: the worker does not wait at its gate.
PassGate_Unchecked(t) ==
    /\ worker[t] = "gated"
    /\ worker' = [worker EXCEPT ![t] = "running"]
    /\ UNCHANGED <<unlooped, life, asked, heard, spoken>>

PassGate(t) ==
    /\ worker[t] = "gated"
    /\ gate[t] = "open" \/ config.slowReply
    /\ worker' = [worker EXCEPT ![t] = "running"]
    /\ UNCHANGED <<unlooped, life, asked, heard, spoken>>

\* A log record, a progress notification.
Speak(t) ==
    /\ worker[t] = "running"
    /\ SayFor(t)
    /\ UNCHANGED <<unlooped, life, worker, asked, heard>>

\* send_request: registered, then written; a failed write fails the request.
AskClient(t) ==
    /\ worker[t] = "running"
    /\ t \notin asked
    /\ ~broken
    /\ asked' = asked \cup {t}
    /\ SayFor(t)
    /\ worker' = [worker EXCEPT ![t] = "asked"]
    /\ UNCHANGED <<unlooped, life, heard>>

MarkInputRequired(t) ==
    /\ worker[t] = "asked"
    /\ MoveTask(t, "input_required")
    /\ worker' = [worker EXCEPT ![t] = "waiting"]
    /\ UNCHANGED <<unlooped, asked, heard, spoken>>

WaitEnds(t) ==
    /\ worker[t] = "waiting"
    /\ t \in heard \/ t \in stopped \/ config.timeout
    /\ MoveTask(t, "working")
    /\ worker' = [worker EXCEPT ![t] = "running"]
    /\ heard' = heard \cup {t}
    /\ UNCHANGED <<unlooped, asked, spoken>>

\* finish(), and the optional status notification for a record still there.
Finish(t) ==
    /\ worker[t] = "running"
    /\ MoveTask(t, "completed")
    /\ worker' = [worker EXCEPT ![t] = "done"]
    /\ IF life[t] = "purged" THEN UNCHANGED spoken ELSE SayFor(t)
    /\ UNCHANGED <<unlooped, asked, heard>>

\* The record's time to live runs out, or a newer task takes its place.
Purge(t) ==
    /\ life[t] \notin {"absent", "purged"}
    /\ MoveTask(t, "purged")
    /\ UNCHANGED <<loopVars, worker, gate, stopped, askVars, wireVars>>

-----------------------------------------------------------------------------
Init ==
    /\ config \in Configs
    /\ mode = "idle" /\ current = NoRequest /\ target = NoTask /\ born = NoTask
    /\ deferred = <<>> /\ arrived = 0 /\ order = <<>> /\ initialized = FALSE
    /\ answers = [i \in RequestIds |-> 0]
    /\ life = [t \in Tasks |-> "absent"]
    /\ worker = [t \in Tasks |-> "none"]
    /\ gate = [t \in Tasks |-> "none"]
    /\ stopped = {} /\ asked = {} /\ heard = {} /\ responded = {} /\ withdrawn = {}
    /\ announced = {} /\ spoken = {} /\ ignored = {} /\ broken = FALSE /\ eof = FALSE

\* The requests the client may send next.
Sendable ==
    {[kind |-> k, id |-> arrived + 1, task |-> t] :
        k \in Kinds \cap {"cancel", "result"}, t \in Tasks}
    \cup {[kind |-> k, id |-> arrived + 1, task |-> NoTask] : k \in Kinds \ {"cancel", "result"}}

ClientStep ==
    \/ \E m \in Sendable :
          ReadRequest(m) \/ PumpInline(m) \/ PumpDefersRequest(m) \/ DirectDefersRequest(m)
    \/ \E t \in Tasks :
          RouteResponse(t) \/ ReadWithdrawal(t) \/ PumpDefersWithdrawal(t) \/ DirectDefersWithdrawal(t)
    \/ ReadMalformed \/ PumpMalformed \/ DirectMalformed
    \/ DirectHeard
    \/ ClientHangsUp

LoopStep ==
    \/ TakeDeferred \/ WriteReply
    \/ PumpLook \/ PumpTimesOut
    \/ DirectGivesUp
    \/ ReadCloses \/ PumpCloses

WorkerStep(t) ==
    \/ PassGate(t) \/ Speak(t) \/ AskClient(t) \/ MarkInputRequired(t) \/ WaitEnds(t) \/ Finish(t)

Next ==
    /\ \/ ClientStep
       \/ LoopStep
       \/ \E t \in Tasks : WorkerStep(t) \/ Purge(t)
       \/ SinkBreaks
    /\ UNCHANGED config

Spec == Init /\ [][Next]_vars

\* The step is taken in the end, in sessions that run with a deadline, or in
\* those that run without.
Fairly(withTimeout, step) == config.timeout = withTimeout /\ step /\ UNCHANGED config

\* The loop thread runs.  With request_timeout, its deadlines come, and so does
\* the end of a record's time to live: a worker need never finish, and the client
\* need never speak.  Without it, no record need expire where tools end and the
\* client answers what it is asked; an answer stays in the transport until read.
FairSpec ==
    /\ Spec
    /\ WF_vars(LoopStep /\ UNCHANGED config)
    /\ WF_vars(Fairly(FALSE, DirectHeard))
    /\ \A t \in Tasks :
          /\ WF_vars(Fairly(TRUE, Purge(t)))
          /\ SF_vars(Fairly(FALSE, RouteResponse(t)))
          /\ WF_vars(Fairly(FALSE, PassGate(t) \/ MarkInputRequired(t) \/ WaitEnds(t)))
          /\ WF_vars(Fairly(FALSE, Finish(t)))

-----------------------------------------------------------------------------
(* Properties *)

\* No request is answered twice, by whatever mixture of deferring, shedding and
\* answering inline.
AnsweredOnce == \A i \in RequestIds : answers[i] <= 1

\* When the loop has nothing left to do, every request that was read, by the
\* loop, by the pump or by a waiting tool, has been answered, and so has every
\* line that was no message unless a waiting tool read it - or nothing can be
\* written any more.
NoneForgotten ==
    Reading /\ ~broken => \A i \in (1 .. arrived) \ ignored : answers[i] = 1

\* Requests are neither lost nor answered twice between the loop, the pump, a
\* waiting tool and the deferred queue (Server::start, shed_or_defer).
Accounted == AnsweredOnce /\ NoneForgotten

\* The loop starts on requests in the order they arrived, though some were read
\* by the pump or by a waiting tool (those answered on the spot excepted).
ArrivalOrder == \A j, k \in 1 .. Len(order) : j < k => order[j] < order[k]

\* The client hears of a task from its CreateTaskResult before it hears from
\* the worker (TaskGate), when the answer is not held up for longer than a
\* worker waits at its gate.
AnnouncedFirst == ~config.slowReply => spoken \subseteq announced

\* What the client sees is in order: requests are begun as they arrived, and a
\* task is announced before its worker is heard (deferred queue, TaskGate).
InOrder == ArrivalOrder /\ AnnouncedFirst

\* Every request is answered in the end, unless the session ends first: also a
\* tasks/result for a worker that never finishes, or that itself waits for the
\* client while the only thread that reads is the one waiting for it.
EventuallyAnswered ==
    \A i \in RequestIds : arrived >= i ~> (answers[i] = 1 \/ i \in ignored \/ mode = "closed")

\* "Garbage on the wire is the client's problem ... JSON-RPC wants an error
\* response ... and the session carries on": a line that is no message is
\* answered whoever reads it.
GarbageAnswered == Reading /\ ~broken => \A i \in ignored : answers[i] = 1

\* A client that withdraws a request the server sent has said the answer is not
\* coming, and the worker is told: it does not stay blocked, while the server
\* goes on reading, on an answer that has been taken back.
WithdrawalHeard == mode \in {"idle", "pumpRead", "direct"} => withdrawn \subseteq heard
=============================================================================
