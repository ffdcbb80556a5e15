----------------------------- MODULE TaskStore -----------------------------
(***************************************************************************)
(* The store of long-running tasks (src/tasks.rs) and the threads that use *)
(* it: request handlers acting for a requestor, and one worker thread per  *)
(* task (Server::start_tool_task).  Every method of TaskStore holds one    *)
(* mutex from its first read to its last write, so each is one action;     *)
(* await_result gives the mutex up while it sleeps, so each turn of its    *)
(* loop is one.                                                            *)
(*                                                                         *)
(* Time is the wall clock (SystemTime): it may be set back as well as run  *)
(* on.  A worker outlives its record when the record is swept.             *)
(***************************************************************************)
EXTENDS Integers, FiniteSets

CONSTANTS
    TaskIds,        \* the ids new_task_id can draw; drawn ids never repeat
    Requestors,     \* the authorization contexts (no context is one of them)
    MaxConcurrent,  \* TaskConfig::max_concurrent
    MaxRecords,     \* TaskConfig::max_records
    DefaultTtl,     \* TaskConfig::default_ttl_ms
    MaxTtl,         \* TaskConfig::max_ttl_ms
    RequestedTtls,  \* the `task.ttl` values clients send
    NoTtl,          \* a request that names no ttl
    Blocking,       \* the requestors that reach await_result (the others pump)
    Patience,       \* ServerConfig::task_result_timeout is Some
    Horizon         \* bound: the clock stays within 0..Horizon

ASSUME StoreAssumption ==
    /\ TaskIds \subseteq Nat
    /\ IsFiniteSet(TaskIds)
    /\ MaxConcurrent \in Nat
    /\ MaxRecords \in Nat
    /\ DefaultTtl \in Nat
    /\ MaxTtl \in Nat
    /\ NoTtl \notin Nat
    /\ RequestedTtls \subseteq Nat \cup {NoTtl}
    /\ Blocking \subseteq Requestors
    /\ Patience \in BOOLEAN
    /\ Horizon \in Nat

Terminal == {"completed", "failed", "cancelled"}
Statuses == {"working", "input_required"} \cup Terminal
Outcomes == {"none", "value", "error", "cancelled"}
Notes    == {"none", "progress", "error", "cancelled"}

\* What a worker hands to finish(): a panic, a protocol error and an output
\* that breaks its schema are "error"; a result with isError is a value.
Endings == {<<"completed", "value">>, <<"failed", "value">>, <<"failed", "error">>}

TaskRecord ==
    [status : Statuses, note : Notes, outcome : Outcomes, created : Nat, ttl : Nat,
     owner : Requestors]

VARIABLES
    tasks,      \* TaskStore::inner, a map from the retained ids to records
    now,        \* SystemTime::now()
    flag,       \* flag[id]: the cancellation flag the worker and record share
    worker,     \* worker[id]: the thread running the task
    awaiting,   \* awaiting[r]: the id r's blocked await_result waits for, or Idle
    spent,      \* spent[r]: that call's patience has run out (FALSE between calls)
    ownerOf,    \* history: who each drawn id was created for
    leaks,      \* history: ids a requestor was told of that were created for another
    told,       \* history: told[id], the outcomes tasks/result ever returned
    lost,       \* history: ids whose owner was told "Task not found"
    acked       \* history: ids whose cancellation was acknowledged

vars == <<tasks, now, flag, worker, awaiting, spent, ownerOf, leaks, told, lost, acked>>

WorkerStates == {"none", "starting", "running", "finished", "gone"}
Idle == 0 - 1

TypeOK ==
    /\ DOMAIN tasks \subseteq TaskIds
    /\ \A id \in DOMAIN tasks : tasks[id] \in TaskRecord
    /\ now \in Nat
    /\ flag \in [TaskIds -> BOOLEAN]
    /\ worker \in [TaskIds -> WorkerStates]
    /\ awaiting \in [Requestors -> TaskIds \cup {Idle}]
    /\ spent \in [Requestors -> BOOLEAN]
    /\ DOMAIN ownerOf \subseteq TaskIds
    /\ \A id \in DOMAIN ownerOf : ownerOf[id] \in Requestors
    /\ leaks \subseteq TaskIds
    /\ told \in [TaskIds -> SUBSET Outcomes]
    /\ lost \subseteq TaskIds
    /\ acked \subseteq TaskIds

-----------------------------------------------------------------------------
(* Records *)

IsTerminal(status) == status \in Terminal

\* Mutation: the terminal states are not final.
CanTransitionTo_Reopens(status, next) == status # next

CanTransitionTo(status, next) ==
    \/ status = "working" /\ next # "working"
    \/ status = "input_required" /\ next # "input_required"

\* A clock that reads earlier than the creation time expires nothing.
Expired(record, t) == t >= record.created /\ t - record.created >= record.ttl

Sweep(ts, t) == [id \in {i \in DOMAIN ts : ~Expired(ts[i], t)} |-> ts[id]]

\* Mutation: belongs_to is not asked.
Visible_AnyOwner(ts, r, id) == id \in DOMAIN ts

Visible(ts, r, id) == id \in DOMAIN ts /\ ts[id].owner = r

Older(ts, i, j) ==
    \/ ts[i].created < ts[j].created
    \/ ts[i].created = ts[j].created /\ i < j

Capacity == IF MaxRecords > 1 THEN MaxRecords ELSE 1

\* Mutation: make_room takes whatever is oldest, running or not.
Evicted_Running(ts) ==
    {id \in DOMAIN ts :
        Cardinality({o \in DOMAIN ts : Older(ts, o, id)}) < Cardinality(DOMAIN ts) - (Capacity - 1)}

\* make_room: terminal records leave, oldest first, until there is room for
\* one more - or until no terminal record is left, and the store is full.
Evicted(ts) ==
    LET finished == {id \in DOMAIN ts : IsTerminal(ts[id].status)}
        surplus  == Cardinality(DOMAIN ts) - (Capacity - 1)
    IN  {id \in finished : Cardinality({o \in finished : Older(ts, o, id)}) < surplus}

MakeRoom(ts) == [id \in DOMAIN ts \ Evicted(ts) |-> ts[id]]

\* Mutation: one record too many fits.
HasRoom_OffByOne(ts) == Cardinality(DOMAIN ts) <= Capacity

HasRoom(ts) == Cardinality(DOMAIN ts) < Capacity

RunningOf(ts, r) ==
    {id \in DOMAIN ts : ~IsTerminal(ts[id].status) /\ ts[id].owner = r}

GrantedTtl(requested) ==
    LET ttl == IF requested = NoTtl THEN DefaultTtl ELSE requested
    IN  IF ttl < MaxTtl THEN ttl ELSE MaxTtl

NewRecord(r, requested) ==
    [status |-> "working", note |-> "none", outcome |-> "none", created |-> now,
     ttl |-> GrantedTtl(requested), owner |-> r]

Insert(ts, id, record) ==
    [i \in DOMAIN ts \cup {id} |-> IF i = id THEN record ELSE ts[i]]

\* The three fields that change after creation.
Moved(record, status, outcome, note) ==
    [record EXCEPT !.status = status, !.outcome = outcome, !.note = note]

-----------------------------------------------------------------------------
(* What a caller learns *)

Owns(r, id) == id \in DOMAIN ownerOf /\ ownerOf[id] = r

\* A positive answer about id, to r.
Tell(r, id) ==
    /\ leaks' = IF Owns(r, id) THEN leaks ELSE leaks \cup {id}
    /\ UNCHANGED lost

\* "Task not found", to r; for its owner that is the end of the task.
Deny(r, id) ==
    /\ lost' = IF Owns(r, id) THEN lost \cup {id} ELSE lost
    /\ UNCHANGED leaks

TellOutcome(id, outcome) == told' = [told EXCEPT ![id] = @ \cup {outcome}]

unasked == <<ownerOf, told, acked>>

-----------------------------------------------------------------------------
(* Request handlers, acting for requestor r *)

\* create() refuses: too many of r's tasks run, or the store is full of
\* running tasks.  What was swept, or evicted before giving up, stays gone.
CreateRefused(r) ==
    LET swept == Sweep(tasks, now) IN
    /\ \/ /\ Cardinality(RunningOf(swept, r)) >= MaxConcurrent
          /\ tasks' = swept
       \/ /\ Cardinality(RunningOf(swept, r)) < MaxConcurrent
          /\ ~HasRoom(MakeRoom(swept))
          /\ tasks' = MakeRoom(swept)
    /\ UNCHANGED <<now, flag, worker, awaiting, spent, leaks, lost, unasked>>

Create(r, requested, id) ==
    LET swept == Sweep(tasks, now) IN
    /\ id \notin DOMAIN ownerOf
    /\ Cardinality(RunningOf(swept, r)) < MaxConcurrent
    /\ HasRoom(MakeRoom(swept))
    /\ tasks' = Insert(MakeRoom(swept), id, NewRecord(r, requested))
    /\ ownerOf' = Insert(ownerOf, id, r)
    /\ worker' = [worker EXCEPT ![id] = "starting"]
    /\ UNCHANGED <<now, flag, awaiting, spent, leaks, lost, told, acked>>

\* Mutation: an expired record is hidden from the answer, and kept.
Get_Hides(r, id) ==
    /\ IF Visible(Sweep(tasks, now), r, id) THEN Tell(r, id) ELSE Deny(r, id)
    /\ UNCHANGED <<tasks, now, flag, worker, awaiting, spent, unasked>>

Get(r, id) ==
    LET swept == Sweep(tasks, now) IN
    /\ tasks' = swept
    /\ IF Visible(swept, r, id) THEN Tell(r, id) ELSE Deny(r, id)
    /\ UNCHANGED <<now, flag, worker, awaiting, spent, unasked>>

List(r) ==
    LET swept == Sweep(tasks, now) IN
    /\ tasks' = swept
    /\ leaks' = leaks \cup {id \in DOMAIN swept : Visible(swept, r, id) /\ ~Owns(r, id)}
    /\ UNCHANGED <<now, flag, worker, awaiting, spent, lost, unasked>>

\* is_empty() and running(): they sweep, and answer about the whole store.
Inspect ==
    /\ tasks' = Sweep(tasks, now)
    /\ UNCHANGED <<now, flag, worker, awaiting, spent, leaks, lost, unasked>>

Cancel(r, id) ==
    LET swept == Sweep(tasks, now) IN
    \/ /\ Visible(swept, r, id)
       /\ ~IsTerminal(swept[id].status)
       /\ flag' = [flag EXCEPT ![id] = TRUE]
       /\ tasks' = [swept EXCEPT ![id] = Moved(@, "cancelled", "cancelled", "cancelled")]
       /\ acked' = acked \cup {id}
       /\ Tell(r, id)
       /\ UNCHANGED <<now, worker, awaiting, spent, ownerOf, told>>
    \/ /\ Visible(swept, r, id)
       /\ IsTerminal(swept[id].status)
       /\ tasks' = swept
       /\ Tell(r, id)
       /\ UNCHANGED <<now, flag, worker, awaiting, spent, unasked>>
    \/ /\ ~Visible(swept, r, id)
       /\ tasks' = swept
       /\ Deny(r, id)
       /\ UNCHANGED <<now, flag, worker, awaiting, spent, unasked>>

\* try_result(): one look, for a caller that pumps its transport in between.
TryResult(r, id) ==
    LET swept == Sweep(tasks, now) IN
    /\ tasks' = swept
    /\ \/ /\ Visible(swept, r, id)
          /\ Tell(r, id)
          /\ IF IsTerminal(swept[id].status)
             THEN TellOutcome(id, swept[id].outcome)
             ELSE UNCHANGED told
       \/ /\ ~Visible(swept, r, id)
          /\ Deny(r, id)
          /\ UNCHANGED told
    /\ UNCHANGED <<now, flag, worker, awaiting, spent, ownerOf, acked>>

AwaitResult(r, id) ==
    /\ r \in Blocking
    /\ awaiting[r] = Idle
    /\ awaiting' = [awaiting EXCEPT ![r] = id]
    /\ UNCHANGED <<tasks, now, flag, worker, spent, leaks, lost, unasked>>

\* Mutation: the deadline is never consulted.
OutOfPatience_Never(r) == FALSE

\* await_result's deadline, read after its look at the record.
OutOfPatience(r) == spent[r]

\* One turn of await_result's loop: sweep, look, and either answer or sleep.
AwaitTurn(r) ==
    LET swept == Sweep(tasks, now)
        id    == awaiting[r]
        Answered == /\ awaiting' = [awaiting EXCEPT ![r] = Idle]
                    /\ spent' = [spent EXCEPT ![r] = FALSE]
    IN
    /\ id # Idle
    /\ tasks' = swept
    /\ \/ /\ ~Visible(swept, r, id)
          /\ Answered
          /\ Deny(r, id)
          /\ UNCHANGED told
       \/ /\ Visible(swept, r, id)
          /\ IsTerminal(swept[id].status)
          /\ Answered
          /\ Tell(r, id)
          /\ TellOutcome(id, swept[id].outcome)
       \/ /\ Visible(swept, r, id)
          /\ ~IsTerminal(swept[id].status)
          /\ OutOfPatience(r)
          /\ Answered
          /\ Tell(r, id)
          /\ UNCHANGED told
       \/ /\ Visible(swept, r, id)
          /\ ~IsTerminal(swept[id].status)
          /\ ~OutOfPatience(r)
          /\ UNCHANGED <<awaiting, spent, leaks, lost, told>>
    /\ UNCHANGED <<now, flag, worker, ownerOf, acked>>

\* The monotonic clock reaches the deadline await_result computed on entry.
PatienceRunsOut(r) ==
    /\ Patience
    /\ awaiting[r] # Idle
    /\ ~spent[r]
    /\ spent' = [spent EXCEPT ![r] = TRUE]
    /\ UNCHANGED <<tasks, now, flag, worker, awaiting, leaks, lost, unasked>>

-----------------------------------------------------------------------------
(* The worker thread of task id (Server::start_tool_task) *)

unheard == <<now, flag, awaiting, spent, leaks, lost, unasked>>

\* Mutation: a second ending wins over the first.
Finished_LastWins(ts, id, ending) ==
    IF id \in DOMAIN ts
    THEN [ts EXCEPT ![id] = Moved(@, ending[1], ending[2], @.note)] ELSE ts

\* finish(): ignored for a record that is gone or already terminal.
Finished(ts, id, ending) ==
    IF id \in DOMAIN ts /\ ~IsTerminal(ts[id].status)
    THEN [ts EXCEPT ![id] = Moved(@, ending[1], ending[2],
                                  IF ending[2] = "error" THEN "error" ELSE @.note)]
    ELSE ts

Spawn(id) ==
    /\ worker[id] = "starting"
    /\ worker' = [worker EXCEPT ![id] = "running"]
    /\ UNCHANGED <<tasks, unheard>>

\* No thread could be had: the record must not stay working for ever.
SpawnFails(id) ==
    /\ worker[id] = "starting"
    /\ worker' = [worker EXCEPT ![id] = "gone"]
    /\ tasks' = Finished(tasks, id, <<"failed", "error">>)
    /\ UNCHANGED unheard

SetStatus(id, status) ==
    /\ worker[id] = "running"
    /\ id \in DOMAIN tasks
    /\ CanTransitionTo(tasks[id].status, status)
    /\ tasks' = [tasks EXCEPT ![id] = Moved(@, status, @.outcome, @.note)]
    /\ UNCHANGED <<worker, unheard>>

SetStatusMessage(id) ==
    /\ worker[id] = "running"
    /\ id \in DOMAIN tasks
    /\ ~IsTerminal(tasks[id].status)
    /\ tasks' = [tasks EXCEPT ![id] = Moved(@, @.status, @.outcome, "progress")]
    /\ UNCHANGED <<worker, unheard>>

Finish(id, ending) ==
    /\ worker[id] = "running"
    /\ tasks' = Finished(tasks, id, ending)
    /\ worker' = [worker EXCEPT ![id] = "finished"]
    /\ UNCHANGED unheard

\* store.get() for the optional status notification, which sweeps; then the
\* thread ends.
WorkerExits(id) ==
    /\ worker[id] = "finished"
    /\ tasks' = Sweep(tasks, now)
    /\ worker' = [worker EXCEPT ![id] = "gone"]
    /\ UNCHANGED unheard

-----------------------------------------------------------------------------
ClockReads(t) ==
    /\ t # now
    /\ now' = t
    /\ UNCHANGED <<tasks, flag, worker, awaiting, spent, leaks, lost, unasked>>

Init ==
    /\ tasks = [id \in {} |-> id]
    /\ now = 0
    /\ flag = [id \in TaskIds |-> FALSE]
    /\ worker = [id \in TaskIds |-> "none"]
    /\ awaiting = [r \in Requestors |-> Idle]
    /\ spent = [r \in Requestors |-> FALSE]
    /\ ownerOf = [id \in {} |-> id]
    /\ leaks = {}
    /\ told = [id \in TaskIds |-> {}]
    /\ lost = {}
    /\ acked = {}

HandlerStep(r) ==
    \/ CreateRefused(r)
    \/ List(r)
    \/ AwaitTurn(r)
    \/ PatienceRunsOut(r)
    \/ \E id \in TaskIds :
          \/ \E requested \in RequestedTtls : Create(r, requested, id)
          \/ Get(r, id)
          \/ Cancel(r, id)
          \/ TryResult(r, id)
          \/ AwaitResult(r, id)

WorkerStep(id) ==
    \/ Spawn(id)
    \/ SpawnFails(id)
    \/ \E status \in {"working", "input_required"} : SetStatus(id, status)
    \/ SetStatusMessage(id)
    \/ \E ending \in Endings : Finish(id, ending)
    \/ WorkerExits(id)

Next ==
    \/ \E r \in Requestors : HandlerStep(r)
    \/ \E id \in TaskIds : WorkerStep(id)
    \/ Inspect
    \/ \E t \in 0..Horizon : ClockReads(t)

Spec == Init /\ [][Next]_vars

\* A thread in await_result is scheduled again after its timed sleep, and a
\* deadline comes; nothing is assumed of clients, workers or the wall clock.
Fairness == \A r \in Blocking : WF_vars(AwaitTurn(r)) /\ WF_vars(PatienceRunsOut(r))

FairSpec == Spec /\ Fairness

-----------------------------------------------------------------------------
(* Properties *)

\* The "is terminal but has no result" error of try_result and await_result is
\* unreachable: status, outcome and the note a cancellation leaves change
\* together, however worker, cancel and finish interleave.
TerminalHasOutcome ==
    \A id \in DOMAIN tasks :
        /\ IsTerminal(tasks[id].status) <=> tasks[id].outcome # "none"
        /\ tasks[id].status = "cancelled" <=> tasks[id].outcome = "cancelled"
        /\ tasks[id].status = "cancelled" => tasks[id].note = "cancelled"

\* tasks/result answers the same thing however often and by whichever path it
\* is asked, and once a cancellation has been acknowledged it never answers
\* with what the worker went on to produce; the worker can see it was cancelled.
ResultsAgree ==
    \A id \in TaskIds :
        /\ \A x, y \in told[id] : x = y
        /\ id \in acked => flag[id] /\ told[id] \subseteq {"cancelled"}

\* create's per-requestor ceiling holds of the records whatever later moves a
\* task between working and input_required.
ConcurrencyBounded ==
    \A r \in Requestors : Cardinality(RunningOf(tasks, r)) <= MaxConcurrent

\* make_room bounds the records of every status.
RecordsBounded == Cardinality(DOMAIN tasks) <= Capacity

\* No requestor is ever told anything about a task created for another
\* (belongs_to on every path: get, list, cancel, result).
Isolation == leaks = {}

\* A task whose owner was told "not found" does not come back, even when the
\* wall clock is set back before its deadline: sweep deletes, it does not hide.
PurgeIsFinal == lost \cap DOMAIN tasks = {}

\* A record leaves the store only by expiring, or as the oldest finished record
\* when that admits a new one: no running task is dropped, and a refused create
\* has cost nobody a result (make_room evicts before it knows it will succeed).
WorkIsKept ==
    \A id \in DOMAIN tasks \ DOMAIN tasks' :
        \/ Expired(tasks[id], now)
        \/ /\ IsTerminal(tasks[id].status)
           /\ DOMAIN tasks' \ DOMAIN tasks # {}
           /\ \A o \in DOMAIN tasks \cap DOMAIN tasks' :
                 IsTerminal(tasks[o].status) => Older(tasks, id, o)

\* The limit on records holds, and holding it costs no running task its record
\* and no finished one its result before its turn.
CapacityKept == [][RecordsBounded' /\ WorkIsKept]_vars

\* The store implements the task state machine of TaskLifecycle.
Phase(id) ==
    IF id \in DOMAIN tasks THEN tasks[id].status
    ELSE IF id \in DOMAIN ownerOf THEN "purged" ELSE "absent"
ResultOf(id) == IF id \in DOMAIN tasks THEN tasks[id].outcome ELSE "none"
Life == INSTANCE TaskLifecycle WITH
            phase  <- [id \in TaskIds |-> Phase(id)],
            result <- [id \in TaskIds |-> ResultOf(id)]

\* Every status a client can observe follows from the one before it by
\* can_transition_to, results are fixed with the terminal status, and a purged
\* id never returns.
ImplementsLifecycle == Life!Spec

\* A blocked await_result returns, though the worker may never finish and the
\* clock may never reach the task's deadline: its patience bounds it.
AwaitReturns ==
    \A r \in Blocking : awaiting[r] # Idle ~> awaiting[r] = Idle

\* TaskConfig::max_concurrent, "Ceiling on simultaneously running tasks, per
\* requestor", read of the work itself: the workers still executing that nobody
\* has asked to stop.
RunningTasksBounded ==
    \A r \in Requestors :
        Cardinality({id \in DOMAIN ownerOf :
            ownerOf[id] = r /\ worker[id] = "running" /\ ~flag[id]}) <= MaxConcurrent

=============================================================================
