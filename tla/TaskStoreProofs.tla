-------------------------- MODULE TaskStoreProofs --------------------------
(***************************************************************************)
(* What TLAPS proves of TaskStore, for every set of ids and requestors,    *)
(* every limit and every clock: type correctness first, then the inductive *)
(* invariant that ties each record to the history kept about it, and from  *)
(* it the properties that TLC checks on small instances.                   *)
(***************************************************************************)
EXTENDS TaskStore, FiniteSetTheorems, TLAPS

-----------------------------------------------------------------------------
(* The table operators *)

\* A sweep removes records and changes none of those it keeps.
LEMMA SweepKeeps ==
    ASSUME NEW ts, NEW t
    PROVE  /\ DOMAIN Sweep(ts, t) \subseteq DOMAIN ts
           /\ \A id \in DOMAIN Sweep(ts, t) : Sweep(ts, t)[id] = ts[id]
           /\ \A id \in DOMAIN ts : id \notin DOMAIN Sweep(ts, t) => Expired(ts[id], t)
BY DEF Sweep

\* make_room removes terminal records only and changes none it keeps.
LEMMA MakeRoomKeeps ==
    ASSUME NEW ts
    PROVE  /\ DOMAIN MakeRoom(ts) \subseteq DOMAIN ts
           /\ \A id \in DOMAIN MakeRoom(ts) : MakeRoom(ts)[id] = ts[id]
           /\ \A id \in DOMAIN ts \ DOMAIN MakeRoom(ts) : IsTerminal(ts[id].status)
BY DEF MakeRoom, Evicted

\* A status change leaves the owner, the lifetime and the age of a record alone.
LEMMA MovedFields ==
    ASSUME NEW record \in TaskRecord, NEW status \in Statuses, NEW outcome \in Outcomes,
           NEW note \in Notes
    PROVE  LET new == Moved(record, status, outcome, note) IN
           /\ new \in TaskRecord
           /\ new.status = status /\ new.outcome = outcome /\ new.note = note
           /\ new.owner = record.owner /\ new.created = record.created /\ new.ttl = record.ttl
BY DEF Moved, TaskRecord

\* What the worker's finish() may do to the table.
LEMMA FinishedKeeps ==
    ASSUME NEW ts, NEW id, NEW ending \in Endings,
           \A i \in DOMAIN ts : ts[i] \in TaskRecord
    PROVE  LET new == Finished(ts, id, ending) IN
           /\ DOMAIN new = DOMAIN ts
           /\ \A i \in DOMAIN ts : new[i] \in TaskRecord
           /\ \A i \in DOMAIN ts : i # id \/ IsTerminal(ts[i].status) => new[i] = ts[i]
           /\ id \in DOMAIN ts /\ ~IsTerminal(ts[id].status) =>
                 /\ new[id].status = ending[1]
                 /\ new[id].outcome = ending[2]
                 /\ new[id].owner = ts[id].owner
                 /\ new[id].created = ts[id].created
                 /\ new[id].ttl = ts[id].ttl
<1> DEFINE note == IF ending[2] = "error" THEN "error" ELSE ts[id].note
<1>1. ending[1] \in Statuses /\ ending[2] \in Outcomes
  BY DEF Endings, Statuses, Terminal, Outcomes
<1>2. CASE id \in DOMAIN ts /\ ~IsTerminal(ts[id].status)
  <2>1. ts[id] \in TaskRecord /\ note \in Notes
    BY <1>2 DEF TaskRecord, Notes
  <2>2. Finished(ts, id, ending) = [ts EXCEPT ![id] = Moved(ts[id], ending[1], ending[2], note)]
    BY <1>2 DEF Finished
  <2> HIDE DEF note
  <2> QED BY <1>1, <1>2, <2>1, <2>2, MovedFields
<1>3. CASE ~(id \in DOMAIN ts /\ ~IsTerminal(ts[id].status))
  BY <1>3 DEF Finished
<1> QED BY <1>2, <1>3

\* Every new record is a working one with a lifetime within the ceiling.
LEMMA NewRecordType ==
    ASSUME StoreAssumption, now \in Nat, NEW r \in Requestors, NEW requested \in RequestedTtls
    PROVE  /\ NewRecord(r, requested) \in TaskRecord
           /\ NewRecord(r, requested).ttl <= MaxTtl
BY DEF StoreAssumption, NewRecord, GrantedTtl, TaskRecord, Statuses, Outcomes, Notes

-----------------------------------------------------------------------------
(* Type correctness *)

\* An empty store is well typed.
LEMMA InitType == StoreAssumption /\ Init => TypeOK
BY DEF StoreAssumption, Init, TypeOK, Idle, WorkerStates

\* The operations a request handler calls keep the types.
LEMMA HandlerType ==
    ASSUME StoreAssumption, TypeOK, NEW r \in Requestors, HandlerStep(r)
    PROVE  TypeOK'
<1> DEFINE swept == Sweep(tasks, now)
<1>1. /\ DOMAIN swept \subseteq TaskIds
      /\ \A id \in DOMAIN swept : swept[id] \in TaskRecord
  BY SweepKeeps DEF TypeOK
<1>2. /\ DOMAIN MakeRoom(swept) \subseteq TaskIds
      /\ \A id \in DOMAIN MakeRoom(swept) : MakeRoom(swept)[id] \in TaskRecord
  BY <1>1, MakeRoomKeeps
<1>3. CASE CreateRefused(r)
  BY <1>1, <1>2, <1>3 DEF CreateRefused, TypeOK, unasked
<1>4. CASE List(r)
  BY <1>1, <1>4 DEF List, TypeOK, unasked, Visible
<1>5. CASE AwaitTurn(r)
  <2>1. awaiting' \in [Requestors -> TaskIds \cup {Idle}]
    BY <1>5 DEF AwaitTurn, TypeOK
  <2>2. leaks' \subseteq TaskIds /\ lost' \subseteq TaskIds
    <3>1. awaiting[r] \in TaskIds
      BY <1>5 DEF AwaitTurn, TypeOK
    <3> QED BY <1>5, <3>1 DEF AwaitTurn, TypeOK, Tell, Deny
  <2>3. told' \in [TaskIds -> SUBSET Outcomes]
    BY <1>1, <1>5 DEF AwaitTurn, TypeOK, TellOutcome, TaskRecord, Visible
  <2> QED BY <1>1, <1>5, <2>1, <2>2, <2>3 DEF AwaitTurn, TypeOK
<1>6. CASE PatienceRunsOut(r)
  BY <1>6 DEF PatienceRunsOut, TypeOK, unasked
<1>7. ASSUME NEW id \in TaskIds, NEW requested \in RequestedTtls, Create(r, requested, id)
      PROVE  TypeOK'
  <2>1. NewRecord(r, requested) \in TaskRecord
    BY NewRecordType DEF TypeOK
  <2>2. DOMAIN tasks' \subseteq TaskIds /\ \A i \in DOMAIN tasks' : tasks'[i] \in TaskRecord
    <3> DEFINE kept == MakeRoom(swept)
               new  == Insert(kept, id, NewRecord(r, requested))
    <3>1. /\ DOMAIN new = DOMAIN kept \cup {id}
          /\ new[id] = NewRecord(r, requested)
          /\ \A i \in DOMAIN kept \ {id} : new[i] = kept[i]
      BY DEF Insert
    <3>2. tasks' = new
      BY <1>7 DEF Create
    <3> HIDE DEF new
    <3> QED BY <1>2, <2>1, <3>1, <3>2
  <2>3. DOMAIN ownerOf' \subseteq TaskIds /\ \A i \in DOMAIN ownerOf' : ownerOf'[i] \in Requestors
    <3>1. /\ DOMAIN Insert(ownerOf, id, r) = DOMAIN ownerOf \cup {id}
          /\ Insert(ownerOf, id, r)[id] = r
          /\ \A i \in DOMAIN ownerOf \ {id} : Insert(ownerOf, id, r)[i] = ownerOf[i]
      BY DEF Insert
    <3> QED BY <1>7, <3>1 DEF Create, TypeOK
  <2> QED BY <1>7, <2>2, <2>3 DEF Create, TypeOK, WorkerStates
<1>8. ASSUME NEW id \in TaskIds, Get(r, id)
      PROVE  TypeOK'
  BY <1>1, <1>8 DEF Get, TypeOK, unasked, Tell, Deny
<1>9. ASSUME NEW id \in TaskIds, Cancel(r, id)
      PROVE  TypeOK'
  <2>1. DOMAIN tasks' \subseteq TaskIds /\ \A i \in DOMAIN tasks' : tasks'[i] \in TaskRecord
    BY <1>1, <1>9, MovedFields DEF Cancel, Visible, Statuses, Terminal, Outcomes, Notes
  <2> QED BY <1>9, <2>1 DEF Cancel, TypeOK, unasked, Tell, Deny
<1>10. ASSUME NEW id \in TaskIds, TryResult(r, id)
       PROVE  TypeOK'
  <2>1. told' \in [TaskIds -> SUBSET Outcomes]
    BY <1>1, <1>10 DEF TryResult, TypeOK, TellOutcome, TaskRecord, Visible
  <2> QED BY <1>1, <1>10, <2>1 DEF TryResult, TypeOK, Tell, Deny
<1>11. ASSUME NEW id \in TaskIds, AwaitResult(r, id)
       PROVE  TypeOK'
  BY <1>11 DEF AwaitResult, TypeOK, unasked
<1> QED
  BY <1>3, <1>4, <1>5, <1>6, <1>7, <1>8, <1>9, <1>10, <1>11 DEF HandlerStep

\* The steps of a task's worker thread keep the types.
LEMMA WorkerType ==
    ASSUME StoreAssumption, TypeOK, NEW id \in TaskIds, WorkerStep(id)
    PROVE  TypeOK'
<1>1. CASE Spawn(id)
  BY <1>1 DEF Spawn, TypeOK, unheard, unasked, WorkerStates
<1>2. CASE SpawnFails(id)
  <2>1. <<"failed", "error">> \in Endings
    BY DEF Endings
  <2> QED BY <1>2, <2>1, FinishedKeeps DEF SpawnFails, TypeOK, unheard, unasked, WorkerStates
<1>3. ASSUME NEW status \in {"working", "input_required"}, SetStatus(id, status)
      PROVE  TypeOK'
  <2>1. tasks[id] \in TaskRecord /\ tasks[id].outcome \in Outcomes /\ tasks[id].note \in Notes
    BY <1>3 DEF SetStatus, TypeOK, TaskRecord
  <2>2. Moved(tasks[id], status, tasks[id].outcome, tasks[id].note) \in TaskRecord
    BY <2>1, MovedFields DEF Statuses
  <2> QED BY <1>3, <2>2 DEF SetStatus, TypeOK, unheard, unasked
<1>4. CASE SetStatusMessage(id)
  <2>1. tasks[id] \in TaskRecord /\ tasks[id].outcome \in Outcomes /\ tasks[id].status \in Statuses
    BY <1>4 DEF SetStatusMessage, TypeOK, TaskRecord
  <2>2. Moved(tasks[id], tasks[id].status, tasks[id].outcome, "progress") \in TaskRecord
    BY <2>1, MovedFields DEF Notes
  <2> QED BY <1>4, <2>2 DEF SetStatusMessage, TypeOK, unheard, unasked
<1>5. ASSUME NEW ending \in Endings, Finish(id, ending)
      PROVE  TypeOK'
  BY <1>5, FinishedKeeps DEF Finish, TypeOK, unheard, unasked, WorkerStates
<1>6. CASE WorkerExits(id)
  BY <1>6, SweepKeeps DEF WorkerExits, TypeOK, unheard, unasked, WorkerStates
<1> QED
  BY <1>1, <1>2, <1>3, <1>4, <1>5, <1>6 DEF WorkerStep

\* Every step keeps the types.
LEMMA NextType == StoreAssumption /\ TypeOK /\ [Next]_vars => TypeOK'
<1> SUFFICES ASSUME StoreAssumption, TypeOK, [Next]_vars PROVE TypeOK'
  OBVIOUS
<1>1. CASE Inspect
  BY <1>1, SweepKeeps DEF Inspect, TypeOK, unasked
<1>2. ASSUME NEW t \in 0..Horizon, ClockReads(t) PROVE TypeOK'
  BY <1>2 DEF ClockReads, TypeOK, unasked, StoreAssumption
<1>3. CASE UNCHANGED vars
  BY <1>3 DEF vars, TypeOK
<1> QED
  BY <1>1, <1>2, <1>3, HandlerType, WorkerType DEF Next

\* Every reachable state is well typed, whatever the limits and the clock do.
THEOREM TypeCorrect == Spec => []TypeOK
BY StoreAssumption, InitType, NextType, PTL DEF Spec

-----------------------------------------------------------------------------
(***************************************************************************)
(* The inductive invariant.  ResultsAgree, Isolation and PurgeIsFinal are  *)
(* not inductive alone: they need to know that a retained record still     *)
(* holds the outcome clients were told, is owned by the requestor it was   *)
(* created for, and stayed cancelled once a cancellation was acknowledged. *)
(***************************************************************************)
Consistent(ts) ==
    \A id \in DOMAIN ts :
        /\ IsTerminal(ts[id].status) <=> ts[id].outcome # "none"
        /\ ts[id].status = "cancelled" <=> ts[id].outcome = "cancelled"
        /\ ts[id].status = "cancelled" => ts[id].note = "cancelled"
        /\ Owns(ts[id].owner, id)
        /\ told[id] # {} => told[id] = {ts[id].outcome} /\ ts[id].outcome # "none"
        /\ id \in acked => ts[id].status = "cancelled"

\* Nothing is remembered about an id that was never drawn.
HistoryOfDrawn ==
    \A id \in TaskIds :
        told[id] # {} \/ id \in lost \/ id \in acked => id \in DOMAIN ownerOf

IInv == Consistent(tasks) /\ HistoryOfDrawn /\ ResultsAgree /\ Isolation /\ PurgeIsFinal

\* The inductive invariant holds of an empty store.
LEMMA InitInv == StoreAssumption /\ Init => IInv
BY DEF Init, IInv, Consistent, HistoryOfDrawn, ResultsAgree, Isolation, PurgeIsFinal

\* A sweep leaves a table the invariant still holds of.
LEMMA SweptInv ==
    ASSUME IInv
    PROVE  Consistent(Sweep(tasks, now)) /\ lost \cap DOMAIN Sweep(tasks, now) = {}
BY SweepKeeps DEF IInv, Consistent, PurgeIsFinal

\* A step that answers nobody and at most sweeps the table keeps the invariant.
LEMMA QuietInv ==
    ASSUME IInv, tasks' = Sweep(tasks, now) \/ tasks' = tasks,
           UNCHANGED <<flag, ownerOf, told, acked, leaks, lost>>
    PROVE  IInv'
<1>1. Consistent(tasks')
  BY SweptInv DEF IInv
<1>2. PurgeIsFinal'
  BY SweptInv DEF IInv, PurgeIsFinal
<1> QED
  BY <1>1, <1>2 DEF IInv, Consistent, Owns, HistoryOfDrawn, ResultsAgree, Isolation

\* Answering r about a task it can see leaks nothing, and denying it one it
\* cannot see is the truth for good.
LEMMA AnswerInv ==
    ASSUME TypeOK, IInv, NEW r \in Requestors, NEW id \in TaskIds,
           tasks' = Sweep(tasks, now), UNCHANGED <<flag, ownerOf, told, acked>>,
           \/ Visible(Sweep(tasks, now), r, id) /\ Tell(r, id)
           \/ ~Visible(Sweep(tasks, now), r, id) /\ Deny(r, id)
    PROVE  IInv'
<1> DEFINE swept == Sweep(tasks, now)
<1>1. Consistent(swept) /\ lost \cap DOMAIN swept = {}
  BY SweptInv
<1>2. Consistent(tasks)'
  BY <1>1 DEF Consistent, Owns
<1>3. Isolation' /\ HistoryOfDrawn' /\ PurgeIsFinal'
  BY <1>1 DEF Tell, Deny, Visible, Owns, Consistent, IInv, Isolation, HistoryOfDrawn, PurgeIsFinal
<1>4. ResultsAgree'
  BY DEF IInv, ResultsAgree
<1> QED BY <1>2, <1>3, <1>4 DEF IInv

\* Handing out the outcome of a terminal record.
LEMMA OutcomeInv ==
    ASSUME TypeOK, IInv, NEW r \in Requestors, NEW id \in TaskIds,
           tasks' = Sweep(tasks, now), UNCHANGED <<flag, ownerOf, acked>>,
           Visible(Sweep(tasks, now), r, id), Tell(r, id),
           IsTerminal(Sweep(tasks, now)[id].status),
           TellOutcome(id, Sweep(tasks, now)[id].outcome)
    PROVE  IInv'
<1> DEFINE swept == Sweep(tasks, now)
<1>1. Consistent(swept) /\ lost \cap DOMAIN swept = {}
  BY SweptInv
<1>2. /\ id \in DOMAIN swept /\ swept[id].outcome # "none" /\ Owns(r, id)
      /\ told[id] # {} => told[id] = {swept[id].outcome}
      /\ id \in acked => swept[id].outcome = "cancelled"
  BY <1>1 DEF Visible, Consistent
<1>3. /\ told'[id] = {swept[id].outcome}
      /\ \A i \in TaskIds \ {id} : told'[i] = told[i]
  BY <1>2 DEF TellOutcome, TypeOK
<1>4. DOMAIN swept \subseteq TaskIds
  BY SweepKeeps DEF TypeOK
<1>5. Consistent(tasks)'
  <2> SUFFICES ASSUME NEW i \in DOMAIN swept
               PROVE  /\ IsTerminal(swept[i].status) <=> swept[i].outcome # "none"
                      /\ swept[i].status = "cancelled" <=> swept[i].outcome = "cancelled"
                      /\ swept[i].status = "cancelled" => swept[i].note = "cancelled"
                      /\ Owns(swept[i].owner, i)
                      /\ told'[i] # {} => told'[i] = {swept[i].outcome} /\ swept[i].outcome # "none"
                      /\ i \in acked => swept[i].status = "cancelled"
    BY DEF Consistent, Owns
  <2> QED BY <1>1, <1>2, <1>3, <1>4 DEF Consistent
<1>6. Isolation' /\ HistoryOfDrawn' /\ PurgeIsFinal'
  BY <1>1, <1>2, <1>3 DEF Tell, Owns, IInv, Isolation, HistoryOfDrawn, PurgeIsFinal
<1>7. ResultsAgree'
  BY <1>2, <1>3 DEF IInv, ResultsAgree
<1> QED BY <1>5, <1>6, <1>7 DEF IInv

\* The operations a request handler calls keep the invariant.
LEMMA HandlerInv ==
    ASSUME StoreAssumption, TypeOK, IInv, NEW r \in Requestors, HandlerStep(r)
    PROVE  IInv'
<1> DEFINE swept == Sweep(tasks, now)
<1>1. Consistent(swept) /\ lost \cap DOMAIN swept = {}
  BY SweptInv
<1>2. /\ DOMAIN MakeRoom(swept) \subseteq DOMAIN swept
      /\ \A i \in DOMAIN MakeRoom(swept) : MakeRoom(swept)[i] = swept[i]
  BY MakeRoomKeeps
<1>3. CASE CreateRefused(r)
  <2>1. Consistent(tasks)'
    BY <1>1, <1>2, <1>3 DEF CreateRefused, Consistent, Owns, unasked
  <2> QED
    BY <1>1, <1>2, <1>3, <2>1 DEF CreateRefused, IInv, HistoryOfDrawn, ResultsAgree, Isolation,
                                  PurgeIsFinal, unasked
<1>4. CASE List(r)
  <2>1. leaks' = leaks
    BY <1>1, <1>4 DEF List, Consistent, Visible
  <2> QED BY <1>4, <2>1, QuietInv DEF List, unasked
<1>5. CASE AwaitTurn(r)
  <2>1. awaiting[r] \in TaskIds
    BY <1>5 DEF AwaitTurn, TypeOK
  <2>2. CASE ~Visible(swept, r, awaiting[r])
    BY <1>5, <2>1, <2>2, AnswerInv DEF AwaitTurn
  <2>3. CASE Visible(swept, r, awaiting[r]) /\ IsTerminal(swept[awaiting[r]].status)
    BY <1>5, <2>1, <2>3, OutcomeInv DEF AwaitTurn
  <2>4. CASE Visible(swept, r, awaiting[r]) /\ ~IsTerminal(swept[awaiting[r]].status)
    BY <1>5, <2>1, <2>4, AnswerInv, QuietInv DEF AwaitTurn
  <2> QED BY <2>2, <2>3, <2>4
<1>6. CASE PatienceRunsOut(r)
  BY <1>6, QuietInv DEF PatienceRunsOut, unasked
<1>7. ASSUME NEW id \in TaskIds, NEW requested \in RequestedTtls, Create(r, requested, id)
      PROVE  IInv'
  <2> DEFINE kept == MakeRoom(swept)
             record == NewRecord(r, requested)
  <2>1. /\ id \notin DOMAIN ownerOf
        /\ tasks' = Insert(kept, id, record)
        /\ ownerOf' = Insert(ownerOf, id, r)
        /\ UNCHANGED <<flag, leaks, lost, told, acked>>
    BY <1>7 DEF Create
  <2>2. told[id] = {} /\ id \notin lost /\ id \notin acked
    BY <2>1 DEF IInv, HistoryOfDrawn
  <2>3. /\ record.status = "working" /\ record.outcome = "none" /\ record.owner = r
    BY DEF NewRecord
  <2>4. id \notin DOMAIN kept
    BY <1>1, <1>2, <2>1 DEF Consistent, Owns
  <2>5. /\ DOMAIN tasks' = DOMAIN kept \cup {id} /\ tasks'[id] = record
        /\ \A i \in DOMAIN kept : tasks'[i] = swept[i] /\ i \in DOMAIN swept
    BY <1>2, <2>1, <2>4 DEF Insert
  <2>6. /\ DOMAIN ownerOf' = DOMAIN ownerOf \cup {id} /\ ownerOf'[id] = r
        /\ \A i \in DOMAIN ownerOf : ownerOf'[i] = ownerOf[i]
    BY <2>1 DEF Insert
  <2> HIDE DEF kept, record, swept
  <2>7. Consistent(tasks)'
    <3> SUFFICES ASSUME NEW i \in DOMAIN tasks'
                 PROVE  /\ IsTerminal(tasks'[i].status) <=> tasks'[i].outcome # "none"
                        /\ tasks'[i].status = "cancelled" <=> tasks'[i].outcome = "cancelled"
                        /\ tasks'[i].status = "cancelled" => tasks'[i].note = "cancelled"
                        /\ i \in DOMAIN ownerOf' /\ ownerOf'[i] = tasks'[i].owner
                        /\ told'[i] # {} => told'[i] = {tasks'[i].outcome} /\ tasks'[i].outcome # "none"
                        /\ i \in acked' => tasks'[i].status = "cancelled"
      BY DEF Consistent, Owns
    <3>1. CASE i = id
      BY <2>1, <2>2, <2>3, <2>5, <2>6, <3>1 DEF IsTerminal, Terminal
    <3>2. CASE i # id
      BY <1>1, <2>1, <2>5, <2>6, <3>2 DEF Consistent, Owns
    <3> QED BY <3>1, <3>2
  <2>8. HistoryOfDrawn' /\ ResultsAgree' /\ Isolation'
    BY <2>1, <2>6 DEF IInv, HistoryOfDrawn, ResultsAgree, Isolation
  <2>9. PurgeIsFinal'
    BY <1>1, <2>1, <2>2, <2>5 DEF PurgeIsFinal
  <2> QED BY <2>7, <2>8, <2>9 DEF IInv
<1>8. ASSUME NEW id \in TaskIds, Get(r, id)
      PROVE  IInv'
  BY <1>8, AnswerInv DEF Get, unasked
<1>9. ASSUME NEW id \in TaskIds, Cancel(r, id)
      PROVE  IInv'
  <2>1. CASE ~(Visible(swept, r, id) /\ ~IsTerminal(swept[id].status))
    BY <1>9, <2>1, AnswerInv DEF Cancel, unasked
  <2>2. CASE Visible(swept, r, id) /\ ~IsTerminal(swept[id].status)
    <3> DEFINE moved == Moved(swept[id], "cancelled", "cancelled", "cancelled")
    <3>1. /\ flag' = [flag EXCEPT ![id] = TRUE]
          /\ tasks' = [swept EXCEPT ![id] = moved]
          /\ acked' = acked \cup {id}
          /\ Tell(r, id)
          /\ UNCHANGED <<ownerOf, told>>
      BY <1>9, <2>2 DEF Cancel
    <3>2. id \in DOMAIN swept /\ swept[id] \in TaskRecord /\ Owns(r, id) /\ told[id] = {}
      BY <1>1, <2>2, SweepKeeps DEF Visible, Consistent, TypeOK
    <3>3. /\ moved.status = "cancelled" /\ moved.outcome = "cancelled" /\ moved.note = "cancelled"
          /\ moved.owner = swept[id].owner
      BY <3>2, MovedFields DEF Statuses, Terminal, Outcomes, Notes
    <3> HIDE DEF moved, swept
    <3>4. Consistent(tasks)'
      BY <1>1, <3>1, <3>2, <3>3 DEF Consistent, Owns, IsTerminal, Terminal
    <3>5. HistoryOfDrawn' /\ Isolation' /\ PurgeIsFinal'
      BY <1>1, <3>1, <3>2 DEF IInv, HistoryOfDrawn, Isolation, PurgeIsFinal, Tell, Owns
    <3>6. ResultsAgree'
      BY <3>1, <3>2 DEF IInv, ResultsAgree, TypeOK
    <3> QED BY <3>4, <3>5, <3>6 DEF IInv
  <2> QED BY <2>1, <2>2
<1>10. ASSUME NEW id \in TaskIds, TryResult(r, id)
       PROVE  IInv'
  <2>1. CASE Visible(swept, r, id) /\ IsTerminal(swept[id].status)
    BY <1>10, <2>1, OutcomeInv DEF TryResult
  <2>2. CASE ~(Visible(swept, r, id) /\ IsTerminal(swept[id].status))
    BY <1>10, <2>2, AnswerInv DEF TryResult
  <2> QED BY <2>1, <2>2
<1>11. ASSUME NEW id \in TaskIds, AwaitResult(r, id)
       PROVE  IInv'
  BY <1>11, QuietInv DEF AwaitResult, unasked
<1> QED
  BY <1>3, <1>4, <1>5, <1>6, <1>7, <1>8, <1>9, <1>10, <1>11 DEF HandlerStep

\* A worker only ever touches its own record, and only while it is running.
LEMMA RecordMoveInv ==
    ASSUME TypeOK, IInv, NEW id \in DOMAIN tasks, ~IsTerminal(tasks[id].status),
           NEW status \in Statuses, NEW outcome \in Outcomes, NEW note \in Notes,
           IsTerminal(status) <=> outcome # "none",
           status # "cancelled", outcome # "cancelled",
           tasks' = [tasks EXCEPT ![id] = Moved(tasks[id], status, outcome, note)],
           UNCHANGED <<flag, ownerOf, told, acked, leaks, lost>>
    PROVE  IInv'
<1> DEFINE moved == Moved(tasks[id], status, outcome, note)
<1>1. tasks[id] \in TaskRecord
  BY DEF TypeOK
<1>2. /\ moved.status = status /\ moved.outcome = outcome /\ moved.note = note
      /\ moved.owner = tasks[id].owner
  BY <1>1, MovedFields
<1> HIDE DEF moved
<1>3. id \notin acked /\ told[id] = {}
  BY DEF IInv, Consistent, IsTerminal, Terminal
<1>4. Consistent(tasks)'
  <2> SUFFICES ASSUME NEW i \in DOMAIN tasks'
               PROVE  /\ IsTerminal(tasks'[i].status) <=> tasks'[i].outcome # "none"
                      /\ tasks'[i].status = "cancelled" <=> tasks'[i].outcome = "cancelled"
                      /\ tasks'[i].status = "cancelled" => tasks'[i].note = "cancelled"
                      /\ Owns(tasks'[i].owner, i)
                      /\ told[i] # {} => told[i] = {tasks'[i].outcome} /\ tasks'[i].outcome # "none"
                      /\ i \in acked => tasks'[i].status = "cancelled"
    BY DEF Consistent, Owns
  <2>1. DOMAIN tasks' = DOMAIN tasks /\ Consistent(tasks)
    BY DEF IInv
  <2>2. CASE i = id
    <3>1. tasks'[i] = moved
      BY <2>2 DEF moved
    <3>2. Owns(tasks[id].owner, id)
      BY <2>1 DEF Consistent
    <3> QED BY <1>2, <1>3, <2>2, <3>1, <3>2
  <2>3. CASE i # id
    <3>1. tasks'[i] = tasks[i] /\ i \in DOMAIN tasks
      BY <2>1, <2>3
    <3> QED BY <2>1, <3>1 DEF Consistent
  <2> QED BY <2>2, <2>3
<1>5. HistoryOfDrawn' /\ Isolation' /\ PurgeIsFinal' /\ ResultsAgree'
  BY DEF IInv, HistoryOfDrawn, Isolation, PurgeIsFinal, ResultsAgree
<1> QED BY <1>4, <1>5 DEF IInv

\* The steps of a task's worker thread keep the invariant.
LEMMA WorkerInv ==
    ASSUME StoreAssumption, TypeOK, IInv, NEW id \in TaskIds, WorkerStep(id)
    PROVE  IInv'
<1>1. CASE Spawn(id)
  BY <1>1, QuietInv DEF Spawn, unheard, unasked
<1>2. ASSUME NEW ending \in Endings, tasks' = Finished(tasks, id, ending),
             UNCHANGED <<flag, ownerOf, told, acked, leaks, lost>>
      PROVE  IInv'
  <2>1. CASE id \in DOMAIN tasks /\ ~IsTerminal(tasks[id].status)
    <3> DEFINE note == IF ending[2] = "error" THEN "error" ELSE tasks[id].note
    <3>1. tasks' = [tasks EXCEPT ![id] = Moved(tasks[id], ending[1], ending[2], note)]
      BY <1>2, <2>1 DEF Finished
    <3>2. /\ ending[1] \in Statuses /\ ending[2] \in Outcomes
          /\ IsTerminal(ending[1]) <=> ending[2] # "none"
          /\ ending[1] # "cancelled" /\ ending[2] # "cancelled"
      BY DEF Endings, Statuses, Terminal, Outcomes, IsTerminal
    <3>3. tasks[id] \in TaskRecord
      BY <2>1 DEF TypeOK
    <3>4. note \in Notes
      BY <3>3 DEF TaskRecord, Notes
    <3>5. PICK s \in Statuses, o \in Outcomes, n \in Notes :
                  s = ending[1] /\ o = ending[2] /\ n = note
      BY <3>2, <3>4
    <3>6. tasks' = [tasks EXCEPT ![id] = Moved(tasks[id], s, o, n)]
      BY <3>1, <3>5
    <3>7. /\ IsTerminal(s) <=> o # "none"
          /\ s # "cancelled" /\ o # "cancelled"
      BY <3>2, <3>5
    <3>8. UNCHANGED <<flag, ownerOf, told, acked, leaks, lost>>
      BY <1>2
    <3> HIDE DEF note
    <3> QED BY <2>1, <3>6, <3>7, <3>8, RecordMoveInv
  <2>2. CASE ~(id \in DOMAIN tasks /\ ~IsTerminal(tasks[id].status))
    BY <1>2, <2>2, QuietInv DEF Finished
  <2> QED BY <2>1, <2>2
<1>3. CASE SpawnFails(id)
  <2>1. <<"failed", "error">> \in Endings
    BY DEF Endings
  <2> QED BY <1>2, <1>3, <2>1 DEF SpawnFails, unheard, unasked
<1>4. ASSUME NEW status \in {"working", "input_required"}, SetStatus(id, status)
      PROVE  IInv'
  <2>1. /\ tasks[id].outcome \in Outcomes /\ tasks[id].note \in Notes /\ id \in DOMAIN tasks
    BY <1>4 DEF SetStatus, TypeOK, TaskRecord
  <2>2. ~IsTerminal(tasks[id].status)
    BY <1>4 DEF SetStatus, CanTransitionTo, IsTerminal, Terminal
  <2>3. tasks[id].outcome = "none"
    BY <2>1, <2>2 DEF IInv, Consistent
  <2>4. status \in Statuses /\ ~IsTerminal(status) /\ status # "cancelled"
    BY DEF Statuses, IsTerminal, Terminal
  <2> QED BY <1>4, <2>1, <2>2, <2>3, <2>4, RecordMoveInv DEF SetStatus, unheard, unasked
<1>5. CASE SetStatusMessage(id)
  <2>1. /\ tasks[id].outcome \in Outcomes /\ tasks[id].status \in Statuses /\ id \in DOMAIN tasks
        /\ ~IsTerminal(tasks[id].status)
    BY <1>5 DEF SetStatusMessage, TypeOK, TaskRecord
  <2>2. tasks[id].outcome = "none" /\ tasks[id].status # "cancelled"
    BY <2>1 DEF IInv, Consistent, IsTerminal, Terminal
  <2>3. "progress" \in Notes
    BY DEF Notes
  <2> QED BY <1>5, <2>1, <2>2, <2>3, RecordMoveInv DEF SetStatusMessage, unheard, unasked
<1>6. ASSUME NEW ending \in Endings, Finish(id, ending)
      PROVE  IInv'
  BY <1>2, <1>6 DEF Finish, unheard, unasked
<1>7. CASE WorkerExits(id)
  BY <1>7, QuietInv DEF WorkerExits, unheard, unasked
<1> QED
  BY <1>1, <1>3, <1>4, <1>5, <1>6, <1>7 DEF WorkerStep

\* The invariant is inductive.
LEMMA NextInv == StoreAssumption /\ TypeOK /\ IInv /\ [Next]_vars => IInv'
<1> SUFFICES ASSUME StoreAssumption, TypeOK, IInv, [Next]_vars PROVE IInv'
  OBVIOUS
<1>1. CASE Inspect
  BY <1>1, QuietInv DEF Inspect, unasked
<1>2. ASSUME NEW t \in 0..Horizon, ClockReads(t) PROVE IInv'
  BY <1>2, QuietInv DEF ClockReads, unasked
<1>3. CASE UNCHANGED vars
  BY <1>3, QuietInv DEF vars
<1> QED
  BY <1>1, <1>2, <1>3, HandlerInv, WorkerInv DEF Next

\* What the four theorems below rest on holds in every reachable state.
THEOREM InvariantHolds == Spec => []IInv
BY StoreAssumption, InitInv, NextInv, TypeCorrect, PTL DEF Spec

\* A terminal record always has its outcome, so try_result and await_result
\* never report a terminal task without one.
THEOREM OutcomesPresent == Spec => []TerminalHasOutcome
<1>1. IInv => TerminalHasOutcome
  BY DEF IInv, Consistent, TerminalHasOutcome
<1> QED BY <1>1, InvariantHolds, PTL

\* However cancel, finish, expiry and the two ways of fetching a result race,
\* a client is never given two different outcomes of one task, nor a worker's
\* outcome after its cancellation was acknowledged.
THEOREM OneResult == Spec => []ResultsAgree
<1>1. IInv => ResultsAgree
  BY DEF IInv
<1> QED BY <1>1, InvariantHolds, PTL

\* No operation tells a requestor of a task created for another.
THEOREM TasksIsolated == Spec => []Isolation
<1>1. IInv => Isolation
  BY DEF IInv
<1> QED BY <1>1, InvariantHolds, PTL

\* A task reported missing to its owner never reappears, whatever the clock does.
THEOREM PurgedForGood == Spec => []PurgeIsFinal
<1>1. IInv => PurgeIsFinal
  BY DEF IInv
<1> QED BY <1>1, InvariantHolds, PTL

-----------------------------------------------------------------------------
(***************************************************************************)
(* The limits.  RecordsBounded and ConcurrencyBounded are inductive, once  *)
(* every step is seen as one of four things done to the table.             *)
(***************************************************************************)

\* The table is left alone, or swept.
Tidied == tasks' = tasks \/ tasks' = Sweep(tasks, now)

\* One record that was not terminal moves, in the table or the swept table.
RecordMoves(ts, id) ==
    /\ id \in DOMAIN ts
    /\ ~IsTerminal(ts[id].status)
    /\ DOMAIN tasks' = DOMAIN ts
    /\ \A i \in DOMAIN ts \ {id} : tasks'[i] = ts[i]
    /\ tasks'[id].owner = ts[id].owner
    /\ \/ CanTransitionTo(ts[id].status, tasks'[id].status)
       \/ tasks'[id].status = ts[id].status /\ tasks'[id].outcome = ts[id].outcome

\* finish() leaves the table alone or moves one record.
LEMMA FinishedMoves ==
    ASSUME TypeOK, NEW id \in TaskIds, NEW ending \in Endings,
           tasks' = Finished(tasks, id, ending)
    PROVE  tasks' = tasks \/ RecordMoves(tasks, id)
<1>1. CASE id \in DOMAIN tasks /\ ~IsTerminal(tasks[id].status)
  <2>1. ending[1] \in Terminal
    BY DEF Endings, Terminal
  <2>2. CanTransitionTo(tasks[id].status, ending[1])
    <3>1. tasks[id].status \in Statuses
      BY <1>1 DEF TypeOK, TaskRecord
    <3> QED BY <1>1, <2>1, <3>1 DEF CanTransitionTo, IsTerminal, Statuses, Terminal
  <2>3. \A i \in DOMAIN tasks : tasks[i] \in TaskRecord
    BY DEF TypeOK
  <2> QED BY <1>1, <2>2, <2>3, FinishedKeeps DEF RecordMoves
<1>2. CASE ~(id \in DOMAIN tasks /\ ~IsTerminal(tasks[id].status))
  BY <1>2 DEF Finished
<1> QED BY <1>1, <1>2

\* Every step tidies the table, moves one record, or is an attempt to create.
LEMMA StepShape ==
    ASSUME TypeOK, [Next]_vars
    PROVE  \/ /\ UNCHANGED ownerOf
              /\ \/ Tidied
                 \/ \E id \in TaskIds : RecordMoves(tasks, id)
                 \/ \E id \in TaskIds : RecordMoves(Sweep(tasks, now), id)
           \/ \E r \in Requestors : CreateRefused(r)
           \/ \E r \in Requestors, id \in TaskIds, requested \in RequestedTtls :
                 Create(r, requested, id)
<1> DEFINE swept == Sweep(tasks, now)
           Goal  == /\ UNCHANGED ownerOf
                    /\ \/ Tidied
                       \/ \E id \in TaskIds : RecordMoves(tasks, id)
                       \/ \E id \in TaskIds : RecordMoves(swept, id)
<1>1. ASSUME NEW r \in Requestors, HandlerStep(r),
             ~CreateRefused(r),
             ~\E id \in TaskIds, requested \in RequestedTtls : Create(r, requested, id)
      PROVE  Goal
  <2>1. CASE List(r) \/ AwaitTurn(r) \/ PatienceRunsOut(r)
    BY <2>1 DEF List, AwaitTurn, PatienceRunsOut, Tidied, unasked
  <2>2. ASSUME NEW id \in TaskIds, Get(r, id) \/ TryResult(r, id) \/ AwaitResult(r, id)
        PROVE  Goal
    BY <2>2 DEF Get, TryResult, AwaitResult, Tidied, unasked
  <2>3. ASSUME NEW id \in TaskIds, Cancel(r, id)
        PROVE  Goal
    <3>1. CASE ~(Visible(swept, r, id) /\ ~IsTerminal(swept[id].status))
      BY <2>3, <3>1 DEF Cancel, Tidied, unasked
    <3>2. CASE Visible(swept, r, id) /\ ~IsTerminal(swept[id].status)
      <4> DEFINE moved == Moved(swept[id], "cancelled", "cancelled", "cancelled")
      <4>1. tasks' = [swept EXCEPT ![id] = moved] /\ UNCHANGED ownerOf
        BY <2>3, <3>2 DEF Cancel
      <4>2. id \in DOMAIN swept /\ swept[id] \in TaskRecord
        BY <3>2, SweepKeeps DEF Visible, TypeOK
      <4>3. moved.status = "cancelled" /\ moved.owner = swept[id].owner
        BY <4>2, MovedFields DEF Statuses, Terminal, Outcomes, Notes
      <4>4. CanTransitionTo(swept[id].status, "cancelled")
        BY <3>2, <4>2 DEF CanTransitionTo, IsTerminal, Terminal, TaskRecord, Statuses
      <4> HIDE DEF moved, swept
      <4>5. RecordMoves(swept, id)
        BY <3>2, <4>1, <4>2, <4>3, <4>4 DEF RecordMoves
      <4> QED BY <4>1, <4>5
    <3> QED BY <3>1, <3>2
  <2> QED BY <1>1, <2>1, <2>2, <2>3 DEF HandlerStep
<1>2. ASSUME NEW id \in TaskIds, WorkerStep(id)
      PROVE  Goal
  <2>1. CASE Spawn(id) \/ WorkerExits(id)
    BY <2>1 DEF Spawn, WorkerExits, Tidied, unheard, unasked
  <2>2. CASE SpawnFails(id) \/ \E ending \in Endings : Finish(id, ending)
    <3>1. UNCHANGED ownerOf /\ \E ending \in Endings : tasks' = Finished(tasks, id, ending)
      BY <2>2 DEF SpawnFails, Finish, unheard, unasked, Endings
    <3> QED BY <3>1, FinishedMoves DEF Tidied
  <2>3. ASSUME NEW status \in {"working", "input_required"}, SetStatus(id, status)
        PROVE  Goal
    <3> DEFINE moved == Moved(tasks[id], status, tasks[id].outcome, tasks[id].note)
    <3>1. /\ tasks[id] \in TaskRecord /\ id \in DOMAIN tasks
          /\ tasks[id].outcome \in Outcomes /\ tasks[id].note \in Notes
      BY <2>3 DEF SetStatus, TypeOK, TaskRecord
    <3>2. moved.status = status /\ moved.owner = tasks[id].owner
      BY <3>1, MovedFields DEF Statuses
    <3>3. /\ tasks' = [tasks EXCEPT ![id] = moved] /\ UNCHANGED ownerOf
          /\ CanTransitionTo(tasks[id].status, status)
      BY <2>3 DEF SetStatus, unheard, unasked
    <3>4. ~IsTerminal(tasks[id].status)
      BY <3>3 DEF CanTransitionTo, IsTerminal, Terminal
    <3> HIDE DEF moved
    <3>5. RecordMoves(tasks, id)
      BY <3>1, <3>2, <3>3, <3>4 DEF RecordMoves
    <3> QED BY <3>3, <3>5
  <2>4. CASE SetStatusMessage(id)
    <3> DEFINE moved == Moved(tasks[id], tasks[id].status, tasks[id].outcome, "progress")
    <3>1. /\ tasks[id] \in TaskRecord /\ id \in DOMAIN tasks
          /\ tasks[id].outcome \in Outcomes /\ tasks[id].status \in Statuses
      BY <2>4 DEF SetStatusMessage, TypeOK, TaskRecord
    <3>2. /\ moved.status = tasks[id].status /\ moved.outcome = tasks[id].outcome
          /\ moved.owner = tasks[id].owner
      BY <3>1, MovedFields DEF Notes
    <3>3. /\ tasks' = [tasks EXCEPT ![id] = moved] /\ UNCHANGED ownerOf
          /\ ~IsTerminal(tasks[id].status)
      BY <2>4 DEF SetStatusMessage, unheard, unasked
    <3> HIDE DEF moved
    <3>4. RecordMoves(tasks, id)
      BY <3>1, <3>2, <3>3 DEF RecordMoves
    <3> QED BY <3>3, <3>4
  <2> QED BY <1>2, <2>1, <2>2, <2>3, <2>4 DEF WorkerStep
<1>3. CASE Inspect
  BY <1>3 DEF Inspect, Tidied, unasked
<1>4. ASSUME NEW t \in 0..Horizon, ClockReads(t) PROVE Goal
  BY <1>4 DEF ClockReads, Tidied, unasked
<1>5. CASE UNCHANGED vars
  BY <1>5 DEF vars, Tidied
<1> QED
  BY <1>1, <1>2, <1>3, <1>4, <1>5 DEF Next

\* Sweeping and moving one record add no record and start no task.
LEMMA NoneAdded ==
    ASSUME TypeOK, NEW ts, ts = tasks \/ ts = Sweep(tasks, now),
           \/ tasks' = ts
           \/ \E id \in TaskIds : RecordMoves(ts, id)
    PROVE  /\ DOMAIN tasks' = DOMAIN ts
           /\ DOMAIN ts \subseteq DOMAIN tasks
           /\ \A r \in Requestors : RunningOf(tasks, r)' \subseteq RunningOf(tasks, r)
<1>1. DOMAIN ts \subseteq DOMAIN tasks /\ \A id \in DOMAIN ts : ts[id] = tasks[id]
  BY SweepKeeps
<1>2. CASE tasks' = ts
  BY <1>1, <1>2 DEF RunningOf
<1>3. ASSUME NEW id \in TaskIds, RecordMoves(ts, id)
      PROVE  /\ DOMAIN tasks' = DOMAIN ts
             /\ \A r \in Requestors : RunningOf(tasks, r)' \subseteq RunningOf(tasks, r)
  BY <1>1, <1>3 DEF RecordMoves, RunningOf
<1> QED BY <1>1, <1>2, <1>3

\* What make_room leaves, counted: a sweep's records less the evicted ones.
LEMMA RoomCounted ==
    ASSUME NEW ts, IsFiniteSet(DOMAIN ts)
    PROVE  /\ IsFiniteSet(DOMAIN MakeRoom(ts))
           /\ IsFiniteSet(Evicted(ts))
           /\ Evicted(ts) \subseteq DOMAIN ts
           /\ Cardinality(DOMAIN MakeRoom(ts)) = Cardinality(DOMAIN ts) - Cardinality(Evicted(ts))
<1>1. Evicted(ts) \subseteq DOMAIN ts
  BY DEF Evicted
<1>2. DOMAIN MakeRoom(ts) = DOMAIN ts \ Evicted(ts)
  BY DEF MakeRoom
<1>3. DOMAIN ts \cap Evicted(ts) = Evicted(ts)
  BY <1>1
<1>4. IsFiniteSet(Evicted(ts)) /\ IsFiniteSet(DOMAIN ts \ Evicted(ts))
  BY <1>1, FS_Subset
<1> QED
  BY <1>1, <1>2, <1>3, <1>4, FS_Difference

\* A create that make_room could not make room for evicted nothing: a store
\* within its limit that still has no room has no finished record to evict.
LEMMA RefusalEvictsNothing ==
    ASSUME StoreAssumption, TypeOK, RecordsBounded, NEW r \in Requestors, CreateRefused(r)
    PROVE  tasks' = Sweep(tasks, now)
<1> DEFINE swept == Sweep(tasks, now)
<1>1. CASE tasks' = swept
  BY <1>1
<1>2. CASE ~HasRoom(MakeRoom(swept)) /\ tasks' = MakeRoom(swept)
  <2>1. IsFiniteSet(DOMAIN tasks) /\ DOMAIN swept \subseteq DOMAIN tasks
    BY SweepKeeps, FS_Subset DEF TypeOK, StoreAssumption
  <2>2. /\ IsFiniteSet(DOMAIN swept)
        /\ Cardinality(DOMAIN swept) \in Nat /\ Cardinality(DOMAIN tasks) \in Nat
        /\ Cardinality(DOMAIN swept) <= Cardinality(DOMAIN tasks)
    BY <2>1, FS_Subset, FS_CardinalityType
  <2>3. Cardinality(Evicted(swept)) \in Nat /\ IsFiniteSet(Evicted(swept))
    BY <2>2, RoomCounted, FS_CardinalityType
  <2>4. Capacity \in Nat
    BY DEF Capacity, StoreAssumption
  <2>5. Cardinality(Evicted(swept)) = 0
    <3> HIDE DEF swept
    <3>1. Cardinality(DOMAIN MakeRoom(swept)) = Cardinality(DOMAIN swept) - Cardinality(Evicted(swept))
      BY <2>2, RoomCounted
    <3> QED BY <1>2, <2>2, <2>3, <2>4, <3>1 DEF HasRoom, RecordsBounded
  <2>6. Evicted(swept) = {}
    BY <2>3, <2>5, FS_EmptySet
  <2> QED BY <1>2, <2>6 DEF MakeRoom, Sweep
<1> QED BY <1>1, <1>2 DEF CreateRefused

\* A create that succeeds adds one record of one working task to what make_room left.
LEMMA CreateAdds ==
    ASSUME StoreAssumption, TypeOK, IInv, NEW r \in Requestors, NEW id \in TaskIds,
           NEW requested \in RequestedTtls, Create(r, requested, id)
    PROVE  LET kept == MakeRoom(Sweep(tasks, now)) IN
           /\ id \notin DOMAIN ownerOf /\ id \notin DOMAIN tasks
           /\ DOMAIN kept \subseteq DOMAIN tasks
           /\ \A i \in DOMAIN kept : tasks'[i] = tasks[i]
           /\ DOMAIN tasks' = DOMAIN kept \cup {id}
           /\ tasks'[id] = NewRecord(r, requested)
           /\ DOMAIN ownerOf' = DOMAIN ownerOf \cup {id}
           /\ HasRoom(kept)
           /\ Cardinality(RunningOf(Sweep(tasks, now), r)) < MaxConcurrent
<1> DEFINE swept == Sweep(tasks, now)
           kept  == MakeRoom(swept)
<1>1. /\ DOMAIN kept \subseteq DOMAIN tasks
      /\ \A i \in DOMAIN kept : kept[i] = tasks[i]
  BY SweepKeeps, MakeRoomKeeps
<1>2. /\ id \notin DOMAIN ownerOf /\ HasRoom(kept)
      /\ Cardinality(RunningOf(swept, r)) < MaxConcurrent
      /\ tasks' = Insert(kept, id, NewRecord(r, requested))
      /\ ownerOf' = Insert(ownerOf, id, r)
  BY DEF Create
<1>3. id \notin DOMAIN tasks
  BY <1>2 DEF IInv, Consistent, Owns
<1> HIDE DEF kept, swept
<1>4. /\ DOMAIN tasks' = DOMAIN kept \cup {id}
      /\ tasks'[id] = NewRecord(r, requested)
      /\ \A i \in DOMAIN kept : tasks'[i] = kept[i]
      /\ DOMAIN ownerOf' = DOMAIN ownerOf \cup {id}
  BY <1>1, <1>2, <1>3 DEF Insert
<1> QED BY <1>1, <1>2, <1>3, <1>4 DEF kept, swept

Limits == RecordsBounded /\ ConcurrencyBounded

\* No step takes the store past either limit.
LEMMA NextLimits ==
    ASSUME StoreAssumption, TypeOK, TypeOK', IInv, Limits, [Next]_vars
    PROVE  Limits'
<1> DEFINE swept == Sweep(tasks, now)
<1>1. /\ IsFiniteSet(DOMAIN tasks) /\ IsFiniteSet(DOMAIN tasks')
      /\ Cardinality(DOMAIN tasks) \in Nat /\ Cardinality(DOMAIN tasks') \in Nat
      /\ Capacity \in Nat /\ MaxConcurrent \in Nat
  BY FS_Subset, FS_CardinalityType DEF TypeOK, StoreAssumption, Capacity
<1>2. ASSUME DOMAIN tasks' \subseteq DOMAIN tasks,
             \A r \in Requestors : RunningOf(tasks, r)' \subseteq RunningOf(tasks, r)
      PROVE  Limits'
  <2>1. RecordsBounded'
    BY <1>1, <1>2, FS_Subset DEF Limits, RecordsBounded, Capacity
  <2>2. ASSUME NEW r \in Requestors PROVE Cardinality(RunningOf(tasks, r)') <= MaxConcurrent
    <3>1. RunningOf(tasks, r) \subseteq DOMAIN tasks
      BY DEF RunningOf
    <3>2. IsFiniteSet(RunningOf(tasks, r)) /\ Cardinality(RunningOf(tasks, r)) \in Nat
      BY <1>1, <3>1, FS_Subset, FS_CardinalityType
    <3>3. /\ Cardinality(RunningOf(tasks, r)') <= Cardinality(RunningOf(tasks, r))
          /\ Cardinality(RunningOf(tasks, r)') \in Nat
      BY <1>2, <3>2, FS_Subset, FS_CardinalityType
    <3> QED BY <1>1, <3>2, <3>3 DEF Limits, ConcurrencyBounded
  <2> QED BY <2>1, <2>2 DEF Limits, ConcurrencyBounded
<1>3. CASE \/ Tidied
           \/ \E id \in TaskIds : RecordMoves(tasks, id)
           \/ \E id \in TaskIds : RecordMoves(swept, id)
  <2>1. CASE tasks' = tasks \/ \E id \in TaskIds : RecordMoves(tasks, id)
    BY <1>2, <2>1, NoneAdded
  <2>2. CASE tasks' = swept \/ \E id \in TaskIds : RecordMoves(swept, id)
    BY <1>2, <2>2, NoneAdded
  <2> QED BY <1>3, <2>1, <2>2 DEF Tidied
<1>4. ASSUME NEW r \in Requestors, CreateRefused(r) PROVE Limits'
  <2>1. tasks' = swept
    BY <1>4, RefusalEvictsNothing DEF Limits
  <2> QED BY <1>2, <2>1, NoneAdded
<1>5. ASSUME NEW r \in Requestors, NEW id \in TaskIds, NEW requested \in RequestedTtls,
             Create(r, requested, id)
      PROVE  Limits'
  <2> DEFINE kept == MakeRoom(swept)
  <2>1. /\ id \notin DOMAIN tasks
        /\ DOMAIN kept \subseteq DOMAIN tasks
        /\ \A i \in DOMAIN kept : tasks'[i] = tasks[i]
        /\ DOMAIN tasks' = DOMAIN kept \cup {id}
        /\ tasks'[id] = NewRecord(r, requested)
        /\ HasRoom(kept)
        /\ Cardinality(RunningOf(swept, r)) < MaxConcurrent
    BY <1>5, CreateAdds
  <2>2. DOMAIN kept \subseteq DOMAIN swept /\ DOMAIN swept \subseteq DOMAIN tasks
    BY MakeRoomKeeps, SweepKeeps
  <2>3. \A i \in DOMAIN swept : swept[i] = tasks[i]
    BY SweepKeeps
  <2> HIDE DEF kept, swept
  <2>4. RecordsBounded'
    <3>1. IsFiniteSet(DOMAIN kept) /\ Cardinality(DOMAIN kept) \in Nat
      BY <1>1, <2>1, FS_Subset, FS_CardinalityType
    <3>2. Cardinality(DOMAIN kept \cup {id}) = Cardinality(DOMAIN kept) + 1
      BY <2>1, <3>1, FS_AddElement
    <3> QED BY <1>1, <2>1, <3>1, <3>2 DEF RecordsBounded, HasRoom, Capacity
  <2>5. ASSUME NEW q \in Requestors PROVE Cardinality(RunningOf(tasks, q)') <= MaxConcurrent
    <3>1. RunningOf(tasks, q) \subseteq DOMAIN tasks /\ RunningOf(swept, q) \subseteq DOMAIN tasks
      BY <2>2 DEF RunningOf
    <3>2. /\ IsFiniteSet(RunningOf(tasks, q)) /\ Cardinality(RunningOf(tasks, q)) \in Nat
          /\ IsFiniteSet(RunningOf(swept, q)) /\ Cardinality(RunningOf(swept, q)) \in Nat
      BY <1>1, <3>1, FS_Subset, FS_CardinalityType
    <3>3. CASE q # r
      <4>1. NewRecord(r, requested).owner = r
        BY DEF NewRecord
      <4>2. RunningOf(tasks, q)' \subseteq RunningOf(tasks, q)
        BY <2>1, <3>3, <4>1 DEF RunningOf
      <4>3. /\ Cardinality(RunningOf(tasks, q)') <= Cardinality(RunningOf(tasks, q))
            /\ Cardinality(RunningOf(tasks, q)') \in Nat
        BY <3>2, <4>2, FS_Subset, FS_CardinalityType
      <4> QED BY <1>1, <3>2, <4>3 DEF Limits, ConcurrencyBounded
    <3>4. CASE q = r
      <4>1. RunningOf(tasks, q)' \subseteq RunningOf(swept, r) \cup {id}
        BY <2>1, <2>2, <2>3, <3>4 DEF RunningOf
      <4>2. id \notin RunningOf(swept, r)
        BY <2>1, <2>2 DEF RunningOf
      <4>3. /\ IsFiniteSet(RunningOf(swept, r) \cup {id})
            /\ Cardinality(RunningOf(swept, r) \cup {id}) = Cardinality(RunningOf(swept, r)) + 1
        BY <3>2, <3>4, <4>2, FS_AddElement
      <4>4. /\ Cardinality(RunningOf(tasks, q)') <= Cardinality(RunningOf(swept, r) \cup {id})
            /\ Cardinality(RunningOf(tasks, q)') \in Nat
        BY <4>1, <4>3, FS_Subset, FS_CardinalityType
      <4> QED BY <1>1, <2>1, <3>2, <3>4, <4>3, <4>4
    <3> QED BY <3>3, <3>4
  <2> QED BY <2>4, <2>5 DEF Limits, ConcurrencyBounded
<1> QED BY <1>3, <1>4, <1>5, StepShape

\* Neither limit is ever passed: max_records for the store, max_concurrent for
\* each requestor's running tasks.
THEOREM LimitsHold == Spec => []Limits
<1>1. StoreAssumption /\ Init => Limits
  <2> SUFFICES ASSUME StoreAssumption, Init PROVE Limits
    OBVIOUS
  <2>1. DOMAIN tasks = {} /\ \A r \in Requestors : RunningOf(tasks, r) = {}
    BY DEF Init, RunningOf
  <2>2. Cardinality({}) = 0 /\ Capacity \in Nat /\ MaxConcurrent \in Nat
    BY FS_EmptySet DEF StoreAssumption, Capacity
  <2>3. RecordsBounded
    BY <2>1, <2>2 DEF RecordsBounded
  <2>4. ConcurrencyBounded
    <3> SUFFICES ASSUME NEW r \in Requestors
                 PROVE  Cardinality(RunningOf(tasks, r)) <= MaxConcurrent
      BY DEF ConcurrencyBounded
    <3>1. RunningOf(tasks, r) = {}
      BY <2>1
    <3> QED BY <2>2, <3>1
  <2> QED BY <2>3, <2>4 DEF Limits
<1> QED BY <1>1, StoreAssumption, NextLimits, TypeCorrect, InvariantHolds, PTL DEF Spec

\* create's per-requestor ceiling, for every reachable table.
THEOREM ConcurrencyLimit == Spec => []ConcurrencyBounded
BY LimitsHold, PTL DEF Limits

\* make_room takes finished records in the order of their age: what it evicts
\* is older than every finished record it keeps.
LEMMA EvictsOldest ==
    ASSUME NEW ts, IsFiniteSet(DOMAIN ts), DOMAIN ts \subseteq Nat,
           \A i \in DOMAIN ts : ts[i].created \in Nat, MaxRecords \in Nat,
           NEW id \in Evicted(ts), NEW o \in DOMAIN ts \ Evicted(ts), IsTerminal(ts[o].status)
    PROVE  Older(ts, id, o)
<1> DEFINE finished  == {i \in DOMAIN ts : IsTerminal(ts[i].status)}
           before(i) == {x \in finished : Older(ts, x, i)}
           surplus   == Cardinality(DOMAIN ts) - (Capacity - 1)
<1>1. /\ id \in finished /\ o \in finished /\ id # o
      /\ Cardinality(before(id)) < surplus
      /\ ~(Cardinality(before(o)) < surplus)
  BY DEF Evicted
<1>2. surplus \in Int
  BY FS_CardinalityType DEF Capacity
<1>3. IsFiniteSet(before(id)) /\ IsFiniteSet(before(o))
  BY FS_Subset
<1>4. Cardinality(before(id)) \in Nat /\ Cardinality(before(o)) \in Nat
  BY <1>3, FS_CardinalityType
<1>5. CASE Older(ts, o, id)
  <2>1. before(o) \subseteq before(id)
    <3> SUFFICES ASSUME NEW x \in finished, Older(ts, x, o) PROVE Older(ts, x, id)
      OBVIOUS
    <3>1. /\ ts[x].created \in Nat /\ ts[o].created \in Nat /\ ts[id].created \in Nat
          /\ x \in Nat /\ o \in Nat /\ id \in Nat
      BY <1>1
    <3> QED BY <1>5, <3>1 DEF Older
  <2>2. Cardinality(before(o)) <= Cardinality(before(id))
    BY <1>3, <2>1, FS_Subset
  <2> HIDE DEF surplus, before
  <2> QED BY <1>1, <1>2, <1>4, <2>2
<1>6. CASE ~Older(ts, o, id)
  <2>1. /\ ts[o].created \in Nat /\ ts[id].created \in Nat /\ o \in Nat /\ id \in Nat
    BY <1>1
  <2> QED BY <1>1, <1>6, <2>1 DEF Older
<1> QED BY <1>5, <1>6

\* No step drops a running task's record, and a finished one leaves before its
\* deadline only as the oldest, for a task that is then created.
LEMMA NextKeepsWork ==
    ASSUME StoreAssumption, TypeOK, IInv, RecordsBounded, [Next]_vars
    PROVE  WorkIsKept
<1> DEFINE swept == Sweep(tasks, now)
<1>1. ASSUME DOMAIN tasks' = DOMAIN tasks \/ DOMAIN tasks' = DOMAIN swept
      PROVE  WorkIsKept
  <2>1. \A i \in DOMAIN tasks \ DOMAIN tasks' : Expired(tasks[i], now)
    BY <1>1, SweepKeeps
  <2> QED BY <2>1 DEF WorkIsKept
<1>2. CASE \/ Tidied
           \/ \E id \in TaskIds : RecordMoves(tasks, id)
           \/ \E id \in TaskIds : RecordMoves(swept, id)
  BY <1>1, <1>2 DEF Tidied, RecordMoves
<1>3. ASSUME NEW r \in Requestors, CreateRefused(r) PROVE WorkIsKept
  BY <1>1, <1>3, RefusalEvictsNothing
<1>4. ASSUME NEW r \in Requestors, NEW id \in TaskIds, NEW requested \in RequestedTtls,
             Create(r, requested, id)
      PROVE  WorkIsKept
  <2> SUFFICES ASSUME NEW i \in DOMAIN tasks \ DOMAIN tasks', ~Expired(tasks[i], now)
               PROVE  /\ IsTerminal(tasks[i].status)
                      /\ DOMAIN tasks' \ DOMAIN tasks # {}
                      /\ \A o \in DOMAIN tasks \cap DOMAIN tasks' :
                            IsTerminal(tasks[o].status) => Older(tasks, i, o)
    BY DEF WorkIsKept
  <2>1. /\ id \notin DOMAIN tasks
        /\ DOMAIN tasks' = DOMAIN MakeRoom(swept) \cup {id}
    BY <1>4, CreateAdds
  <2>2. /\ DOMAIN swept \subseteq DOMAIN tasks
        /\ \A o \in DOMAIN swept : swept[o] = tasks[o]
        /\ i \in DOMAIN swept
    BY SweepKeeps
  <2>3. DOMAIN MakeRoom(swept) = DOMAIN swept \ Evicted(swept)
    BY DEF MakeRoom
  <2>4. i \in Evicted(swept)
    BY <2>1, <2>2, <2>3
  <2>5. /\ IsFiniteSet(DOMAIN swept) /\ DOMAIN swept \subseteq Nat /\ MaxRecords \in Nat
        /\ \A o \in DOMAIN swept : swept[o].created \in Nat
    <3>1. \A o \in DOMAIN swept : swept[o] \in TaskRecord
      BY <2>2 DEF TypeOK
    <3> QED BY <2>2, <3>1, FS_Subset DEF TypeOK, StoreAssumption, TaskRecord
  <2> HIDE DEF swept
  <2>6. IsTerminal(tasks[i].status)
    BY <2>2, <2>4 DEF Evicted
  <2>7. ASSUME NEW o \in DOMAIN tasks \cap DOMAIN tasks', IsTerminal(tasks[o].status)
        PROVE  Older(tasks, i, o)
    <3>1. o \in DOMAIN swept \ Evicted(swept) /\ IsTerminal(swept[o].status)
      BY <2>1, <2>2, <2>3, <2>7
    <3>2. Older(swept, i, o)
      BY <2>4, <2>5, <3>1, EvictsOldest
    <3> QED BY <2>2, <3>1, <3>2 DEF Older
  <2> QED BY <2>1, <2>6, <2>7
<1> QED BY <1>2, <1>3, <1>4, StepShape

\* The limit on records is kept, and keeping it never costs a running task its
\* record, nor a finished one its result before its turn or for nothing.
THEOREM CapacityIsKept == Spec => CapacityKept
<1>1. StoreAssumption /\ TypeOK /\ IInv /\ Limits /\ Limits' /\ [Next]_vars
        => [RecordsBounded' /\ WorkIsKept]_vars
  BY NextKeepsWork DEF Limits
<1> QED BY <1>1, StoreAssumption, TypeCorrect, InvariantHolds, LimitsHold, PTL DEF Spec, CapacityKept

-----------------------------------------------------------------------------
(***************************************************************************)
(* The refinement.  A record that a step leaves, moves, drops or adds is a *)
(* task that stays, moves, is purged or begins in TaskLifecycle; IInv      *)
(* supplies that a retained id has been drawn, so that an id which leaves  *)
(* the table reads as purged and never as absent, and that a status and    *)
(* its outcome fit.                                                        *)
(***************************************************************************)

\* What a step may do to one task.
TaskStep(id) ==
    \/ /\ id \in DOMAIN tasks /\ id \in DOMAIN tasks'
       /\ \/ tasks'[id].status = tasks[id].status /\ tasks'[id].outcome = tasks[id].outcome
          \/ CanTransitionTo(tasks[id].status, tasks'[id].status)
    \/ id \in DOMAIN tasks /\ id \notin DOMAIN tasks' /\ id \in DOMAIN ownerOf'
    \/ /\ id \notin DOMAIN ownerOf /\ id \notin DOMAIN tasks
       /\ id \in DOMAIN tasks' /\ tasks'[id].status = "working"
    \/ /\ id \notin DOMAIN tasks /\ id \notin DOMAIN tasks'
       /\ id \in DOMAIN ownerOf' <=> id \in DOMAIN ownerOf

\* Every step of the store is such a step of each task.
LEMMA NextTaskStep ==
    ASSUME StoreAssumption, TypeOK, IInv, RecordsBounded, [Next]_vars, NEW id \in TaskIds
    PROVE  TaskStep(id)
<1> DEFINE swept == Sweep(tasks, now)
<1>1. /\ DOMAIN swept \subseteq DOMAIN tasks
      /\ \A i \in DOMAIN swept : swept[i] = tasks[i]
  BY SweepKeeps
<1>2. id \in DOMAIN tasks => id \in DOMAIN ownerOf
  BY DEF IInv, Consistent, Owns
<1> HIDE DEF swept
<1>3. ASSUME UNCHANGED ownerOf, NEW ts, ts = tasks \/ ts = swept,
             tasks' = ts \/ \E i \in TaskIds : RecordMoves(ts, i)
      PROVE  TaskStep(id)
  <2>1. DOMAIN ts \subseteq DOMAIN tasks /\ \A i \in DOMAIN ts : ts[i] = tasks[i]
    BY <1>1, <1>3
  <2>2. CASE tasks' = ts
    BY <1>2, <1>3, <2>1, <2>2 DEF TaskStep
  <2>3. ASSUME NEW i \in TaskIds, RecordMoves(ts, i) PROVE TaskStep(id)
    BY <1>2, <1>3, <2>1, <2>3 DEF TaskStep, RecordMoves
  <2> QED BY <1>3, <2>2, <2>3
<1>4. CASE /\ UNCHANGED ownerOf
           /\ \/ Tidied
              \/ \E i \in TaskIds : RecordMoves(tasks, i)
              \/ \E i \in TaskIds : RecordMoves(swept, i)
  BY <1>3, <1>4 DEF Tidied, swept
<1>5. ASSUME NEW r \in Requestors, CreateRefused(r) PROVE TaskStep(id)
  <2>1. tasks' = swept /\ UNCHANGED ownerOf
    BY <1>5, RefusalEvictsNothing DEF CreateRefused, unasked, swept
  <2> QED BY <1>3, <2>1
<1>6. ASSUME NEW r \in Requestors, NEW new \in TaskIds, NEW requested \in RequestedTtls,
             Create(r, requested, new)
      PROVE  TaskStep(id)
  <2> DEFINE kept == MakeRoom(Sweep(tasks, now))
  <2>1. /\ new \notin DOMAIN ownerOf /\ new \notin DOMAIN tasks
        /\ DOMAIN kept \subseteq DOMAIN tasks
        /\ \A i \in DOMAIN kept : tasks'[i] = tasks[i]
        /\ DOMAIN tasks' = DOMAIN kept \cup {new}
        /\ tasks'[new] = NewRecord(r, requested)
        /\ DOMAIN ownerOf' = DOMAIN ownerOf \cup {new}
    BY <1>6, CreateAdds
  <2>2. NewRecord(r, requested).status = "working"
    BY DEF NewRecord
  <2> HIDE DEF kept
  <2> QED BY <1>2, <2>1, <2>2 DEF TaskStep
<1> QED BY <1>4, <1>5, <1>6, StepShape DEF swept

\* A step of one task of the store is a step of that task's life.
LEMMA TaskStepLives ==
    ASSUME TypeOK, TypeOK', IInv, IInv', NEW id \in TaskIds, TaskStep(id)
    PROVE  \/ Phase(id)' = Phase(id) /\ ResultOf(id)' = ResultOf(id)
           \/ /\ Life!MayFollow(Phase(id), Phase(id)')
              /\ Life!ResultFits(Phase(id)', ResultOf(id)')
<1>1. id \in DOMAIN tasks => id \in DOMAIN ownerOf
  BY DEF IInv, Consistent, Owns
<1>2. id \in DOMAIN tasks' => (IsTerminal(tasks'[id].status) <=> tasks'[id].outcome # "none")
  BY DEF IInv, Consistent
<1>3. /\ id \in DOMAIN tasks => tasks[id].status \in Statuses
      /\ id \in DOMAIN tasks' => tasks'[id].status \in Statuses
  BY DEF TypeOK, TaskRecord
<1>4. CASE id \in DOMAIN tasks /\ id \in DOMAIN tasks'
  <2>1. /\ Phase(id) = tasks[id].status /\ Phase(id)' = tasks'[id].status
        /\ ResultOf(id) = tasks[id].outcome /\ ResultOf(id)' = tasks'[id].outcome
    BY <1>4 DEF Phase, ResultOf
  <2>2. CASE CanTransitionTo(tasks[id].status, tasks'[id].status)
    BY <1>2, <1>3, <1>4, <2>1, <2>2
       DEF CanTransitionTo, Life!MayFollow, Life!ResultFits, IsTerminal, Terminal, Life!Terminal, Statuses
  <2> QED BY <1>4, <2>1, <2>2 DEF TaskStep
<1>5. CASE id \in DOMAIN tasks /\ id \notin DOMAIN tasks'
  <2>1. Phase(id) = tasks[id].status /\ Phase(id)' = "purged" /\ ResultOf(id)' = "none"
    BY <1>5 DEF TaskStep, Phase, ResultOf
  <2> QED BY <1>3, <1>5, <2>1 DEF Life!MayFollow, Life!ResultFits, Life!Terminal, Statuses, Terminal
<1>6. CASE id \notin DOMAIN tasks /\ id \in DOMAIN tasks'
  <2>1. Phase(id) = "absent" /\ Phase(id)' = "working" /\ ResultOf(id)' = "none"
    BY <1>2, <1>6 DEF TaskStep, Phase, ResultOf, IsTerminal, Terminal
  <2> QED BY <2>1 DEF Life!MayFollow, Life!ResultFits, Life!Terminal
<1>7. CASE id \notin DOMAIN tasks /\ id \notin DOMAIN tasks'
  BY <1>7 DEF TaskStep, Phase, ResultOf
<1> QED BY <1>4, <1>5, <1>6, <1>7

\* Every behaviour of the store is a behaviour of the task state machine.
THEOREM StoreImplementsLifecycle == Spec => ImplementsLifecycle
<1>1. Init => Life!Init
  BY DEF Init, Life!Init, Phase, ResultOf
<1>2. ASSUME StoreAssumption, TypeOK, TypeOK', IInv, IInv', Limits, [Next]_vars
      PROVE  [Life!Next]_Life!lifeVars
  <2>1. \A id \in TaskIds : Phase(id)' \in Life!Phases /\ ResultOf(id)' \in Life!Results
    BY <1>2 DEF TypeOK, TaskRecord, Phase, ResultOf, Life!Phases, Life!Results, Life!Terminal,
                Statuses, Terminal, Outcomes
  <2>2. ASSUME NEW id \in TaskIds PROVE Life!Stay(id) \/ Life!Move(id)
    BY <1>2, NextTaskStep, TaskStepLives DEF Limits, Life!Stay, Life!Move
  <2> QED BY <2>1, <2>2 DEF Life!Next
<1> QED
  BY <1>1, <1>2, StoreAssumption, TypeCorrect, InvariantHolds, LimitsHold, PTL
     DEF Spec, ImplementsLifecycle, Life!Spec
=============================================================================
