--------------------------- MODULE SessionProofs ---------------------------
(***************************************************************************)
(* What TLAPS proves of Session, for any number of tasks and requests and  *)
(* a deferred queue of any capacity: no request is lost or answered twice, *)
(* requests are begun in the order they arrived, and a task is announced   *)
(* before its worker is heard.                                             *)
(***************************************************************************)
EXTENDS Session, SequenceTheorems, TLAPS

-----------------------------------------------------------------------------
(* The inductive invariant *)

IsRequest(m) == m.kind # "withdrawal"

\* Somebody still owes request i an answer: the loop has it in hand, or it has
\* been put off.
Owing(i) ==
    \/ i = current
    \/ \E k \in 1 .. Len(deferred) : IsRequest(deferred[k]) /\ deferred[k].id = i

\* What was put off has arrived, after whatever the loop has started on, and is
\* kept in the order it arrived.
Queued ==
    /\ current <= arrived
    /\ \A j \in 1 .. Len(order) : order[j] <= arrived
    /\ \A k \in 1 .. Len(deferred) : IsRequest(deferred[k]) =>
          /\ deferred[k].id <= arrived
          /\ current < deferred[k].id
          /\ \A j \in 1 .. Len(order) : order[j] < deferred[k].id
          /\ deferred[k].kind \in {"cancel", "result"} => deferred[k].task \in Tasks
    /\ \A k, l \in 1 .. Len(deferred) :
          k < l /\ IsRequest(deferred[k]) /\ IsRequest(deferred[l]) => deferred[k].id < deferred[l].id
    /\ ArrivalOrder

\* A request is unanswered as long as it is owed, and answered once it is not.
Ledger ==
    \A i \in RequestIds :
        /\ answers[i] \in {0, 1}
        /\ i > arrived \/ Owing(i) => answers[i] = 0
        /\ ~broken /\ i <= arrived /\ i \notin ignored /\ ~Owing(i) => answers[i] = 1

\* A gate is shut only while its task's answer is about to be written, and whoever
\* is past an open one has been announced, or nothing can be written any more.
Gates ==
    /\ born # NoTask => mode = "replying"
    /\ \A t \in Tasks :
          /\ gate[t] = "shut" => born = t
          /\ gate[t] = "open" => t \in announced \/ broken
    /\ ~config.slowReply =>
          /\ \A t \in Tasks : worker[t] \notin {"none", "gated"} => t \in announced \/ broken
          /\ spoken \subseteq announced

SInv == TypeOK /\ Queued /\ Ledger /\ Gates

-----------------------------------------------------------------------------
(* What a step may do to the requests *)

\* Nothing.
Keeps ==
    /\ UNCHANGED <<current, deferred, arrived, answers, order, ignored>>
    /\ broken => broken'

\* The loop takes what was put off first: a withdrawal, or a request.
TakesWithdrawal ==
    /\ deferred # <<>> /\ ~IsRequest(Head(deferred))
    /\ deferred' = Tail(deferred)
    /\ UNCHANGED <<current, arrived, answers, order, ignored, broken>>

TakesRequest ==
    /\ current = NoRequest
    /\ deferred # <<>> /\ IsRequest(Head(deferred))
    /\ deferred' = Tail(deferred)
    /\ current' = Head(deferred).id
    /\ order' = Append(order, Head(deferred).id)
    /\ UNCHANGED <<arrived, answers, ignored, broken>>

\* Something arrives.
Counted == arrived < MaxRequests /\ arrived' = arrived + 1

\* The loop begins with it ...
Begins ==
    /\ Counted
    /\ current = NoRequest /\ deferred = <<>>
    /\ current' = arrived + 1
    /\ order' = Append(order, arrived + 1) \/ order' = order
    /\ UNCHANGED <<deferred, answers, ignored, broken>>

\* ... or, while it waits, answers it on the spot, puts it off or ignores it.
AnswersNow ==
    /\ Counted
    /\ Answer(arrived + 1)
    /\ UNCHANGED <<current, deferred, order, ignored, broken>>

Deferrable(m) ==
    m \in Request /\ m.id = arrived + 1 /\ (m.kind \in {"cancel", "result"} => m.task \in Tasks)

PutsOff ==
    /\ Counted
    /\ \E m \in Request : Deferrable(m) /\ deferred' = Append(deferred, m)
    /\ UNCHANGED <<current, answers, order, ignored, broken>>

PutsOffWithdrawal ==
    /\ \E m \in Withdrawal : deferred' = Append(deferred, m)
    /\ UNCHANGED <<current, arrived, answers, order, ignored, broken>>

Ignores ==
    /\ Counted
    /\ ignored' = ignored \cup {arrived + 1}
    /\ UNCHANGED <<current, deferred, answers, order, broken>>

\* The request in hand is answered.
Replies ==
    /\ current # NoRequest
    /\ Answer(current)
    /\ current' = NoRequest
    /\ UNCHANGED <<deferred, arrived, order, ignored, broken>>

RequestMove ==
    \/ Keeps \/ TakesWithdrawal \/ TakesRequest \/ Begins \/ AnswersNow
    \/ PutsOff \/ PutsOffWithdrawal \/ Ignores \/ Replies

\* What the client may send next can be put off.
LEMMA SendableShape ==
    ASSUME TypeOK, arrived < MaxRequests, NEW m \in Sendable
    PROVE  Deferrable(m)
<1>1. arrived + 1 \in RequestIds
  BY SessionAssumption DEF TypeOK, RequestIds
<1> QED BY <1>1, KindsAssumption DEF Sendable, Deferrable, Request, AllKinds

\* Every step is one of these.
LEMMA StepMoves ==
    ASSUME TypeOK, [Next]_vars
    PROVE  RequestMove
<1> USE DEF RequestMove
<1>1. ASSUME NEW m \in Sendable, ReadRequest(m) PROVE RequestMove
  <2>1. arrived < MaxRequests /\ arrived' = arrived + 1 /\ m.id = arrived + 1
    BY <1>1 DEF ReadRequest, Arrives
  <2>2. current = NoRequest /\ deferred = <<>>
    BY <1>1 DEF ReadRequest, Reading, TypeOK
  <2>3. current' = m.id /\ order' = Append(order, m.id)
    BY <1>1 DEF ReadRequest, Dispatch
  <2>4. UNCHANGED <<deferred, answers, ignored, broken>>
    BY <1>1 DEF ReadRequest, wireVars
  <2> QED BY <2>1, <2>2, <2>3, <2>4 DEF Begins, Counted
<1>2. ASSUME NEW m \in Sendable, PumpInline(m) PROVE RequestMove
  BY <1>2 DEF PumpInline, Arrives, AnswersNow, Counted, wireVars
<1>3. ASSUME NEW m \in Sendable, PumpDefersRequest(m) \/ DirectDefersRequest(m)
      PROVE  RequestMove
  <2>1. /\ arrived < MaxRequests /\ arrived' = arrived + 1 /\ m.id = arrived + 1
        /\ ShedOrDefer(m)
        /\ UNCHANGED <<current, order, ignored, broken>>
    BY <1>3 DEF PumpDefersRequest, DirectDefersRequest, Arrives, wireVars
  <2>2. Deferrable(m) /\ m.kind # "withdrawal"
    BY <2>1, SendableShape DEF Deferrable, Request, AllKinds
  <2>3. m \in Request
    BY <2>2 DEF Deferrable
  <2> QED BY <2>1, <2>2, <2>3 DEF ShedOrDefer, PutsOff, AnswersNow, Counted
<1>4. ASSUME NEW t \in Tasks, PumpDefersWithdrawal(t) \/ DirectDefersWithdrawal(t)
      PROVE  RequestMove
  <2> DEFINE m == [kind |-> "withdrawal", task |-> t]
  <2>1. ShedOrDefer(m) /\ UNCHANGED <<current, arrived, order, ignored, broken>>
    BY <1>4 DEF PumpDefersWithdrawal, DirectDefersWithdrawal, wireVars
  <2>2. m \in Withdrawal /\ m.kind = "withdrawal"
    BY DEF Withdrawal
  <2> HIDE DEF m
  <2> QED BY <2>1, <2>2 DEF ShedOrDefer, PutsOffWithdrawal, Keeps
<1>5. ASSUME NEW t \in Tasks, RouteResponse(t) \/ ReadWithdrawal(t) \/ WorkerStep(t) \/ Purge(t)
      PROVE  RequestMove
  BY <1>5 DEF RouteResponse, ReadWithdrawal, WorkerStep, PassGate, Speak, AskClient,
              MarkInputRequired, WaitEnds, Finish, Purge, Keeps, unlooped, loopVars, wireVars
<1>6. CASE ReadMalformed \/ PumpMalformed \/ DirectMalformed
  BY <1>6 DEF ReadMalformed, PumpMalformed, DirectMalformed, Reading, TypeOK, Begins, AnswersNow,
              Ignores, Counted, wireVars
<1>7. CASE TakeDeferred
  <2>1. /\ deferred # <<>> /\ deferred' = Tail(deferred) /\ current = NoRequest
        /\ UNCHANGED <<arrived, answers, ignored, broken>>
    BY <1>7 DEF TakeDeferred, TypeOK, wireVars
  <2>2. CASE Head(deferred).kind = "withdrawal"
    <3>1. UNCHANGED <<current, order>>
      BY <1>7, <2>2 DEF TakeDeferred
    <3> QED BY <2>1, <2>2, <3>1 DEF TakesWithdrawal, IsRequest
  <2>3. CASE Head(deferred).kind # "withdrawal"
    <3>1. current' = Head(deferred).id /\ order' = Append(order, Head(deferred).id)
      BY <1>7, <2>3 DEF TakeDeferred, Dispatch
    <3> QED BY <2>1, <2>3, <3>1 DEF TakesRequest, IsRequest
  <2> QED BY <2>2, <2>3
<1>8. CASE WriteReply
  <2>1. current # NoRequest
    BY <1>8 DEF WriteReply, TypeOK
  <2> QED BY <1>8, <2>1 DEF WriteReply, Replies
<1>9. CASE \/ PumpLook \/ PumpTimesOut \/ ReadCloses \/ PumpCloses
           \/ DirectHeard \/ DirectGivesUp \/ ClientHangsUp \/ SinkBreaks
  BY <1>9 DEF PumpLook, PumpTimesOut, ReadCloses, PumpCloses, DirectHeard, DirectGivesUp, DirectEnds,
              ClientHangsUp, SinkBreaks, Keeps, loopVars, wireVars
<1>10. CASE UNCHANGED vars
  BY <1>10 DEF vars, loopVars, wireVars, Keeps
<1> QED BY <1>1, <1>2, <1>3, <1>4, <1>5, <1>6, <1>7, <1>8, <1>9, <1>10
        DEF Next, ClientStep, LoopStep

-----------------------------------------------------------------------------
(* The requests *)

RequestTypes ==
    /\ current \in RequestIds \cup {NoRequest}
    /\ deferred \in Seq(Request \cup Withdrawal)
    /\ arrived \in 0 .. MaxRequests
    /\ answers \in [RequestIds -> Nat]
    /\ order \in Seq(RequestIds)
    /\ ignored \subseteq RequestIds

\* The deferred queue's elements, at either end.
LEMMA DeferredShape ==
    ASSUME RequestTypes
    PROVE  /\ Len(deferred) \in Nat /\ Len(order) \in Nat
           /\ \A k \in 1 .. Len(deferred) : IsRequest(deferred[k]) =>
                 deferred[k] \in Request /\ deferred[k].id \in RequestIds
           /\ deferred # <<>> =>
                 /\ Head(deferred) = deferred[1]
                 /\ 1 \in 1 .. Len(deferred)
                 /\ Tail(deferred) \in Seq(Request \cup Withdrawal)
                 /\ Len(Tail(deferred)) = Len(deferred) - 1
                 /\ \A k \in 1 .. Len(deferred) - 1 : Tail(deferred)[k] = deferred[k + 1]
           /\ \A m \in Request \cup Withdrawal :
                 /\ Append(deferred, m) \in Seq(Request \cup Withdrawal)
                 /\ Len(Append(deferred, m)) = Len(deferred) + 1
                 /\ \A k \in 1 .. Len(deferred) : Append(deferred, m)[k] = deferred[k]
                 /\ Append(deferred, m)[Len(deferred) + 1] = m
           /\ \A i \in RequestIds :
                 /\ Append(order, i) \in Seq(RequestIds)
                 /\ Len(Append(order, i)) = Len(order) + 1
                 /\ \A k \in 1 .. Len(order) : Append(order, i)[k] = order[k]
                 /\ Append(order, i)[Len(order) + 1] = i
<1>1. deferred \in Seq(Request \cup Withdrawal) /\ order \in Seq(RequestIds)
  BY DEF RequestTypes
<1>2. Len(deferred) \in Nat /\ Len(order) \in Nat
  BY <1>1
<1>3. \A k \in 1 .. Len(deferred) : IsRequest(deferred[k]) =>
          deferred[k] \in Request /\ deferred[k].id \in RequestIds
  <2> SUFFICES ASSUME NEW k \in 1 .. Len(deferred), IsRequest(deferred[k])
               PROVE  deferred[k] \in Request /\ deferred[k].id \in RequestIds
    OBVIOUS
  <2>1. deferred[k] \in Request \cup Withdrawal
    BY <1>1
  <2> QED BY <2>1 DEF IsRequest, Request, Withdrawal
<1>4. deferred # <<>> =>
          /\ Head(deferred) = deferred[1]
          /\ 1 \in 1 .. Len(deferred)
          /\ Tail(deferred) \in Seq(Request \cup Withdrawal)
          /\ Len(Tail(deferred)) = Len(deferred) - 1
          /\ \A k \in 1 .. Len(deferred) - 1 : Tail(deferred)[k] = deferred[k + 1]
  BY <1>1
<1>5. ASSUME NEW m \in Request \cup Withdrawal
      PROVE  /\ Append(deferred, m) \in Seq(Request \cup Withdrawal)
             /\ Len(Append(deferred, m)) = Len(deferred) + 1
             /\ \A k \in 1 .. Len(deferred) : Append(deferred, m)[k] = deferred[k]
             /\ Append(deferred, m)[Len(deferred) + 1] = m
  BY <1>1, AppendProperties
<1>6. ASSUME NEW i \in RequestIds
      PROVE  /\ Append(order, i) \in Seq(RequestIds)
             /\ Len(Append(order, i)) = Len(order) + 1
             /\ \A k \in 1 .. Len(order) : Append(order, i)[k] = order[k]
             /\ Append(order, i)[Len(order) + 1] = i
  BY <1>1, AppendProperties
<1> QED BY <1>2, <1>3, <1>4, <1>5, <1>6

\* The step keeps the types of the requests.
LEMMA RequestTypesStep ==
    ASSUME RequestTypes, RequestMove
    PROVE  RequestTypes'
<1>1. arrived < MaxRequests => arrived + 1 \in RequestIds /\ arrived + 1 \in 0 .. MaxRequests
  BY SessionAssumption DEF RequestTypes, RequestIds
<1>2. ASSUME NEW i \in RequestIds, Answer(i) PROVE answers' \in [RequestIds -> Nat]
  BY <1>2 DEF Answer, RequestTypes
<1>3. CASE Keeps
  BY <1>3 DEF Keeps, RequestTypes
<1>4. CASE TakesWithdrawal
  BY <1>4, DeferredShape DEF TakesWithdrawal, RequestTypes
<1>5. CASE TakesRequest
  BY <1>5, DeferredShape DEF TakesRequest, RequestTypes
<1>6. CASE Begins
  BY <1>1, <1>6, DeferredShape DEF Begins, Counted, RequestTypes
<1>7. CASE AnswersNow
  BY <1>1, <1>2, <1>7 DEF AnswersNow, Counted, RequestTypes
<1>8. CASE PutsOff
  BY <1>1, <1>8, DeferredShape DEF PutsOff, Counted, RequestTypes
<1>9. CASE PutsOffWithdrawal
  BY <1>9, DeferredShape DEF PutsOffWithdrawal, RequestTypes
<1>10. CASE Ignores
  BY <1>1, <1>10 DEF Ignores, Counted, RequestTypes
<1>11. CASE Replies
  BY <1>2, <1>11 DEF Replies, RequestTypes
<1> QED BY <1>3, <1>4, <1>5, <1>6, <1>7, <1>8, <1>9, <1>10, <1>11 DEF RequestMove

\* The step keeps the order.
LEMMA QueuedStep ==
    ASSUME RequestTypes, Queued, RequestMove
    PROVE  Queued'
<1> USE DEF Queued, ArrivalOrder
<1>0. /\ arrived \in Nat
      /\ \A i \in RequestIds : i \in Nat /\ 0 < i
      /\ current \in Nat /\ NoRequest = 0
      /\ \A j \in 1 .. Len(order) : order[j] \in Nat
      /\ Len(deferred) \in Nat /\ Len(order) \in Nat
      /\ \A k \in 1 .. Len(deferred) : IsRequest(deferred[k]) =>
            deferred[k].id \in Nat /\ 0 < deferred[k].id
  BY SMTT(40), SessionAssumption, DeferredShape DEF RequestTypes, RequestIds, NoRequest
<1>1. CASE Keeps
  BY <1>1 DEF Keeps
<1>2. CASE TakesWithdrawal
  <2>1. /\ Len(deferred') = Len(deferred) - 1
        /\ \A k \in 1 .. Len(deferred') : deferred'[k] = deferred[k + 1]
    BY <1>2, DeferredShape DEF TakesWithdrawal
  <2>2. \A k \in 1 .. Len(deferred') : k + 1 \in 1 .. Len(deferred) /\ k \in Nat
    BY <1>0, <2>1
  <2>3. UNCHANGED <<current, arrived, order>>
    BY <1>2 DEF TakesWithdrawal
  <2>4. \A k \in 1 .. Len(deferred') : IsRequest(deferred'[k]) =>
          /\ deferred'[k].id <= arrived
          /\ current < deferred'[k].id
          /\ \A j \in 1 .. Len(order) : order[j] < deferred'[k].id
          /\ deferred'[k].kind \in {"cancel", "result"} => deferred'[k].task \in Tasks
    BY <2>1, <2>2
  <2>5. \A k, l \in 1 .. Len(deferred') :
          k < l /\ IsRequest(deferred'[k]) /\ IsRequest(deferred'[l]) => deferred'[k].id < deferred'[l].id
    <3> SUFFICES ASSUME NEW k \in 1 .. Len(deferred'), NEW l \in 1 .. Len(deferred'), k < l,
                        IsRequest(deferred[k + 1]), IsRequest(deferred[l + 1])
                 PROVE  deferred[k + 1].id < deferred[l + 1].id
      BY <2>1
    <3>1. k + 1 \in 1 .. Len(deferred) /\ l + 1 \in 1 .. Len(deferred) /\ k + 1 < l + 1
      BY <2>2
    <3> QED BY <3>1
  <2> QED BY <2>3, <2>4, <2>5
<1>3. CASE TakesRequest
  <2> DEFINE id == deferred[1].id
  <2>1. /\ Len(deferred') = Len(deferred) - 1
        /\ \A k \in 1 .. Len(deferred') : deferred'[k] = deferred[k + 1]
        /\ 1 \in 1 .. Len(deferred) /\ IsRequest(deferred[1])
        /\ id \in RequestIds /\ order' = Append(order, id)
        /\ current' = id
    BY <1>3, DeferredShape DEF TakesRequest
  <2>2. \A k \in 1 .. Len(deferred') : k + 1 \in 1 .. Len(deferred) /\ 1 < k + 1 /\ k \in Nat
    BY <1>0, <2>1
  <2>3. /\ Len(order') = Len(order) + 1
        /\ \A j \in 1 .. Len(order) : order'[j] = order[j]
        /\ order'[Len(order) + 1] = id
    BY <2>1, DeferredShape
  <2>4. arrived' = arrived
    BY <1>3 DEF TakesRequest
  <2>5. id <= arrived /\ id \in Nat /\ \A j \in 1 .. Len(order) : order[j] < id
    BY <1>0, <2>1
  <2>6. \A k \in 1 .. Len(deferred') : IsRequest(deferred'[k]) =>
          /\ id < deferred'[k].id /\ deferred'[k].id <= arrived
          /\ deferred'[k].kind \in {"cancel", "result"} => deferred'[k].task \in Tasks
          /\ \A j \in 1 .. Len(order) : order[j] < deferred'[k].id
    BY <1>0, <2>1, <2>2
  <2>7. \A k, l \in 1 .. Len(deferred') :
          k < l /\ IsRequest(deferred'[k]) /\ IsRequest(deferred'[l]) => deferred'[k].id < deferred'[l].id
    <3> SUFFICES ASSUME NEW k \in 1 .. Len(deferred'), NEW l \in 1 .. Len(deferred'), k < l,
                        IsRequest(deferred[k + 1]), IsRequest(deferred[l + 1])
                 PROVE  deferred[k + 1].id < deferred[l + 1].id
      BY <2>1
    <3>1. k + 1 \in 1 .. Len(deferred) /\ l + 1 \in 1 .. Len(deferred) /\ k + 1 < l + 1
      BY <2>2
    <3> QED BY <3>1
  <2>8. \A j \in 1 .. Len(order') : j \in 1 .. Len(order) \/ j = Len(order) + 1
    BY <1>0, <2>3
  <2> HIDE DEF id
  <2>9. \A j \in 1 .. Len(order') : order'[j] <= id /\ order'[j] \in Nat
    BY <1>0, <2>3, <2>5, <2>8
  <2>10. \A j, k \in 1 .. Len(order') : j < k => order'[j] < order'[k]
    BY <1>0, <2>3, <2>5, <2>8
  <2>11. \A j \in 1 .. Len(order') : order'[j] <= arrived
    BY <1>0, <2>5, <2>9
  <2>12. \A k \in 1 .. Len(deferred'), j \in 1 .. Len(order') : IsRequest(deferred'[k]) =>
           order'[j] < deferred'[k].id
    BY <1>0, <2>3, <2>6, <2>8
  <2> QED BY <2>1, <2>4, <2>5, <2>6, <2>7, <2>10, <2>11, <2>12
<1>4. CASE Begins
  <2>1. /\ arrived' = arrived + 1 /\ current' = arrived + 1 /\ deferred' = <<>> /\ Len(deferred') = 0
        /\ order' = Append(order, arrived + 1) \/ order' = order
    BY <1>4 DEF Begins, Counted
  <2>2. CASE order' = order
    BY <1>0, <2>1, <2>2
  <2>3. CASE order' = Append(order, arrived + 1)
    <3>1. arrived + 1 \in RequestIds
      BY <1>4, SessionAssumption DEF Begins, Counted, RequestTypes, RequestIds
    <3>2. /\ Len(order') = Len(order) + 1
          /\ \A j \in 1 .. Len(order) : order'[j] = order[j]
          /\ order'[Len(order) + 1] = arrived + 1
      BY <2>3, <3>1, DeferredShape
    <3>3. \A j \in 1 .. Len(order') : j \in 1 .. Len(order) \/ j = Len(order) + 1
      BY <1>0, <3>2
    <3>4. \A j \in 1 .. Len(order') : order'[j] <= arrived'
      BY <1>0, <2>1, <3>2, <3>3
    <3>5. \A j, k \in 1 .. Len(order') : j < k => order'[j] < order'[k]
      <4> SUFFICES ASSUME NEW j \in 1 .. Len(order'), NEW k \in 1 .. Len(order'), j < k
                   PROVE  order'[j] < order'[k]
        OBVIOUS
      <4>1. j \in 1 .. Len(order)
        BY <1>0, <3>2
      <4>2. CASE k \in 1 .. Len(order)
        BY <3>2, <4>1, <4>2
      <4>3. CASE k = Len(order) + 1
        <5>1. order'[j] = order[j] /\ order'[k] = arrived + 1
          BY <3>2, <4>1, <4>3
        <5>2. order[j] <= arrived /\ order[j] \in Nat
          BY <1>0, <4>1
        <5> QED BY <1>0, <5>1, <5>2
      <4> QED BY <3>3, <4>2, <4>3
    <3> QED BY <1>0, <2>1, <3>4, <3>5
  <2> QED BY <2>1, <2>2, <2>3
<1>5. CASE AnswersNow
  BY <1>0, <1>5 DEF AnswersNow, Counted
<1>6. CASE PutsOff
  <2>1. PICK m \in Request : Deferrable(m) /\ deferred' = Append(deferred, m)
    BY <1>6 DEF PutsOff
  <2>2. /\ Len(deferred') = Len(deferred) + 1
        /\ \A k \in 1 .. Len(deferred) : deferred'[k] = deferred[k]
        /\ deferred'[Len(deferred) + 1] = m
    BY <2>1, DeferredShape
  <2>3. \A k \in 1 .. Len(deferred') : k \in 1 .. Len(deferred) \/ k = Len(deferred) + 1
    BY <1>0, <2>2
  <2>4. arrived' = arrived + 1 /\ UNCHANGED <<current, order>>
    BY <1>6 DEF PutsOff, Counted
  <2>5. m.id = arrived + 1 /\ (m.kind \in {"cancel", "result"} => m.task \in Tasks)
    BY <2>1 DEF Deferrable
  <2>6. \A k \in 1 .. Len(deferred') : IsRequest(deferred'[k]) =>
          /\ deferred'[k].id <= arrived'
          /\ current' < deferred'[k].id
          /\ \A j \in 1 .. Len(order) : order[j] < deferred'[k].id
          /\ deferred'[k].kind \in {"cancel", "result"} => deferred'[k].task \in Tasks
    BY SMTT(40), <1>0, <2>2, <2>3, <2>4, <2>5
  <2>7. \A k, l \in 1 .. Len(deferred') :
          k < l /\ IsRequest(deferred'[k]) /\ IsRequest(deferred'[l]) => deferred'[k].id < deferred'[l].id
    <3> SUFFICES ASSUME NEW k \in 1 .. Len(deferred'), NEW l \in 1 .. Len(deferred'), k < l,
                        IsRequest(deferred'[k]), IsRequest(deferred'[l])
                 PROVE  deferred'[k].id < deferred'[l].id
      OBVIOUS
    <3>1. k \in 1 .. Len(deferred)
      BY <1>0, <2>2
    <3>2. CASE l \in 1 .. Len(deferred)
      BY <2>2, <3>1, <3>2
    <3>3. CASE l = Len(deferred) + 1
      <4>1. deferred'[k] = deferred[k] /\ deferred'[l].id = arrived + 1
        BY <2>2, <2>5, <3>1, <3>3
      <4>2. deferred[k].id <= arrived /\ deferred[k].id \in Nat
        BY <1>0, <3>1, <4>1
      <4> QED BY <1>0, <4>1, <4>2
    <3> QED BY <2>3, <3>2, <3>3
  <2>8. /\ current <= arrived' /\ \A j \in 1 .. Len(order) : order[j] <= arrived'
    BY <1>0, <2>4
  <2> QED BY <2>4, <2>6, <2>7, <2>8
<1>7. CASE PutsOffWithdrawal
  <2>1. PICK m \in Withdrawal : deferred' = Append(deferred, m)
    BY <1>7 DEF PutsOffWithdrawal
  <2>2. /\ Len(deferred') = Len(deferred) + 1
        /\ \A k \in 1 .. Len(deferred) : deferred'[k] = deferred[k]
        /\ deferred'[Len(deferred) + 1] = m
    BY <2>1, DeferredShape
  <2>3. \A k \in 1 .. Len(deferred') : IsRequest(deferred'[k]) =>
          k \in 1 .. Len(deferred) /\ deferred'[k] = deferred[k]
    BY <1>0, <2>2 DEF IsRequest, Withdrawal
  <2>4. UNCHANGED <<current, arrived, order>>
    BY <1>7 DEF PutsOffWithdrawal
  <2> QED BY <1>0, <2>3, <2>4
<1>8. CASE Ignores
  BY <1>0, <1>8 DEF Ignores, Counted
<1>9. CASE Replies
  BY <1>0, <1>9 DEF Replies
<1> QED BY <1>1, <1>2, <1>3, <1>4, <1>5, <1>6, <1>7, <1>8, <1>9 DEF RequestMove

\* Whom the loop still owes an answer, after each kind of step.
LEMMA OwingStep ==
    ASSUME RequestTypes, Queued, RequestMove, NEW i \in RequestIds
    PROVE  /\ Keeps \/ TakesWithdrawal \/ TakesRequest \/ AnswersNow \/ PutsOffWithdrawal \/ Ignores
                 => (Owing(i)' <=> Owing(i))
           /\ Begins \/ PutsOff => (Owing(i)' <=> Owing(i) \/ i = arrived + 1)
           /\ Replies => (Owing(i)' <=> Owing(i) /\ i # current)
           /\ Owing(i) => i <= arrived
<1>0. /\ i \in Nat /\ 0 < i /\ NoRequest = 0
      /\ Len(deferred) \in Nat
      /\ \A k \in 1 .. Len(deferred) : IsRequest(deferred[k]) => deferred[k].id \in Nat
      /\ current \in Nat
  BY SessionAssumption, DeferredShape DEF RequestTypes, RequestIds, NoRequest
<1>1. Owing(i) => i <= arrived
  BY DEF Owing, Queued
<1>2. ASSUME Keeps \/ AnswersNow \/ Ignores PROVE Owing(i)' <=> Owing(i)
  <2>1. UNCHANGED <<current, deferred>>
    BY <1>2 DEF Keeps, AnswersNow, Ignores
  <2> QED BY <2>1 DEF Owing
<1>3. ASSUME TakesWithdrawal \/ TakesRequest PROVE Owing(i)' <=> Owing(i)
  <2>1. /\ Len(deferred') = Len(deferred) - 1
        /\ \A k \in 1 .. Len(deferred') : deferred'[k] = deferred[k + 1]
        /\ 1 \in 1 .. Len(deferred)
    BY <1>3, DeferredShape DEF TakesWithdrawal, TakesRequest
  <2>2. \/ current' = current /\ ~IsRequest(deferred[1])
        \/ current = NoRequest /\ current' = deferred[1].id /\ IsRequest(deferred[1])
    BY <1>3, DeferredShape DEF TakesWithdrawal, TakesRequest
  <2> DEFINE later == \E k \in 1 .. Len(deferred) : k # 1 /\ IsRequest(deferred[k]) /\ deferred[k].id = i
             rest  == \E k \in 1 .. Len(deferred') : IsRequest(deferred'[k]) /\ deferred'[k].id = i
  <2>3. rest => later
    <3> SUFFICES ASSUME NEW k \in 1 .. Len(deferred'), IsRequest(deferred'[k]), deferred'[k].id = i
                 PROVE  later
      OBVIOUS
    <3>1. k + 1 \in 1 .. Len(deferred) /\ k + 1 # 1
      BY <1>0, <2>1
    <3> QED BY <2>1, <3>1
  <2>4. later => rest
    <3> SUFFICES ASSUME NEW k \in 1 .. Len(deferred), k # 1, IsRequest(deferred[k]), deferred[k].id = i
                 PROVE  rest
      OBVIOUS
    <3>1. k - 1 \in 1 .. Len(deferred') /\ (k - 1) + 1 = k
      BY <1>0, <2>1
    <3>2. deferred'[k - 1] = deferred[k]
      BY <2>1, <3>1
    <3> QED BY <3>1, <3>2
  <2>5. Owing(i)' <=> i = current' \/ rest
    BY DEF Owing
  <2>6. Owing(i) <=> i = current \/ (IsRequest(deferred[1]) /\ deferred[1].id = i) \/ later
    BY <2>1 DEF Owing
  <2> HIDE DEF later, rest
  <2> QED BY <1>0, <2>2, <2>3, <2>4, <2>5, <2>6
<1>4. ASSUME PutsOffWithdrawal \/ PutsOff, NEW m \in Request \cup Withdrawal,
             deferred' = Append(deferred, m), current' = current
      PROVE  Owing(i)' <=> Owing(i) \/ (IsRequest(m) /\ m.id = i)
  <2>1. /\ Len(deferred') = Len(deferred) + 1
        /\ \A k \in 1 .. Len(deferred) : deferred'[k] = deferred[k]
        /\ deferred'[Len(deferred) + 1] = m
    BY <1>4, DeferredShape
  <2>2. 1 .. Len(deferred') = 1 .. Len(deferred) \cup {Len(deferred) + 1}
    BY <1>0, <2>1
  <2> QED BY <1>4, <2>1, <2>2 DEF Owing
<1>5. ASSUME PutsOffWithdrawal PROVE Owing(i)' <=> Owing(i)
  <2>1. PICK m \in Withdrawal : deferred' = Append(deferred, m)
    BY <1>5 DEF PutsOffWithdrawal
  <2>2. ~IsRequest(m)
    BY <2>1 DEF IsRequest, Withdrawal
  <2>3. current' = current
    BY <1>5 DEF PutsOffWithdrawal
  <2> QED BY <1>4, <1>5, <2>1, <2>2, <2>3
<1>6. ASSUME PutsOff PROVE Owing(i)' <=> Owing(i) \/ i = arrived + 1
  <2>1. PICK m \in Request : Deferrable(m) /\ deferred' = Append(deferred, m)
    BY <1>6 DEF PutsOff
  <2>2. IsRequest(m) /\ m.id = arrived + 1
    BY <2>1 DEF IsRequest, Deferrable, Request, AllKinds
  <2>3. current' = current
    BY <1>6 DEF PutsOff
  <2> QED BY <1>4, <1>6, <2>1, <2>2, <2>3
<1>7. ASSUME Begins PROVE Owing(i)' <=> Owing(i) \/ i = arrived + 1
  <2>1. /\ Len(deferred) = 0 /\ Len(deferred') = 0
        /\ current = NoRequest /\ current' = arrived + 1
    BY <1>7 DEF Begins
  <2> QED BY <1>0, <2>1 DEF Owing
<1>8. ASSUME Replies PROVE Owing(i)' <=> Owing(i) /\ i # current
  <2>1. deferred' = deferred /\ current' = NoRequest
    BY <1>8 DEF Replies
  <2>2. \A k \in 1 .. Len(deferred) : IsRequest(deferred[k]) => deferred[k].id # current
    BY <1>0 DEF Queued
  <2> QED BY <1>0, <2>1, <2>2 DEF Owing
<1> QED BY <1>1, <1>2, <1>3, <1>5, <1>6, <1>7, <1>8

\* The step keeps the ledger: what is answered was owed, or has just arrived.
LEMMA LedgerStep ==
    ASSUME RequestTypes, Queued, Ledger, RequestMove
    PROVE  Ledger'
<1> SUFFICES ASSUME NEW i \in RequestIds
             PROVE  /\ answers'[i] \in {0, 1}
                    /\ i > arrived' \/ Owing(i)' => answers'[i] = 0
                    /\ ~broken' /\ i <= arrived' /\ i \notin ignored' /\ ~Owing(i)' => answers'[i] = 1
  BY DEF Ledger
<1>0. /\ i \in Nat /\ 0 < i /\ arrived \in Nat
      /\ answers \in [RequestIds -> Nat]
      /\ answers[i] \in {0, 1}
      /\ i > arrived \/ Owing(i) => answers[i] = 0
      /\ ~broken /\ i <= arrived /\ i \notin ignored /\ ~Owing(i) => answers[i] = 1
  BY SessionAssumption DEF RequestTypes, RequestIds, Ledger
<1>1. Owing(i) => i <= arrived
  BY OwingStep
<1>2. CASE Keeps \/ TakesWithdrawal \/ TakesRequest \/ PutsOffWithdrawal
  <2>1. /\ UNCHANGED <<arrived, answers, ignored>>
        /\ broken => broken'
    BY <1>2 DEF Keeps, TakesWithdrawal, TakesRequest, PutsOffWithdrawal
  <2>2. Owing(i)' <=> Owing(i)
    BY <1>2, OwingStep
  <2> QED BY <1>0, <2>1, <2>2
<1>3. CASE Begins \/ PutsOff
  <2>1. UNCHANGED <<answers, ignored, broken>> /\ arrived' = arrived + 1
    BY <1>3 DEF Begins, PutsOff, Counted
  <2>2. Owing(i)' <=> Owing(i) \/ i = arrived + 1
    BY <1>3, OwingStep
  <2> QED BY <1>0, <1>1, <2>1, <2>2
<1>4. CASE AnswersNow
  <2>1. UNCHANGED <<ignored, broken>> /\ arrived' = arrived + 1
    BY <1>4 DEF AnswersNow, Counted
  <2>2. answers'[i] = IF ~broken /\ i = arrived + 1 THEN answers[i] + 1 ELSE answers[i]
    BY <1>0, <1>4 DEF AnswersNow, Answer
  <2>3. Owing(i)' <=> Owing(i)
    BY <1>4, OwingStep
  <2> QED BY <1>0, <1>1, <2>1, <2>2, <2>3
<1>5. CASE Ignores
  <2>1. /\ UNCHANGED <<answers, broken>> /\ arrived' = arrived + 1
        /\ ignored' = ignored \cup {arrived + 1}
    BY <1>5 DEF Ignores, Counted
  <2>2. Owing(i)' <=> Owing(i)
    BY <1>5, OwingStep
  <2> QED BY <1>0, <1>1, <2>1, <2>2
<1>6. CASE Replies
  <2>1. UNCHANGED <<arrived, ignored, broken>>
    BY <1>6 DEF Replies
  <2>2. answers'[i] = IF ~broken /\ i = current THEN answers[i] + 1 ELSE answers[i]
    BY <1>0, <1>6 DEF Replies, Answer
  <2>3. Owing(i)' <=> Owing(i) /\ i # current
    BY <1>6, OwingStep
  <2>4. i = current => Owing(i)
    BY DEF Owing
  <2> QED BY <1>0, <1>1, <2>1, <2>2, <2>3, <2>4
<1> QED BY <1>2, <1>3, <1>4, <1>5, <1>6 DEF RequestMove

-----------------------------------------------------------------------------
(* The tasks, and what the loop does for them *)

\* A task's record moves to a phase or stays where it is.
LEMMA MoveTyped ==
    ASSUME life \in [Tasks -> Life!Phases], NEW t \in Tasks, NEW to \in Life!Phases, MoveTask(t, to)
    PROVE  life' \in [Tasks -> Life!Phases]
BY DEF MoveTask

\* What dispatching a request does besides taking it in hand: a task may be born,
\* behind a shut gate, and its answer is then the next thing written.
LEMMA DispatchShape ==
    ASSUME TypeOK, NEW m, Dispatch(m), m.kind \in {"cancel", "result"} => m.task \in Tasks
    PROVE  /\ mode' \in {"replying", "direct", "pumpLook"}
           /\ target' \in Tasks \cup {NoTask}
           /\ mode' = "pumpLook" => target' # NoTask
           /\ initialized' \in BOOLEAN
           /\ life' \in [Tasks -> Life!Phases]
           /\ stopped' \subseteq Tasks
           /\ \/ UNCHANGED <<born, gate, worker>>
              \/ \E t \in Tasks :
                    /\ mode' = "replying"
                    /\ born' = t
                    /\ gate' = [gate EXCEPT ![t] = "shut"]
                    /\ worker' = [worker EXCEPT ![t] = "gated"]
<1>1. initialized' \in BOOLEAN
  BY DEF Dispatch, TypeOK
<1>2. mode' \in {"replying", "direct", "pumpLook"} /\ target' \in Tasks \cup {NoTask}
  BY DEF Dispatch, TypeOK
<1>3. mode' = "pumpLook" => target' # NoTask
  BY SessionAssumption DEF Dispatch
<1>4. stopped' \subseteq Tasks
  BY DEF Dispatch, TypeOK, taskVars
<1>5. life' \in [Tasks -> Life!Phases]
  <2>1. "cancelled" \in Life!Phases /\ "working" \in Life!Phases /\ "failed" \in Life!Phases
    BY DEF Life!Phases, Life!Terminal
  <2>2. life \in [Tasks -> Life!Phases]
    BY DEF TypeOK
  <2> QED BY <2>1, <2>2, MoveTyped DEF Dispatch, taskVars
<1>6. \/ UNCHANGED <<born, gate, worker>>
      \/ \E t \in Tasks :
            /\ mode' = "replying"
            /\ born' = t
            /\ gate' = [gate EXCEPT ![t] = "shut"]
            /\ worker' = [worker EXCEPT ![t] = "gated"]
  BY DEF Dispatch, taskVars
<1> QED BY <1>1, <1>2, <1>3, <1>4, <1>5, <1>6

\* The types that are not the requests'.
TaskTypes ==
    /\ mode \in Modes
    /\ target \in Tasks \cup {NoTask}
    /\ born \in Tasks \cup {NoTask}
    /\ initialized \in BOOLEAN
    /\ life \in [Tasks -> Life!Phases]
    /\ worker \in [Tasks -> Workers]
    /\ gate \in [Tasks -> {"none", "shut", "open"}]
    /\ stopped \subseteq Tasks
    /\ asked \subseteq Tasks
    /\ heard \subseteq Tasks
    /\ responded \subseteq Tasks
    /\ withdrawn \subseteq Tasks
    /\ announced \subseteq Tasks
    /\ spoken \subseteq Tasks
    /\ broken \in BOOLEAN
    /\ eof \in BOOLEAN
    /\ mode \in {"idle", "closed"} <=> current = NoRequest
    /\ mode \in {"pumpLook", "pumpRead"} => target # NoTask

\* The two halves make up the type invariant.
LEMMA TypesSplit == TypeOK <=> RequestTypes /\ TaskTypes
  BY DEF TypeOK, RequestTypes, TaskTypes

\* Every step keeps the types.
LEMMA TaskTypesStep ==
    ASSUME TypeOK, Queued, [Next]_vars
    PROVE  TaskTypes'
<1> USE DEF TaskTypes, Modes, Workers
<1>0. /\ {"working", "input_required", "cancelled", "completed", "purged"} \subseteq Life!Phases
      /\ \A i \in RequestIds : i # NoRequest
      /\ arrived < MaxRequests => arrived + 1 # NoRequest
  BY SessionAssumption DEF Life!Phases, Life!Terminal, RequestIds, NoRequest, TypeOK
<1>1. ASSUME NEW m, Dispatch(m), m.kind \in {"cancel", "result"} => m.task \in Tasks,
             m.id # NoRequest, UNCHANGED <<asked, responded, withdrawn, announced, spoken, broken, eof>>,
             heard' \subseteq Tasks
      PROVE  TaskTypes'
  <2>1. current' = m.id
    BY <1>1 DEF Dispatch
  <2>2. /\ mode' \in {"replying", "direct", "pumpLook"}
        /\ target' \in Tasks \cup {NoTask}
        /\ mode' = "pumpLook" => target' # NoTask
        /\ initialized' \in BOOLEAN
        /\ life' \in [Tasks -> Life!Phases]
        /\ stopped' \subseteq Tasks
    BY <1>1, DispatchShape
  <2>3. /\ born' \in Tasks \cup {NoTask}
        /\ worker' \in [Tasks -> Workers]
        /\ gate' \in [Tasks -> {"none", "shut", "open"}]
    <3>1. \/ UNCHANGED <<born, gate, worker>>
          \/ \E t \in Tasks :
                /\ born' = t
                /\ gate' = [gate EXCEPT ![t] = "shut"]
                /\ worker' = [worker EXCEPT ![t] = "gated"]
      BY <1>1, DispatchShape
    <3> QED BY <3>1 DEF TypeOK
  <2> QED BY <1>1, <2>1, <2>2, <2>3 DEF TypeOK
<1>2. ASSUME NEW m \in Sendable, ReadRequest(m) PROVE TaskTypes'
  <2>1. Deferrable(m) /\ m.id # NoRequest
    BY <1>0, <1>2, SendableShape DEF ReadRequest, Arrives
  <2> QED BY <1>1, <1>2, <2>1 DEF ReadRequest, Deferrable, askVars, wireVars, TypeOK
<1>3. CASE TakeDeferred
  <2>1. /\ Head(deferred) = deferred[1] /\ 1 \in 1 .. Len(deferred)
        /\ Head(deferred) \in Request \cup Withdrawal
    BY <1>3 DEF TakeDeferred, TypeOK
  <2>2. CASE Head(deferred).kind = "withdrawal"
    <3>1. Head(deferred).task \in Tasks
      BY <2>1, <2>2 DEF Request, Withdrawal, AllKinds
    <3> QED BY <1>3, <2>2, <3>1 DEF TakeDeferred, CancelWait, wireVars, taskVars, TypeOK
  <2>3. CASE Head(deferred).kind # "withdrawal"
    <3>1. /\ Head(deferred).id # NoRequest
          /\ Head(deferred).kind \in {"cancel", "result"} => Head(deferred).task \in Tasks
      BY <1>0, <2>1, <2>3 DEF Queued, IsRequest, Request, Withdrawal
    <3>2. /\ Dispatch(Head(deferred))
          /\ UNCHANGED <<asked, responded, withdrawn, announced, spoken, broken, eof, heard>>
      BY <1>3, <2>3 DEF TakeDeferred, wireVars
    <3> QED BY <1>1, <3>1, <3>2 DEF TypeOK
  <2> QED BY <2>2, <2>3
<1>4. ASSUME NEW m \in Sendable,
             PumpInline(m) \/ PumpDefersRequest(m) \/ DirectDefersRequest(m)
      PROVE  TaskTypes'
  <2>1. Deferrable(m)
    BY <1>4, SendableShape DEF PumpInline, PumpDefersRequest, DirectDefersRequest, Arrives
  <2>2. life' \in [Tasks -> Life!Phases]
    BY <1>0, <1>4, <2>1, MoveTyped
       DEF PumpInline, PumpDefersRequest, DirectDefersRequest, Deferrable, taskVars, TypeOK
  <2>3. stopped' \subseteq Tasks
    BY <1>4, <2>1 DEF PumpInline, PumpDefersRequest, DirectDefersRequest, Deferrable, taskVars, TypeOK
  <2> QED BY <1>4, <2>2, <2>3
          DEF PumpInline, PumpDefersRequest, DirectDefersRequest, ReleaseTaskWorkers, taskVars, askVars,
              wireVars, TypeOK
<1>5. ASSUME NEW t \in Tasks,
             PumpDefersWithdrawal(t) \/ DirectDefersWithdrawal(t) \/ RouteResponse(t) \/ ReadWithdrawal(t)
      PROVE  TaskTypes'
  BY <1>5 DEF PumpDefersWithdrawal, DirectDefersWithdrawal, RouteResponse, ReadWithdrawal, CancelWait,
              loopVars, taskVars, wireVars, TypeOK
<1>6. ASSUME NEW t \in Tasks, WorkerStep(t) \/ Purge(t) PROVE TaskTypes'
  <2>1. life' \in [Tasks -> Life!Phases]
    BY <1>0, <1>6, MoveTyped DEF WorkerStep, PassGate, Speak, AskClient, MarkInputRequired, WaitEnds,
                                 Finish, Purge, TypeOK
  <2> QED BY ZenonT(60), <1>6, <2>1 DEF WorkerStep, PassGate, Speak, AskClient, MarkInputRequired, WaitEnds, Finish,
                            Purge, SayFor, unlooped, loopVars, askVars, wireVars, TypeOK
<1>7. CASE ReadMalformed \/ PumpMalformed \/ DirectMalformed
  BY <1>0, <1>7 DEF ReadMalformed, PumpMalformed, DirectMalformed, ReleaseTaskWorkers, taskVars, askVars,
                    wireVars, TypeOK
<1>8. CASE WriteReply
  BY <1>8 DEF WriteReply, ReleaseTaskWorkers, askVars, TypeOK
<1>9. CASE \/ PumpLook \/ PumpTimesOut \/ ReadCloses \/ PumpCloses
           \/ DirectHeard \/ DirectGivesUp \/ ClientHangsUp \/ SinkBreaks
  BY <1>9 DEF PumpLook, PumpTimesOut, ReadCloses, PumpCloses, DirectHeard, DirectGivesUp, DirectEnds,
              ClientHangsUp, SinkBreaks, Reading, loopVars, taskVars, askVars, wireVars, TypeOK
<1>10. CASE UNCHANGED vars
  BY <1>10 DEF vars, loopVars, taskVars, askVars, wireVars, TypeOK
<1> QED BY <1>2, <1>3, <1>4, <1>5, <1>6, <1>7, <1>8, <1>9, <1>10 DEF Next, ClientStep, LoopStep

\* A step that announces nothing and opens no gate: workers may pass a gate that is
\* open already, and speak behind one.
LEMMA GatesUndisturbed ==
    ASSUME TypeOK, Gates, config' = config,
           UNCHANGED <<born, gate, announced>>, broken => broken',
           mode' = mode \/ born = NoTask,
           \A t \in Tasks : worker'[t] \notin {"none", "gated"} =>
               worker[t] \notin {"none", "gated"} \/ gate[t] = "open" \/ config.slowReply,
           \A t \in spoken' \ spoken : t \in Tasks /\ worker[t] = "running" /\ ~broken
    PROVE  Gates'
BY DEF Gates

\* Every step keeps a task's announcement before what its worker says.
LEMMA GatesStep ==
    ASSUME TypeOK, Queued, Gates, [Next]_vars
    PROVE  Gates'
<1>1. config' = config
  BY DEF Next, vars
<1>2. ASSUME NEW m, Dispatch(m), m.kind \in {"cancel", "result"} => m.task \in Tasks, mode = "idle",
             UNCHANGED wireVars
      PROVE  Gates'
  <2>1. born = NoTask /\ UNCHANGED <<announced, spoken, broken>>
    BY <1>2 DEF Gates, wireVars
  <2>2. CASE UNCHANGED <<born, gate, worker>>
    BY <1>1, <2>1, <2>2 DEF Gates
  <2>3. CASE ~UNCHANGED <<born, gate, worker>>
    <3>1. PICK t \in Tasks : /\ mode' = "replying"
                             /\ born' = t
                             /\ gate' = [gate EXCEPT ![t] = "shut"]
                             /\ worker' = [worker EXCEPT ![t] = "gated"]
      BY <1>2, <2>3, DispatchShape
    <3>2. gate \in [Tasks -> {"none", "shut", "open"}] /\ worker \in [Tasks -> Workers]
      BY DEF TypeOK
    <3> QED BY <1>1, <2>1, <3>1, <3>2, SessionAssumption DEF Gates
  <2> QED BY <2>2, <2>3
<1>3. ASSUME NEW m \in Sendable, ReadRequest(m) PROVE Gates'
  BY <1>2, <1>3, SendableShape DEF ReadRequest, Reading, Arrives, Deferrable
<1>4. CASE TakeDeferred
  <2>1. /\ Head(deferred) = deferred[1] /\ 1 \in 1 .. Len(deferred) /\ mode = "idle"
    BY <1>4 DEF TakeDeferred, TypeOK
  <2>2. CASE Head(deferred).kind = "withdrawal"
    BY <1>1, <1>4, <2>2 DEF TakeDeferred, wireVars, taskVars, Gates
  <2>3. CASE Head(deferred).kind # "withdrawal"
    <3>1. Head(deferred).kind \in {"cancel", "result"} => Head(deferred).task \in Tasks
      BY <2>1, <2>3 DEF Queued, IsRequest
    <3> QED BY <1>2, <1>4, <2>1, <2>3, <3>1 DEF TakeDeferred
  <2> QED BY <2>2, <2>3
<1>5. ASSUME mode = "pumpRead", ReleaseTaskWorkers, UNCHANGED <<born, worker, wireVars>> PROVE Gates'
  <2>1. born = NoTask
    BY <1>5 DEF Gates
  <2>2. \A t \in Tasks : gate[t] # "shut"
    BY <2>1, SessionAssumption DEF Gates
  <2>3. gate' = gate
    BY <1>5, <2>2 DEF ReleaseTaskWorkers, TypeOK
  <2> QED BY <1>1, <1>5, <2>1, <2>3 DEF Gates, wireVars
<1>6. ASSUME NEW m \in Sendable, PumpInline(m) PROVE Gates'
  BY <1>5, <1>6 DEF PumpInline
<1>7. CASE PumpMalformed
  BY <1>5, <1>7 DEF PumpMalformed
<1>8. CASE WriteReply
  <2>1. /\ gate' = [t \in Tasks |-> IF gate[t] = "shut" THEN "open" ELSE gate[t]]
        /\ announced' = (IF broken \/ born = NoTask THEN announced ELSE announced \cup {born})
        /\ born' = NoTask
        /\ UNCHANGED <<worker, spoken, broken>>
    BY <1>8 DEF WriteReply, ReleaseTaskWorkers
  <2> QED BY <1>1, <2>1, SessionAssumption DEF Gates
<1>9. ASSUME NEW m \in Sendable, PumpDefersRequest(m) \/ DirectDefersRequest(m) PROVE Gates'
  <2>1. UNCHANGED <<born, taskVars, wireVars>> /\ mode \in {"pumpRead", "direct"}
    BY <1>9 DEF PumpDefersRequest, DirectDefersRequest
  <2> QED BY <1>1, <2>1 DEF Gates, taskVars, wireVars
<1>10. ASSUME NEW t \in Tasks,
              PumpDefersWithdrawal(t) \/ DirectDefersWithdrawal(t) \/ RouteResponse(t) \/ ReadWithdrawal(t)
       PROVE  Gates'
  <2>1. /\ UNCHANGED <<born, taskVars, wireVars>>
        /\ mode \in {"pumpRead", "direct", "idle"}
    BY <1>10 DEF PumpDefersWithdrawal, DirectDefersWithdrawal, RouteResponse, ReadWithdrawal, Reading,
                 loopVars
  <2> QED BY <1>1, <2>1 DEF Gates, taskVars, wireVars
<1>11. ASSUME NEW t \in Tasks, WorkerStep(t) \/ Purge(t) PROVE Gates'
  <2>1. UNCHANGED <<born, gate, announced, mode, broken>>
    BY <1>11 DEF WorkerStep, PassGate, Speak, AskClient, MarkInputRequired, WaitEnds, Finish, Purge,
                 unlooped, loopVars, wireVars
  <2>2. \/ worker' = worker
        \/ /\ \E to \in Workers : worker' = [worker EXCEPT ![t] = to]
           /\ worker[t] \notin {"none", "gated"} \/ gate[t] = "open" \/ config.slowReply
    BY <1>11 DEF WorkerStep, PassGate, Speak, AskClient, MarkInputRequired, WaitEnds, Finish, Purge,
                 Workers
  <2>3. spoken' = spoken \/ (spoken' = spoken \cup {t} /\ worker[t] = "running" /\ ~broken)
    BY <1>11 DEF WorkerStep, PassGate, Speak, AskClient, MarkInputRequired, WaitEnds, Finish, Purge,
                 SayFor, wireVars
  <2>4. worker \in [Tasks -> Workers]
    BY DEF TypeOK
  <2>5. \A u \in Tasks : worker'[u] \notin {"none", "gated"} =>
            worker[u] \notin {"none", "gated"} \/ gate[u] = "open" \/ config.slowReply
    BY <2>2, <2>4
  <2> QED BY <1>1, <2>1, <2>3, <2>5, GatesUndisturbed
<1>12. CASE ReadMalformed \/ DirectMalformed
  <2>1. UNCHANGED <<born, taskVars, announced, spoken, broken>> /\ mode \in {"idle", "direct"}
    BY <1>12 DEF ReadMalformed, DirectMalformed, Reading, wireVars
  <2> QED BY <1>1, <2>1 DEF Gates, taskVars
<1>13. CASE \/ PumpLook \/ PumpTimesOut \/ ReadCloses \/ PumpCloses \/ DirectHeard \/ DirectGivesUp
  <2>1. UNCHANGED <<born, taskVars, wireVars>> /\ mode # "replying"
    BY <1>13 DEF PumpLook, PumpTimesOut, ReadCloses, PumpCloses, DirectHeard, DirectGivesUp, DirectEnds,
                 Reading
  <2> QED BY <1>1, <2>1 DEF Gates, taskVars, wireVars
<1>14. CASE ClientHangsUp \/ SinkBreaks \/ UNCHANGED vars
  <2>1. UNCHANGED <<mode, born, taskVars, announced, spoken>> /\ (broken => broken')
    BY <1>14 DEF ClientHangsUp, SinkBreaks, vars, loopVars, wireVars
  <2> QED BY <1>1, <2>1 DEF Gates, taskVars
<1> QED BY <1>3, <1>4, <1>6, <1>7, <1>8, <1>9, <1>10, <1>11, <1>12, <1>13, <1>14
        DEF Next, ClientStep, LoopStep

-----------------------------------------------------------------------------
(* The theorems *)

\* Initially nothing has arrived and no task is alive.
LEMMA InitSInv ==
    ASSUME Init
    PROVE  SInv
<1>1. /\ Len(<<>>) = 0 /\ <<>> \in Seq(Request \cup Withdrawal) /\ <<>> \in Seq(RequestIds)
  OBVIOUS
<1>2. TypeOK
  <2>1. RequestTypes
    BY <1>1, SessionAssumption DEF Init, RequestTypes, NoRequest
  <2>2. TaskTypes
    BY DEF Init, TaskTypes, Modes, Workers, Life!Phases
  <2> QED BY <2>1, <2>2, TypesSplit
<1>3. Queued
  BY <1>1, SessionAssumption DEF Init, Queued, ArrivalOrder, NoRequest
<1>4. Ledger
  BY <1>1, SessionAssumption DEF Init, Ledger, Owing, RequestIds, NoRequest
<1>5. Gates
  BY DEF Init, Gates
<1> QED BY <1>2, <1>3, <1>4, <1>5 DEF SInv

\* The invariant is inductive: it holds initially and every step keeps it.
THEOREM InvariantHolds == Spec => []SInv
<1>1. Init => SInv
  BY InitSInv
<1>2. SInv /\ [Next]_vars => SInv'
  <2> SUFFICES ASSUME SInv, [Next]_vars PROVE SInv'
    OBVIOUS
  <2>1. RequestMove /\ RequestTypes
    BY StepMoves, TypesSplit DEF SInv
  <2>2. TypeOK'
    <3>1. RequestTypes'
      BY <2>1, RequestTypesStep
    <3>2. TaskTypes'
      BY TaskTypesStep DEF SInv
    <3> QED BY <3>1, <3>2 DEF TypeOK, RequestTypes, TaskTypes
  <2>3. Queued' /\ Ledger'
    BY <2>1, QueuedStep, LedgerStep DEF SInv
  <2>4. Gates'
    BY GatesStep DEF SInv
  <2> QED BY <2>2, <2>3, <2>4 DEF SInv
<1> QED BY <1>1, <1>2, PTL DEF Spec

\* No request is answered twice, and none is forgotten: when the loop has nothing
\* in hand and nothing put off, nobody is owed anything.
THEOREM RequestsAccounted == Spec => []Accounted
<1>1. SInv => Accounted
  <2> SUFFICES ASSUME SInv PROVE Accounted
    OBVIOUS
  <2>1. AnsweredOnce
    BY DEF SInv, Ledger, AnsweredOnce
  <2>2. ASSUME Reading, ~broken, NEW i \in (1 .. arrived) \ ignored PROVE answers[i] = 1
    <3>1. i \in RequestIds /\ i <= arrived /\ i # NoRequest
      BY SessionAssumption DEF SInv, TypeOK, RequestIds, NoRequest
    <3>2. current = NoRequest /\ Len(deferred) = 0
      BY <2>2 DEF Reading, SInv, TypeOK
    <3>3. ~Owing(i)
      BY <3>1, <3>2 DEF Owing
    <3> QED BY <2>2, <3>1, <3>3 DEF SInv, Ledger
  <2> QED BY <2>1, <2>2 DEF Accounted, NoneForgotten
<1> QED BY <1>1, InvariantHolds, PTL

\* Requests are begun in the order they arrived, and a task is announced before
\* its worker is heard.
THEOREM ClientSeesOrder == Spec => []InOrder
<1>1. SInv => InOrder
  BY DEF SInv, Queued, Gates, InOrder, AnnouncedFirst
<1> QED BY <1>1, InvariantHolds, PTL

=============================================================================
