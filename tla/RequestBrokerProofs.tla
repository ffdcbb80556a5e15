------------------------ MODULE RequestBrokerProofs ------------------------
(***************************************************************************)
(* What TLAPS proves of RequestBroker, for any number of workers and       *)
(* requests and for queues of any length: the broker routes every response *)
(* to whoever waits for it, and keeps nothing for those who do not.        *)
(***************************************************************************)
EXTENDS RequestBroker, SequenceTheorems, WellFoundedInduction, TLAPS

-----------------------------------------------------------------------------
(* The queues *)

\* A set of naturals that is not empty has a least element.
LEMMA LeastNatural ==
    ASSUME NEW S, S \subseteq Nat, S # {}
    PROVE  Min(S) \in S
<1>1. PICK x \in S : \A y \in S : ~(<<y, x>> \in OpToRel(<, Nat))
  BY WFMin, NatLessThanWellFounded
<1>2. \A y \in S : x <= y
  <2> SUFFICES ASSUME NEW y \in S PROVE x <= y
    OBVIOUS
  <2>1. x \in Nat /\ y \in Nat
    OBVIOUS
  <2>2. ~(y < x)
    BY <1>1, <2>1 DEF OpToRel
  <2> QED BY <2>1, <2>2
<1> QED BY <1>2 DEF Min

\* Removing an id's first occurrence leaves a queue that is no longer and holds
\* nothing new; of a queue without repetitions, the id is gone.
LEMMA RemovedOnce ==
    ASSUME NEW queue \in Seq(Ids), NEW id
    PROVE  LET r == RemoveFirst(queue, id) IN
           /\ r \in Seq(Ids)
           /\ Len(r) <= Len(queue)
           /\ \A other : Contains(r, other) => Contains(queue, other)
           /\ IsInjective(queue) => IsInjective(r) /\ ~Contains(r, id)
<1> DEFINE r == RemoveFirst(queue, id)
           I == {i \in 1 .. Len(queue) : queue[i] = id}
<1>1. CASE I = {}
  <2>1. r = queue /\ ~Contains(queue, id)
    BY <1>1 DEF RemoveFirst, Contains
  <2>2. Len(queue) \in Nat
    OBVIOUS
  <2> QED BY <2>1, <2>2
<1>2. CASE I # {}
  <2> DEFINE p == Min(I)
  <2>1. p \in 1 .. Len(queue) /\ queue[p] = id
    <3>1. I \subseteq Nat
      OBVIOUS
    <3> HIDE DEF I
    <3>2. p \in I
      BY <1>2, <3>1, LeastNatural
    <3> HIDE DEF p
    <3> QED BY <3>2 DEF I
  <2>2. SelectInSeq(queue, LAMBDA v : v = id) = p
    BY <1>2 DEF SelectInSeq
  <2>3. r = SubSeq(queue, 1, p - 1) \o SubSeq(queue, p + 1, Len(queue))
    <3>1. \E i \in 1 .. Len(queue) : queue[i] = id
      BY <1>2
    <3> QED BY <2>2, <3>1 DEF RemoveFirst, RemoveAt
  <2> HIDE DEF p, I, r
  <2>4. Len(queue) \in Nat /\ p \in Nat /\ 1 <= p /\ p <= Len(queue)
    BY <2>1
  <2>5. /\ r \in Seq(Ids) /\ Len(r) = Len(queue) - 1
        /\ \A i \in 1 .. Len(queue) - 1 : r[i] = IF i < p THEN queue[i] ELSE queue[i + 1]
    <3> DEFINE a == SubSeq(queue, 1, p - 1)
               b == SubSeq(queue, p + 1, Len(queue))
    <3>1. /\ a \in Seq(Ids) /\ Len(a) = p - 1
          /\ \A i \in 1 .. p - 1 : a[i] = queue[i]
      BY <2>4
    <3>2. /\ b \in Seq(Ids) /\ Len(b) = Len(queue) - p
          /\ \A i \in 1 .. Len(queue) - p : b[i] = queue[i + p]
      BY <2>4
    <3>3. r = a \o b
      BY <2>3
    <3> HIDE DEF a, b
    <3>4. r \in Seq(Ids) /\ Len(r) = Len(queue) - 1
      <4>1. r \in Seq(Ids) /\ Len(r) = Len(a) + Len(b)
        BY <3>1, <3>2, <3>3, ConcatProperties
      <4> QED BY <2>4, <3>1, <3>2, <4>1
    <3>5. ASSUME NEW i \in 1 .. Len(queue) - 1
          PROVE  r[i] = IF i < p THEN queue[i] ELSE queue[i + 1]
      <4>1. CASE i < p
        BY <2>4, <3>1, <3>2, <3>3, <4>1
      <4>2. CASE ~(i < p)
        <5>1. r[i] = b[i - (p - 1)]
          BY <2>4, <3>1, <3>2, <3>3, <4>2
        <5>2. i - (p - 1) \in 1 .. Len(queue) - p /\ i - (p - 1) + p = i + 1
          BY <2>4, <4>2
        <5> QED BY <3>2, <4>2, <5>1, <5>2
      <4> QED BY <4>1, <4>2
    <3> QED BY <3>4, <3>5
  <2>6. ASSUME NEW other, Contains(r, other) PROVE Contains(queue, other)
    BY <2>4, <2>5, <2>6 DEF Contains
  <2>7. ASSUME IsInjective(queue) PROVE IsInjective(r) /\ ~Contains(r, id)
    <3> DEFINE from(i) == IF i < p THEN i ELSE i + 1
    <3>1. ASSUME NEW i \in 1 .. Len(r)
          PROVE  from(i) \in 1 .. Len(queue) /\ from(i) # p
      BY <2>4, <2>5
    <3>2. \A i \in 1 .. Len(r) : r[i] = queue[from(i)]
      BY <2>5
    <3>3. \A i, j \in 1 .. Len(r) : from(i) = from(j) => i = j
      BY <2>4
    <3> HIDE DEF from
    <3>4. \A i, j \in 1 .. Len(queue) : queue[i] = queue[j] => i = j
      BY <2>7 DEF IsInjective
    <3>5. DOMAIN r = 1 .. Len(r)
      BY <2>5
    <3>6. IsInjective(r)
      <4> SUFFICES ASSUME NEW i \in 1 .. Len(r), NEW j \in 1 .. Len(r), r[i] = r[j] PROVE i = j
        BY <3>5 DEF IsInjective
      <4>1. from(i) = from(j)
        BY <3>1, <3>2, <3>4
      <4> QED BY <3>3, <4>1
    <3>7. \A i \in 1 .. Len(r) : r[i] # id
      BY <2>1, <3>1, <3>2, <3>4
    <3> QED BY <3>6, <3>7 DEF Contains
  <2>8. Len(r) <= Len(queue)
    BY <2>4, <2>5
  <2> QED BY <2>5, <2>6, <2>7, <2>8 DEF r
<1> QED BY <1>1, <1>2

\* A push trims the queue to its ceiling, and brings in the new id only.
LEMMA TrimmedPush ==
    ASSUME NEW queue \in Seq(Ids), NEW id \in Ids, NEW max \in Nat
    PROVE  LET t == Trimmed(Append(queue, id), max) IN
           /\ t \in Seq(Ids)
           /\ Len(t) <= max
           /\ \A other : Contains(t, other) => Contains(queue, other) \/ other = id
           /\ IsInjective(queue) /\ ~Contains(queue, id) => IsInjective(t)
<1> DEFINE q == Append(queue, id)
           n == Len(q) - max
           t == Trimmed(q, max)
<1>1. /\ q \in Seq(Ids) /\ Len(q) = Len(queue) + 1 /\ Len(queue) \in Nat
      /\ \A i \in 1 .. Len(queue) : q[i] = queue[i]
      /\ q[Len(queue) + 1] = id
  OBVIOUS
<1>2. \A other : Contains(q, other) => Contains(queue, other) \/ other = id
  BY <1>1 DEF Contains
<1>3. IsInjective(queue) /\ ~Contains(queue, id) => IsInjective(q)
  BY <1>1 DEF IsInjective, Contains
<1> HIDE DEF q
<1>4. CASE Len(q) > max
  <2>1. n \in Nat /\ n + max = Len(q) /\ n \in Nat
    BY <1>1, <1>4
  <2>2. t = SubSeq(q, n + 1, Len(q))
    BY <1>1, <1>4 DEF Trimmed
  <2>3. /\ t \in Seq(Ids) /\ Len(t) = max
        /\ \A i \in 1 .. max : t[i] = q[i + n]
    BY <1>1, <2>1, <2>2
  <2> HIDE DEF n, t
  <2>4. ASSUME NEW i \in 1 .. max PROVE i + n \in 1 .. Len(q)
    BY <1>1, <2>1
  <2>5. ASSUME NEW other, Contains(t, other) PROVE Contains(q, other)
    BY <2>3, <2>4, <2>5 DEF Contains
  <2>6. ASSUME IsInjective(q) PROVE IsInjective(t)
    <3> SUFFICES ASSUME NEW i \in 1 .. max, NEW j \in 1 .. max, t[i] = t[j] PROVE i = j
      BY <2>3 DEF IsInjective
    <3>1. i + n = j + n
      BY <1>1, <2>3, <2>4, <2>6 DEF IsInjective
    <3> QED BY <2>1, <3>1
  <2> QED BY <1>2, <1>3, <2>3, <2>5, <2>6 DEF t, q
<1>5. CASE ~(Len(q) > max)
  <2>1. t = q /\ Len(q) <= max
    BY <1>1, <1>5 DEF Trimmed
  <2> QED BY <1>1, <1>2, <1>3, <2>1 DEF t, q
<1> QED BY <1>4, <1>5

-----------------------------------------------------------------------------
(* The inductive invariant *)

\* Ids are issued once: no two calls have the same one, no call has the id of the
\* Direct wait, and only what has been issued is written, answered or returned from.
IdsAreOwned ==
    /\ \A w \in Workers : asking[w] < nextId /\ (at[w] # "idle" => asking[w] # NoId)
    /\ \A w, v \in Workers : asking[w] = asking[v] /\ asking[w] # NoId => w = v
    /\ direct # NoId => direct \in written /\ \A w \in Workers : asking[w] # direct
    /\ \A id \in written \cup over : id < nextId
    /\ answered \cup recalled \subseteq written
    /\ \A w \in Workers : at[w] \in {"allocated", "registered"} => asking[w] \notin written
    /\ \A w \in Workers : asking[w] \in over => at[w] = "idle"
    /\ reader # "reading" => routing # NoId

\* A sender is in one place - the map, the reader's hand or used - and what it
\* carried is in the channel of a call that still receives.
SendersHaveOnePlace ==
    /\ \A id \in inChannel : \E w \in Workers : asking[w] = id /\ at[w] \in {"registered", "waiting"}
    /\ waiters \cap inChannel = {}
    /\ reader = "send" =>
          /\ routing \notin waiters
          /\ routing < nextId
          /\ \A w \in Workers : at[w] = "allocated" => asking[w] # routing
    /\ NoWaiterLeaked

\* The sender of a call that can still receive is accounted for: nobody but the
\* client's withdrawal takes it away unused.
SendersAreKept ==
    /\ \A w \in Workers : at[w] \in {"registered", "waiting"} =>
          \/ asking[w] \in waiters \cup inChannel \cup withdrawn
          \/ reader = "send" /\ routing = asking[w]
    /\ reader \in AbandonSteps =>
          /\ routing < nextId
          /\ routing \in withdrawn \/ \A w \in Workers : asking[w] # routing

\* An answer or a withdrawal that was read takes the sender out of the map before
\* the reader turns to anything else.
ReaderFinishes ==
    \A w \in Workers : at[w] = "waiting" /\ asking[w] \in waiters =>
        /\ asking[w] \in answered => reader = "lookup" /\ routing = asking[w]
        /\ asking[w] \in recalled => reader \in {"unpark", "unregister"} /\ routing = asking[w]

\* A late answer is on its way to being dropped: its call is over, and while it is
\* looked up the id is still remembered.
LateIsDropped ==
    \A id \in late :
        /\ id \in over
        /\ ~Contains(parked, id)
        /\ routing = id => reader \notin {"send", "park"}
        /\ routing = id /\ reader \in {"lookup", "check"} => Contains(abandoned, id)

QueuesBounded ==
    /\ IsInjective(parked)
    /\ Len(parked) <= MaxParked /\ Len(abandoned) <= MaxAbandoned

BInv ==
    /\ TypeOK
    /\ IdsAreOwned
    /\ SendersHaveOnePlace
    /\ SendersAreKept
    /\ ReaderFinishes
    /\ LateIsDropped
    /\ QueuesBounded

-----------------------------------------------------------------------------
(* Every step keeps it *)

\* What one lock's worth of abandon() does to the collections it may touch.
LEMMA AbandonShape ==
    ASSUME TypeOK, NEW step \in AbandonSteps, NEW id \in Ids, Abandon(step, id)
    PROVE  /\ parked' \in Seq(Ids) /\ abandoned' \in Seq(Ids)
           /\ waiters' \subseteq waiters /\ waiters \ {id} \subseteq waiters'
           /\ step = "unregister" => id \notin waiters'
           /\ \A other : Contains(parked', other) => Contains(parked, other)
           /\ IsInjective(parked) => IsInjective(parked')
           /\ Len(parked') <= Len(parked)
           /\ Len(abandoned) <= MaxAbandoned => Len(abandoned') <= MaxAbandoned
<1> DEFINE r == RemoveFirst(parked, id)
           q == Trimmed(Append(abandoned, id), MaxAbandoned)
<1>1. /\ r \in Seq(Ids) /\ Len(r) <= Len(parked)
      /\ \A other : Contains(r, other) => Contains(parked, other)
      /\ IsInjective(parked) => IsInjective(r)
  BY RemovedOnce DEF TypeOK
<1>2. q \in Seq(Ids) /\ Len(q) <= MaxAbandoned
  BY TrimmedPush, BrokerAssumption DEF TypeOK
<1>3. parked' = r \/ parked' = parked
  BY DEF Abandon, Without
<1>4. abandoned' = q \/ abandoned' = abandoned
  BY DEF Abandon, Remembered
<1>5. /\ waiters' \subseteq waiters /\ waiters \ {id} \subseteq waiters'
      /\ step = "unregister" => id \notin waiters'
  BY DEF Abandon
<1>6. parked \in Seq(Ids) /\ abandoned \in Seq(Ids)
  BY DEF TypeOK
<1> HIDE DEF r, q
<1>7. Len(parked) \in Nat
  BY <1>6
<1> QED BY <1>1, <1>2, <1>3, <1>4, <1>5, <1>6, <1>7

\* Every step keeps the types.
LEMMA TypeStep ==
    ASSUME BInv, [Next]_vars
    PROVE  TypeOK'
<1>1. ASSUME NEW w \in Workers, Allocate(w) PROVE TypeOK'
  BY <1>1, BrokerAssumption DEF Allocate, queueVars, workerVars, readerVars, history, BInv,
     TypeOK, Ids, NoId, WorkerStates, ReaderStates, AbandonSteps
<1>2. ASSUME NEW w \in Workers, RegisterWaiter(w) PROVE TypeOK'
  BY ZenonT(60), <1>2, BrokerAssumption DEF RegisterWaiter, queueVars, workerVars, readerVars, history,
     BInv, TypeOK, Ids, NoId, WorkerStates, ReaderStates, AbandonSteps, IdsAreOwned
<1>3. ASSUME NEW w \in Workers, WriteRequest(w) PROVE TypeOK'
  BY ZenonT(60), <1>3, BrokerAssumption DEF WriteRequest, queueVars, workerVars, readerVars, history,
     BInv, TypeOK, Ids, NoId, WorkerStates, ReaderStates, AbandonSteps, IdsAreOwned
<1>4. ASSUME NEW w \in Workers, WriteFails(w) PROVE TypeOK'
  BY <1>4, BrokerAssumption DEF WriteFails, Leave, queueVars, workerVars, readerVars,
     history, BInv, TypeOK, Ids, NoId, WorkerStates, ReaderStates, AbandonSteps
<1>5. ASSUME NEW w \in Workers, GiveUp(w) PROVE TypeOK'
  BY <1>5, BrokerAssumption DEF GiveUp, Leave, queueVars, workerVars, readerVars, history,
     BInv, TypeOK, Ids, NoId, WorkerStates, ReaderStates, AbandonSteps
<1>6. ASSUME NEW w \in Workers, Receive(w) PROVE TypeOK'
  BY <1>6, BrokerAssumption DEF Receive, Leave, queueVars, workerVars, readerVars, history,
     BInv, TypeOK, Ids, NoId, WorkerStates, ReaderStates, AbandonSteps, IdsAreOwned
<1>7. ASSUME NEW w \in Workers, Disconnected(w) PROVE TypeOK'
  BY <1>7, BrokerAssumption DEF Disconnected, Leave, queueVars, workerVars, readerVars,
     history, BInv, TypeOK, Ids, NoId, WorkerStates, ReaderStates, AbandonSteps,
     IdsAreOwned
<1>8. ASSUME NEW w \in Workers, WorkerAbandons(w) PROVE TypeOK'
  <2>1. /\ at[w] \in AbandonSteps /\ asking[w] \in Ids
        /\ Abandon(at[w], asking[w])
    BY <1>8 DEF WorkerAbandons, BInv, TypeOK, IdsAreOwned, AbandonSteps
  <2>2. parked' \in Seq(Ids) /\ abandoned' \in Seq(Ids) /\ waiters' \subseteq waiters
    BY <2>1, AbandonShape DEF BInv
  <2>3. After(at[w], "idle") \in WorkerStates
    BY <2>1 DEF After, WorkerStates, AbandonSteps
  <2> QED BY <1>8, <2>1, <2>2, <2>3 DEF WorkerAbandons, readerVars, BInv, TypeOK
<1>9. ASSUME NEW w \in Workers, CancelTask(w) PROVE TypeOK'
  BY <1>9, BrokerAssumption DEF CancelTask, queueVars, workerVars, readerVars, history,
     BInv, TypeOK, Ids, NoId, WorkerStates, ReaderStates, AbandonSteps
<1>10. ASSUME NEW id \in Ids, ReadResponse(id) PROVE TypeOK'
  BY <1>10, BrokerAssumption DEF ReadResponse, Route, queueVars, workerVars, readerVars,
     history, BInv, TypeOK, Ids, NoId, WorkerStates, ReaderStates, AbandonSteps
<1>11. ASSUME NEW id \in Ids, ReadWithdrawal(id) PROVE TypeOK'
  BY <1>11, BrokerAssumption DEF ReadWithdrawal, Route, WasIssuedHere, queueVars,
     workerVars, readerVars, history, BInv, TypeOK, Ids, NoId, WorkerStates, ReaderStates,
     AbandonSteps
<1>12. CASE LookupWaiter
  BY <1>12, BrokerAssumption DEF LookupWaiter, Route, queueVars, workerVars, readerVars,
     history, BInv, TypeOK, Ids, NoId, WorkerStates, ReaderStates, AbandonSteps
<1>13. CASE SendToWaiter
  BY ZenonT(60), <1>13, BrokerAssumption DEF SendToWaiter, Route, queueVars, workerVars, readerVars,
     history, BInv, TypeOK, Ids, NoId, WorkerStates, ReaderStates, AbandonSteps,
     IdsAreOwned
<1>14. CASE CheckAbandoned
  BY <1>14, BrokerAssumption, RemovedOnce DEF CheckAbandoned, Route, WasIssuedHere,
     queueVars, workerVars, readerVars, history, BInv, TypeOK, Ids, NoId, WorkerStates,
     ReaderStates, AbandonSteps, Forgotten
<1>15. CASE Park
  <2>1. routing \in Ids
    BY <1>15 DEF Park, BInv, TypeOK, IdsAreOwned
  <2>2. parked' \in Seq(Ids)
    <3>1. Trimmed(Append(parked, routing), MaxParked) \in Seq(Ids)
      BY <2>1, TrimmedPush, BrokerAssumption DEF BInv, TypeOK
    <3> QED BY <1>15, <3>1 DEF Park, Parked, BInv, TypeOK
  <2> QED BY <1>15, <2>2 DEF Park, Route, workerVars, history, BInv, TypeOK, ReaderStates
<1>16. CASE ReaderAbandons
  <2>1. reader \in AbandonSteps /\ routing \in Ids /\ Abandon(reader, routing)
    BY <1>16 DEF ReaderAbandons, BInv, TypeOK, IdsAreOwned, AbandonSteps
  <2>2. parked' \in Seq(Ids) /\ abandoned' \in Seq(Ids) /\ waiters' \subseteq waiters
    BY <2>1, AbandonShape DEF BInv
  <2>3. After(reader, "reading") \in ReaderStates
    BY <2>1 DEF After, ReaderStates, AbandonSteps
  <2> QED BY <1>16, <2>1, <2>2, <2>3
          DEF ReaderAbandons, Route, workerVars, history, BInv, TypeOK
<1>17. CASE DirectAsk
  <2>1. nextId \in Ids /\ nextId + 1 \in 0 .. MaxRequests
    BY <1>17, BrokerAssumption DEF DirectAsk, BInv, TypeOK, Ids
  <2> QED BY <1>17, <2>1
          DEF DirectAsk, Route, queueVars, workerVars, BInv, TypeOK, ReaderStates, AbandonSteps
<1>18. CASE DirectAnswered
  BY <1>18, BrokerAssumption DEF DirectAnswered, DirectReturns, Route, queueVars,
     workerVars, readerVars, history, BInv, TypeOK, Ids, NoId, WorkerStates, ReaderStates,
     AbandonSteps
<1>19. CASE DirectTimesOut
  BY <1>19, BrokerAssumption DEF DirectTimesOut, DirectReturns, Route, queueVars,
     workerVars, readerVars, history, BInv, TypeOK, Ids, NoId, WorkerStates, ReaderStates,
     AbandonSteps
<1>20. CASE DirectReadFails
  BY <1>20, BrokerAssumption DEF DirectReadFails, DirectReturns, Route, queueVars,
     workerVars, readerVars, history, BInv, TypeOK, Ids, NoId, WorkerStates, ReaderStates,
     AbandonSteps
<1>21. CASE UNCHANGED vars
  BY <1>21 DEF vars, BInv, TypeOK, Ids, NoId, WorkerStates, ReaderStates, AbandonSteps
<1> QED BY <1>1, <1>2, <1>3, <1>4, <1>5, <1>6, <1>7, <1>8, <1>9, <1>10,
            <1>11, <1>12, <1>13, <1>14, <1>15, <1>16, <1>17, <1>18, <1>19, <1>20, <1>21
          DEF Next, WorkerStep, RoutingStep, DirectStep

\* Every step keeps the ids apart.
LEMMA IdsStep ==
    ASSUME BInv, [Next]_vars
    PROVE  IdsAreOwned'
<1>1. ASSUME NEW w \in Workers, Allocate(w) PROVE IdsAreOwned'
  BY <1>1, BrokerAssumption DEF Allocate, queueVars, workerVars, readerVars, history, BInv,
     TypeOK, Ids, NoId, IdsAreOwned
<1>2. ASSUME NEW w \in Workers, RegisterWaiter(w) PROVE IdsAreOwned'
  BY <1>2, BrokerAssumption DEF RegisterWaiter, queueVars, workerVars, readerVars, history,
     BInv, TypeOK, Ids, NoId, IdsAreOwned
<1>3. ASSUME NEW w \in Workers, WriteRequest(w) PROVE IdsAreOwned'
  BY <1>3, BrokerAssumption DEF WriteRequest, queueVars, workerVars, readerVars, history,
     BInv, TypeOK, Ids, NoId, IdsAreOwned
<1>4. ASSUME NEW w \in Workers, WriteFails(w) PROVE IdsAreOwned'
  BY <1>4, BrokerAssumption DEF WriteFails, Leave, queueVars, workerVars, readerVars,
     history, BInv, TypeOK, Ids, NoId, IdsAreOwned
<1>5. ASSUME NEW w \in Workers, GiveUp(w) PROVE IdsAreOwned'
  BY <1>5, BrokerAssumption DEF GiveUp, Leave, queueVars, workerVars, readerVars, history,
     BInv, TypeOK, Ids, NoId, IdsAreOwned
<1>6. ASSUME NEW w \in Workers, Receive(w) PROVE IdsAreOwned'
  BY ZenonT(60), <1>6, BrokerAssumption DEF Receive, Leave, queueVars, workerVars, readerVars, history,
     BInv, TypeOK, Ids, NoId, IdsAreOwned
<1>7. ASSUME NEW w \in Workers, Disconnected(w) PROVE IdsAreOwned'
  BY <1>7, BrokerAssumption DEF Disconnected, Leave, queueVars, workerVars, readerVars,
     history, BInv, TypeOK, Ids, NoId, IdsAreOwned
<1>8. ASSUME NEW w \in Workers, WorkerAbandons(w) PROVE IdsAreOwned'
  BY <1>8, BrokerAssumption DEF WorkerAbandons, After, AbandonSteps, queueVars, workerVars,
     readerVars, history, BInv, TypeOK, Ids, NoId, IdsAreOwned
<1>9. ASSUME NEW w \in Workers, CancelTask(w) PROVE IdsAreOwned'
  BY <1>9, BrokerAssumption DEF CancelTask, queueVars, workerVars, readerVars, history,
     BInv, TypeOK, Ids, NoId, IdsAreOwned
<1>10. ASSUME NEW id \in Ids, ReadResponse(id) PROVE IdsAreOwned'
  BY <1>10, BrokerAssumption DEF ReadResponse, Route, queueVars, workerVars, readerVars,
     history, BInv, TypeOK, Ids, NoId, IdsAreOwned
<1>11. ASSUME NEW id \in Ids, ReadWithdrawal(id) PROVE IdsAreOwned'
  BY <1>11, BrokerAssumption DEF ReadWithdrawal, Route, WasIssuedHere, queueVars,
     workerVars, readerVars, history, BInv, TypeOK, Ids, NoId, IdsAreOwned
<1>12. CASE LookupWaiter
  BY <1>12, BrokerAssumption DEF LookupWaiter, Route, queueVars, workerVars, readerVars,
     history, BInv, TypeOK, Ids, NoId, IdsAreOwned
<1>13. CASE SendToWaiter
  BY <1>13, BrokerAssumption DEF SendToWaiter, Route, queueVars, workerVars, readerVars,
     history, BInv, TypeOK, Ids, NoId, IdsAreOwned
<1>14. CASE CheckAbandoned
  BY <1>14, BrokerAssumption DEF CheckAbandoned, Route, WasIssuedHere, queueVars,
     workerVars, readerVars, history, BInv, TypeOK, Ids, NoId, IdsAreOwned
<1>15. CASE Park
  BY <1>15, BrokerAssumption DEF Park, Route, queueVars, workerVars, readerVars, history,
     BInv, TypeOK, Ids, NoId, IdsAreOwned
<1>16. CASE ReaderAbandons
  BY <1>16, BrokerAssumption DEF ReaderAbandons, After, AbandonSteps, Route, queueVars,
     workerVars, readerVars, history, BInv, TypeOK, Ids, NoId, IdsAreOwned
<1>17. CASE DirectAsk
  <2>1. /\ nextId \in Nat /\ nextId' = nextId + 1 /\ nextId # NoId
        /\ \A id \in written \cup over : id < nextId
        /\ \A w \in Workers : asking[w] # nextId /\ asking[w] < nextId'
    BY SMTT(40), <1>17, BrokerAssumption DEF DirectAsk, BInv, TypeOK, IdsAreOwned, Ids, NoId
  <2>2. \A id \in written \cup over \cup {nextId} : id < nextId'
    BY <2>1, BrokerAssumption DEF BInv, TypeOK, Ids
  <2> QED BY <1>17, <2>1, <2>2
          DEF DirectAsk, Route, queueVars, workerVars, BInv, TypeOK, IdsAreOwned
<1>18. CASE DirectAnswered
  BY <1>18, BrokerAssumption DEF DirectAnswered, DirectReturns, Route, queueVars,
     workerVars, readerVars, history, BInv, TypeOK, Ids, NoId, IdsAreOwned
<1>19. CASE DirectTimesOut
  BY <1>19, BrokerAssumption DEF DirectTimesOut, DirectReturns, Route, queueVars,
     workerVars, readerVars, history, BInv, TypeOK, Ids, NoId, IdsAreOwned
<1>20. CASE DirectReadFails
  BY <1>20, BrokerAssumption DEF DirectReadFails, DirectReturns, Route, queueVars,
     workerVars, readerVars, history, BInv, TypeOK, Ids, NoId, IdsAreOwned
<1>21. CASE UNCHANGED vars
  BY <1>21 DEF vars, BInv, TypeOK, Ids, NoId, IdsAreOwned
<1> QED BY <1>1, <1>2, <1>3, <1>4, <1>5, <1>6, <1>7, <1>8, <1>9, <1>10,
            <1>11, <1>12, <1>13, <1>14, <1>15, <1>16, <1>17, <1>18, <1>19, <1>20, <1>21
          DEF Next, WorkerStep, RoutingStep, DirectStep

\* Whoever stops receiving either has no sender left or goes on to take it back.
LEMMA LeavingPlaced ==
    ASSUME BInv, NEW w \in Workers, NEW next \in {"idle", "unpark"}, Leave(w, next),
           at[w] \in {"registered", "waiting"}, next = "idle" => asking[w] \notin waiters
    PROVE  SendersHaveOnePlace'
<1>1. /\ waiters' = waiters /\ asking' = asking /\ reader' = reader /\ routing' = routing
      /\ inChannel' = inChannel \ {asking[w]} /\ nextId' = nextId
      /\ at' = [at EXCEPT ![w] = next]
      /\ at \in [Workers -> WorkerStates]
  BY DEF Leave, readerVars, BInv, TypeOK
<1>2. \A id \in inChannel' : \E v \in Workers : asking'[v] = id /\ at'[v] \in {"registered", "waiting"}
  <2> SUFFICES ASSUME NEW id \in inChannel'
               PROVE  \E v \in Workers : asking'[v] = id /\ at'[v] \in {"registered", "waiting"}
    OBVIOUS
  <2>1. PICK v \in Workers : asking[v] = id /\ at[v] \in {"registered", "waiting"}
    BY <1>1 DEF BInv, SendersHaveOnePlace
  <2> QED BY <1>1, <2>1
<1>3. NoWaiterLeaked'
  <2> SUFFICES ASSUME NEW id \in waiters
               PROVE  \E v \in Workers : /\ asking'[v] = id
                                         /\ at'[v] \in {"registered", "waiting", "unpark", "unregister"}
    BY <1>1 DEF NoWaiterLeaked
  <2>1. PICK v \in Workers : /\ asking[v] = id
                             /\ at[v] \in {"registered", "waiting", "unpark", "unregister"}
    BY DEF BInv, SendersHaveOnePlace, NoWaiterLeaked
  <2>2. v = w => next = "unpark"
    BY <2>1
  <2> QED BY <1>1, <2>1, <2>2
<1>4. waiters' \cap inChannel' = {}
  BY <1>1 DEF BInv, SendersHaveOnePlace
<1>5. reader' = "send" =>
        /\ routing' \notin waiters'
        /\ routing' < nextId'
        /\ \A v \in Workers : at'[v] = "allocated" => asking'[v] # routing'
  BY <1>1 DEF BInv, SendersHaveOnePlace
<1> QED BY <1>2, <1>3, <1>4, <1>5 DEF SendersHaveOnePlace

\* Every step leaves each sender in one place.
LEMMA SendersPlaced ==
    ASSUME BInv, [Next]_vars
    PROVE  SendersHaveOnePlace'
<1>1. ASSUME NEW w \in Workers, Allocate(w) PROVE SendersHaveOnePlace'
  <2>1. /\ waiters' = waiters /\ inChannel' = inChannel /\ reader' = reader /\ routing' = routing
        /\ at[w] = "idle" /\ at' = [at EXCEPT ![w] = "allocated"]
        /\ asking' = [asking EXCEPT ![w] = nextId] /\ nextId' = nextId + 1
        /\ at \in [Workers -> WorkerStates] /\ asking \in [Workers -> Ids \cup {NoId}]
        /\ nextId \in Nat
    BY <1>1, BrokerAssumption DEF Allocate, queueVars, readerVars, BInv, TypeOK
  <2>2. \A v \in Workers : at[v] # "idle" => asking'[v] = asking[v] /\ at'[v] = at[v]
    BY <2>1
  <2>3. NoWaiterLeaked'
    <3> SUFFICES ASSUME NEW id \in waiters
                 PROVE  \E v \in Workers : /\ asking'[v] = id
                                           /\ at'[v] \in {"registered", "waiting", "unpark", "unregister"}
      BY <2>1 DEF NoWaiterLeaked
    <3>1. PICK v \in Workers : /\ asking[v] = id
                               /\ at[v] \in {"registered", "waiting", "unpark", "unregister"}
      BY DEF BInv, SendersHaveOnePlace, NoWaiterLeaked
    <3> QED BY <2>2, <3>1
  <2>4. \A id \in inChannel : \E v \in Workers : asking'[v] = id /\ at'[v] \in {"registered", "waiting"}
    BY <2>2 DEF BInv, SendersHaveOnePlace
  <2>5. ASSUME reader = "send"
        PROVE  /\ routing < nextId'
               /\ \A v \in Workers : at'[v] = "allocated" => asking'[v] # routing
    <3>1. routing < nextId /\ routing \in Int
      BY <2>5, BrokerAssumption DEF BInv, TypeOK, Ids, NoId, SendersHaveOnePlace
    <3>2. routing # nextId /\ routing < nextId'
      BY <2>1, <3>1
    <3> QED BY <2>1, <2>5, <3>2 DEF BInv, SendersHaveOnePlace
  <2> QED BY <2>1, <2>3, <2>4, <2>5 DEF BInv, SendersHaveOnePlace
<1>2. ASSUME NEW w \in Workers, RegisterWaiter(w) PROVE SendersHaveOnePlace'
  <2>1. /\ waiters' = waiters \cup {asking[w]} /\ inChannel' = inChannel
        /\ reader' = reader /\ routing' = routing /\ nextId' = nextId /\ asking' = asking
        /\ at[w] = "allocated" /\ at' = [at EXCEPT ![w] = "registered"]
        /\ at \in [Workers -> WorkerStates]
    BY <1>2 DEF RegisterWaiter, readerVars, BInv, TypeOK
  <2>2. asking[w] \notin inChannel
    BY <2>1 DEF BInv, SendersHaveOnePlace, IdsAreOwned
  <2>3. NoWaiterLeaked'
    <3> SUFFICES ASSUME NEW id \in waiters'
                 PROVE  \E v \in Workers : /\ asking'[v] = id
                                           /\ at'[v] \in {"registered", "waiting", "unpark", "unregister"}
      BY DEF NoWaiterLeaked
    <3>1. CASE id = asking[w]
      BY <2>1, <3>1
    <3>2. CASE id # asking[w]
      <4>1. PICK v \in Workers : /\ asking[v] = id
                                 /\ at[v] \in {"registered", "waiting", "unpark", "unregister"}
        BY <2>1, <3>2 DEF BInv, SendersHaveOnePlace, NoWaiterLeaked
      <4> QED BY <2>1, <4>1
    <3> QED BY <3>1, <3>2
  <2>4. \A id \in inChannel : \E v \in Workers : asking'[v] = id /\ at'[v] \in {"registered", "waiting"}
    BY <2>1 DEF BInv, SendersHaveOnePlace
  <2>5. reader = "send" =>
          routing \notin waiters' /\ \A v \in Workers : at'[v] = "allocated" => asking'[v] # routing
    BY <2>1 DEF BInv, SendersHaveOnePlace
  <2> QED BY <2>1, <2>2, <2>3, <2>4, <2>5 DEF BInv, SendersHaveOnePlace
<1>3. ASSUME NEW w \in Workers, WriteRequest(w) PROVE SendersHaveOnePlace'
  BY <1>3, BrokerAssumption DEF WriteRequest, queueVars, workerVars, readerVars, history,
     BInv, TypeOK, Ids, NoId, IdsAreOwned, SendersHaveOnePlace, NoWaiterLeaked
<1>4. ASSUME NEW w \in Workers, WriteFails(w) PROVE SendersHaveOnePlace'
  BY <1>4, LeavingPlaced DEF WriteFails
<1>5. ASSUME NEW w \in Workers, GiveUp(w) PROVE SendersHaveOnePlace'
  BY <1>5, LeavingPlaced DEF GiveUp
<1>6. ASSUME NEW w \in Workers, Receive(w) PROVE SendersHaveOnePlace'
  <2>1. asking[w] \notin waiters
    BY <1>6 DEF Receive, BInv, SendersHaveOnePlace
  <2> QED BY <1>6, <2>1, LeavingPlaced DEF Receive
<1>7. ASSUME NEW w \in Workers, Disconnected(w) PROVE SendersHaveOnePlace'
  <2>1. asking[w] \notin waiters
    BY <1>7 DEF Disconnected
  <2> QED BY <1>7, <2>1, LeavingPlaced DEF Disconnected
<1>8. ASSUME NEW w \in Workers, WorkerAbandons(w) PROVE SendersHaveOnePlace'
  <2>1. /\ at[w] \in AbandonSteps /\ asking[w] \in Ids
        /\ Abandon(at[w], asking[w])
    BY <1>8 DEF WorkerAbandons, BInv, TypeOK, IdsAreOwned, AbandonSteps
  <2>2. /\ waiters' \subseteq waiters /\ waiters \ {asking[w]} \subseteq waiters'
        /\ at[w] = "unregister" => asking[w] \notin waiters'
    BY <2>1, AbandonShape DEF BInv
  <2> QED BY <1>8, <2>1, <2>2 DEF WorkerAbandons, After, AbandonSteps, readerVars, BInv, TypeOK, IdsAreOwned, SendersHaveOnePlace, NoWaiterLeaked
<1>9. ASSUME NEW w \in Workers, CancelTask(w) PROVE SendersHaveOnePlace'
  BY <1>9, BrokerAssumption DEF CancelTask, queueVars, workerVars, readerVars, history,
     BInv, TypeOK, Ids, NoId, IdsAreOwned, SendersHaveOnePlace, NoWaiterLeaked
<1>10. ASSUME NEW id \in Ids, ReadResponse(id) PROVE SendersHaveOnePlace'
  BY <1>10, BrokerAssumption DEF ReadResponse, Route, queueVars, workerVars, readerVars,
     history, BInv, TypeOK, Ids, NoId, IdsAreOwned, SendersHaveOnePlace, NoWaiterLeaked
<1>11. ASSUME NEW id \in Ids, ReadWithdrawal(id) PROVE SendersHaveOnePlace'
  BY <1>11, BrokerAssumption DEF ReadWithdrawal, Route, WasIssuedHere, queueVars,
     workerVars, readerVars, history, BInv, TypeOK, Ids, NoId, IdsAreOwned,
     SendersHaveOnePlace, NoWaiterLeaked
<1>12. CASE LookupWaiter
  <2>1. /\ waiters' = waiters \ {routing} /\ inChannel' = inChannel /\ routing' = routing
        /\ reader' = (IF routing \in waiters THEN "send" ELSE "check")
        /\ nextId' = nextId /\ asking' = asking /\ at' = at
    BY <1>12 DEF LookupWaiter, Route, workerVars
  <2>2. NoWaiterLeaked'
    BY <2>1 DEF NoWaiterLeaked, BInv, SendersHaveOnePlace
  <2>3. ASSUME routing \in waiters
        PROVE  routing < nextId /\ \A v \in Workers : at[v] = "allocated" => asking[v] # routing
    <3>1. PICK w \in Workers : /\ asking[w] = routing
                               /\ at[w] \in {"registered", "waiting", "unpark", "unregister"}
      BY <2>3 DEF BInv, SendersHaveOnePlace, NoWaiterLeaked
    <3> QED BY <3>1 DEF BInv, IdsAreOwned
  <2> QED BY <2>1, <2>2, <2>3 DEF BInv, SendersHaveOnePlace
<1>13. CASE SendToWaiter
  <2>1. /\ waiters' = waiters /\ reader' = "reading" /\ asking' = asking /\ at' = at
        /\ \A id \in inChannel' :
              \/ id \in inChannel
              \/ /\ id = routing
                 /\ \E w \in Workers : asking[w] = id /\ at[w] \in {"registered", "waiting"}
        /\ routing \notin waiters
    BY <1>13 DEF SendToWaiter, Route, workerVars, BInv, SendersHaveOnePlace
  <2>2. NoWaiterLeaked'
    BY <2>1 DEF NoWaiterLeaked, BInv, SendersHaveOnePlace
  <2> QED BY <2>1, <2>2 DEF BInv, SendersHaveOnePlace
<1>14. CASE CheckAbandoned
  BY <1>14, BrokerAssumption DEF CheckAbandoned, Route, WasIssuedHere, queueVars,
     workerVars, readerVars, history, BInv, TypeOK, Ids, NoId, IdsAreOwned,
     SendersHaveOnePlace, NoWaiterLeaked
<1>15. CASE Park
  BY <1>15, BrokerAssumption DEF Park, Route, queueVars, workerVars, readerVars, history,
     BInv, TypeOK, Ids, NoId, IdsAreOwned, SendersHaveOnePlace, NoWaiterLeaked
<1>16. CASE ReaderAbandons
  <2>1. reader \in AbandonSteps /\ routing \in Ids /\ Abandon(reader, routing)
    BY <1>16 DEF ReaderAbandons, BInv, TypeOK, IdsAreOwned, AbandonSteps
  <2>2. /\ waiters' \subseteq waiters /\ waiters \ {routing} \subseteq waiters'
        /\ reader = "unregister" => routing \notin waiters'
    BY <2>1, AbandonShape DEF BInv
  <2> QED BY <1>16, <2>1, <2>2
          DEF ReaderAbandons, After, AbandonSteps, Route, workerVars, history, BInv, TypeOK, IdsAreOwned, SendersHaveOnePlace, NoWaiterLeaked
<1>17. CASE DirectAsk
  BY <1>17, BrokerAssumption DEF DirectAsk, Route, queueVars, workerVars, readerVars,
     history, BInv, TypeOK, Ids, NoId, IdsAreOwned, SendersHaveOnePlace, NoWaiterLeaked
<1>18. CASE DirectAnswered
  BY <1>18, BrokerAssumption DEF DirectAnswered, DirectReturns, Route, queueVars,
     workerVars, readerVars, history, BInv, TypeOK, Ids, NoId, IdsAreOwned,
     SendersHaveOnePlace, NoWaiterLeaked
<1>19. CASE DirectTimesOut
  BY <1>19, BrokerAssumption DEF DirectTimesOut, DirectReturns, Route, queueVars,
     workerVars, readerVars, history, BInv, TypeOK, Ids, NoId, IdsAreOwned,
     SendersHaveOnePlace, NoWaiterLeaked
<1>20. CASE DirectReadFails
  BY <1>20, BrokerAssumption DEF DirectReadFails, DirectReturns, Route, queueVars,
     workerVars, readerVars, history, BInv, TypeOK, Ids, NoId, IdsAreOwned,
     SendersHaveOnePlace, NoWaiterLeaked
<1>21. CASE UNCHANGED vars
  BY <1>21 DEF vars, BInv, TypeOK, Ids, NoId, IdsAreOwned, SendersHaveOnePlace, NoWaiterLeaked
<1> QED BY <1>1, <1>2, <1>3, <1>4, <1>5, <1>6, <1>7, <1>8, <1>9, <1>10,
            <1>11, <1>12, <1>13, <1>14, <1>15, <1>16, <1>17, <1>18, <1>19, <1>20, <1>21
          DEF Next, WorkerStep, RoutingStep, DirectStep

\* No step loses the sender of a call that can still receive.
LEMMA SendersStay ==
    ASSUME BInv, [Next]_vars
    PROVE  SendersAreKept'
<1>1. ASSUME NEW w \in Workers, Allocate(w) PROVE SendersAreKept'
  BY <1>1, BrokerAssumption DEF Allocate, queueVars, workerVars, readerVars, history, BInv,
     TypeOK, Ids, NoId, IdsAreOwned, SendersAreKept, AbandonSteps
<1>2. ASSUME NEW w \in Workers, RegisterWaiter(w) PROVE SendersAreKept'
  BY <1>2, BrokerAssumption DEF RegisterWaiter, queueVars, workerVars, readerVars, history,
     BInv, TypeOK, Ids, NoId, IdsAreOwned, SendersAreKept, AbandonSteps
<1>3. ASSUME NEW w \in Workers, WriteRequest(w) PROVE SendersAreKept'
  BY <1>3, BrokerAssumption DEF WriteRequest, queueVars, workerVars, readerVars, history,
     BInv, TypeOK, Ids, NoId, IdsAreOwned, SendersAreKept, AbandonSteps
<1>4. ASSUME NEW w \in Workers, WriteFails(w) PROVE SendersAreKept'
  BY <1>4, BrokerAssumption DEF WriteFails, Leave, queueVars, workerVars, readerVars,
     history, BInv, TypeOK, Ids, NoId, IdsAreOwned, SendersAreKept, AbandonSteps
<1>5. ASSUME NEW w \in Workers, GiveUp(w) PROVE SendersAreKept'
  BY <1>5, BrokerAssumption DEF GiveUp, Leave, queueVars, workerVars, readerVars, history,
     BInv, TypeOK, Ids, NoId, IdsAreOwned, SendersAreKept, AbandonSteps
<1>6. ASSUME NEW w \in Workers, Receive(w) PROVE SendersAreKept'
  BY <1>6, BrokerAssumption DEF Receive, Leave, queueVars, workerVars, readerVars, history,
     BInv, TypeOK, Ids, NoId, IdsAreOwned, SendersAreKept, AbandonSteps
<1>7. ASSUME NEW w \in Workers, Disconnected(w) PROVE SendersAreKept'
  BY <1>7, BrokerAssumption DEF Disconnected, Leave, queueVars, workerVars, readerVars,
     history, BInv, TypeOK, Ids, NoId, IdsAreOwned, SendersAreKept, AbandonSteps
<1>8. ASSUME NEW w \in Workers, WorkerAbandons(w) PROVE SendersAreKept'
  <2>1. /\ at[w] \in AbandonSteps /\ asking[w] \in Ids
        /\ Abandon(at[w], asking[w])
    BY <1>8 DEF WorkerAbandons, BInv, TypeOK, IdsAreOwned, AbandonSteps
  <2>2. /\ waiters' \subseteq waiters /\ waiters \ {asking[w]} \subseteq waiters'
        /\ at[w] = "unregister" => asking[w] \notin waiters'
    BY <2>1, AbandonShape DEF BInv
  <2> QED BY <1>8, <2>1, <2>2 DEF WorkerAbandons, After, AbandonSteps, readerVars, BInv, TypeOK, IdsAreOwned, SendersAreKept
<1>9. ASSUME NEW w \in Workers, CancelTask(w) PROVE SendersAreKept'
  BY <1>9, BrokerAssumption DEF CancelTask, queueVars, workerVars, readerVars, history,
     BInv, TypeOK, Ids, NoId, IdsAreOwned, SendersAreKept, AbandonSteps
<1>10. ASSUME NEW id \in Ids, ReadResponse(id) PROVE SendersAreKept'
  BY <1>10, BrokerAssumption DEF ReadResponse, Route, queueVars, workerVars, readerVars,
     history, BInv, TypeOK, Ids, NoId, IdsAreOwned, SendersAreKept, AbandonSteps
<1>11. ASSUME NEW id \in Ids, ReadWithdrawal(id) PROVE SendersAreKept'
  BY <1>11, BrokerAssumption DEF ReadWithdrawal, Route, WasIssuedHere, queueVars,
     workerVars, readerVars, history, BInv, TypeOK, Ids, NoId, IdsAreOwned, SendersAreKept,
     AbandonSteps
<1>12. CASE LookupWaiter
  BY <1>12, BrokerAssumption DEF LookupWaiter, Route, queueVars, workerVars, readerVars,
     history, BInv, TypeOK, Ids, NoId, IdsAreOwned, SendersAreKept, AbandonSteps
<1>13. CASE SendToWaiter
  BY <1>13, BrokerAssumption DEF SendToWaiter, Route, queueVars, workerVars, readerVars,
     history, BInv, TypeOK, Ids, NoId, IdsAreOwned, SendersAreKept, AbandonSteps
<1>14. CASE CheckAbandoned
  BY <1>14, BrokerAssumption DEF CheckAbandoned, Route, WasIssuedHere, queueVars,
     workerVars, readerVars, history, BInv, TypeOK, Ids, NoId, IdsAreOwned, SendersAreKept,
     AbandonSteps
<1>15. CASE Park
  BY <1>15, BrokerAssumption DEF Park, Route, queueVars, workerVars, readerVars, history,
     BInv, TypeOK, Ids, NoId, IdsAreOwned, SendersAreKept, AbandonSteps
<1>16. CASE ReaderAbandons
  <2>1. reader \in AbandonSteps /\ routing \in Ids /\ Abandon(reader, routing)
    BY <1>16 DEF ReaderAbandons, BInv, TypeOK, IdsAreOwned, AbandonSteps
  <2>2. /\ waiters' \subseteq waiters /\ waiters \ {routing} \subseteq waiters'
        /\ reader = "unregister" => routing \notin waiters'
    BY <2>1, AbandonShape DEF BInv
  <2> QED BY <1>16, <2>1, <2>2
          DEF ReaderAbandons, After, AbandonSteps, Route, workerVars, history, BInv, TypeOK, IdsAreOwned, SendersAreKept
<1>17. CASE DirectAsk
  BY <1>17, BrokerAssumption DEF DirectAsk, Route, queueVars, workerVars, readerVars,
     history, BInv, TypeOK, Ids, NoId, IdsAreOwned, SendersAreKept, AbandonSteps
<1>18. CASE DirectAnswered
  BY <1>18, BrokerAssumption DEF DirectAnswered, DirectReturns, Route, queueVars,
     workerVars, readerVars, history, BInv, TypeOK, Ids, NoId, IdsAreOwned, SendersAreKept,
     AbandonSteps
<1>19. CASE DirectTimesOut
  BY <1>19, BrokerAssumption DEF DirectTimesOut, DirectReturns, Route, queueVars,
     workerVars, readerVars, history, BInv, TypeOK, Ids, NoId, IdsAreOwned, SendersAreKept,
     AbandonSteps
<1>20. CASE DirectReadFails
  BY <1>20, BrokerAssumption DEF DirectReadFails, DirectReturns, Route, queueVars,
     workerVars, readerVars, history, BInv, TypeOK, Ids, NoId, IdsAreOwned, SendersAreKept,
     AbandonSteps
<1>21. CASE UNCHANGED vars
  BY <1>21 DEF vars, BInv, TypeOK, Ids, NoId, IdsAreOwned, SendersAreKept, AbandonSteps
<1> QED BY <1>1, <1>2, <1>3, <1>4, <1>5, <1>6, <1>7, <1>8, <1>9, <1>10,
            <1>11, <1>12, <1>13, <1>14, <1>15, <1>16, <1>17, <1>18, <1>19, <1>20, <1>21
          DEF Next, WorkerStep, RoutingStep, DirectStep

\* The reader turns to nothing else before the sender is taken.
LEMMA ReaderStep ==
    ASSUME BInv, [Next]_vars
    PROVE  ReaderFinishes'
<1>1. ASSUME NEW w \in Workers, Allocate(w) PROVE ReaderFinishes'
  BY <1>1, BrokerAssumption DEF Allocate, queueVars, workerVars, readerVars, history, BInv,
     TypeOK, Ids, NoId, IdsAreOwned, ReaderFinishes
<1>2. ASSUME NEW w \in Workers, RegisterWaiter(w) PROVE ReaderFinishes'
  BY <1>2, BrokerAssumption DEF RegisterWaiter, queueVars, workerVars, readerVars, history,
     BInv, TypeOK, Ids, NoId, IdsAreOwned, ReaderFinishes
<1>3. ASSUME NEW w \in Workers, WriteRequest(w) PROVE ReaderFinishes'
  BY <1>3, BrokerAssumption DEF WriteRequest, queueVars, workerVars, readerVars, history,
     BInv, TypeOK, Ids, NoId, IdsAreOwned, ReaderFinishes
<1>4. ASSUME NEW w \in Workers, WriteFails(w) PROVE ReaderFinishes'
  BY <1>4, BrokerAssumption DEF WriteFails, Leave, queueVars, workerVars, readerVars,
     history, BInv, TypeOK, Ids, NoId, IdsAreOwned, ReaderFinishes
<1>5. ASSUME NEW w \in Workers, GiveUp(w) PROVE ReaderFinishes'
  BY <1>5, BrokerAssumption DEF GiveUp, Leave, queueVars, workerVars, readerVars, history,
     BInv, TypeOK, Ids, NoId, IdsAreOwned, ReaderFinishes
<1>6. ASSUME NEW w \in Workers, Receive(w) PROVE ReaderFinishes'
  BY <1>6, BrokerAssumption DEF Receive, Leave, queueVars, workerVars, readerVars, history,
     BInv, TypeOK, Ids, NoId, IdsAreOwned, ReaderFinishes
<1>7. ASSUME NEW w \in Workers, Disconnected(w) PROVE ReaderFinishes'
  BY <1>7, BrokerAssumption DEF Disconnected, Leave, queueVars, workerVars, readerVars,
     history, BInv, TypeOK, Ids, NoId, IdsAreOwned, ReaderFinishes
<1>8. ASSUME NEW w \in Workers, WorkerAbandons(w) PROVE ReaderFinishes'
  <2>1. /\ at[w] \in AbandonSteps /\ asking[w] \in Ids
        /\ Abandon(at[w], asking[w])
    BY <1>8 DEF WorkerAbandons, BInv, TypeOK, IdsAreOwned, AbandonSteps
  <2>2. /\ waiters' \subseteq waiters /\ waiters \ {asking[w]} \subseteq waiters'
        /\ at[w] = "unregister" => asking[w] \notin waiters'
    BY <2>1, AbandonShape DEF BInv
  <2> QED BY <1>8, <2>1, <2>2 DEF WorkerAbandons, After, AbandonSteps, readerVars, BInv, TypeOK, IdsAreOwned, ReaderFinishes
<1>9. ASSUME NEW w \in Workers, CancelTask(w) PROVE ReaderFinishes'
  BY <1>9, BrokerAssumption DEF CancelTask, queueVars, workerVars, readerVars, history,
     BInv, TypeOK, Ids, NoId, IdsAreOwned, ReaderFinishes
<1>10. ASSUME NEW id \in Ids, ReadResponse(id) PROVE ReaderFinishes'
  BY <1>10, BrokerAssumption DEF ReadResponse, Route, queueVars, workerVars, readerVars,
     history, BInv, TypeOK, Ids, NoId, IdsAreOwned, ReaderFinishes
<1>11. ASSUME NEW id \in Ids, ReadWithdrawal(id) PROVE ReaderFinishes'
  BY <1>11, BrokerAssumption DEF ReadWithdrawal, Route, WasIssuedHere, queueVars,
     workerVars, readerVars, history, BInv, TypeOK, Ids, NoId, IdsAreOwned, ReaderFinishes
<1>12. CASE LookupWaiter
  BY <1>12, BrokerAssumption DEF LookupWaiter, Route, queueVars, workerVars, readerVars,
     history, BInv, TypeOK, Ids, NoId, IdsAreOwned, ReaderFinishes
<1>13. CASE SendToWaiter
  BY <1>13, BrokerAssumption DEF SendToWaiter, Route, queueVars, workerVars, readerVars,
     history, BInv, TypeOK, Ids, NoId, IdsAreOwned, ReaderFinishes
<1>14. CASE CheckAbandoned
  BY <1>14, BrokerAssumption DEF CheckAbandoned, Route, WasIssuedHere, queueVars,
     workerVars, readerVars, history, BInv, TypeOK, Ids, NoId, IdsAreOwned, ReaderFinishes
<1>15. CASE Park
  BY <1>15, BrokerAssumption DEF Park, Route, queueVars, workerVars, readerVars, history,
     BInv, TypeOK, Ids, NoId, IdsAreOwned, ReaderFinishes
<1>16. CASE ReaderAbandons
  <2>1. reader \in AbandonSteps /\ routing \in Ids /\ Abandon(reader, routing)
    BY <1>16 DEF ReaderAbandons, BInv, TypeOK, IdsAreOwned, AbandonSteps
  <2>2. /\ waiters' \subseteq waiters /\ waiters \ {routing} \subseteq waiters'
        /\ reader = "unregister" => routing \notin waiters'
    BY <2>1, AbandonShape DEF BInv
  <2> QED BY <1>16, <2>1, <2>2
          DEF ReaderAbandons, After, AbandonSteps, Route, workerVars, history, BInv, TypeOK, IdsAreOwned, ReaderFinishes
<1>17. CASE DirectAsk
  BY <1>17, BrokerAssumption DEF DirectAsk, Route, queueVars, workerVars, readerVars,
     history, BInv, TypeOK, Ids, NoId, IdsAreOwned, ReaderFinishes
<1>18. CASE DirectAnswered
  BY <1>18, BrokerAssumption DEF DirectAnswered, DirectReturns, Route, queueVars,
     workerVars, readerVars, history, BInv, TypeOK, Ids, NoId, IdsAreOwned, ReaderFinishes
<1>19. CASE DirectTimesOut
  BY <1>19, BrokerAssumption DEF DirectTimesOut, DirectReturns, Route, queueVars,
     workerVars, readerVars, history, BInv, TypeOK, Ids, NoId, IdsAreOwned, ReaderFinishes
<1>20. CASE DirectReadFails
  BY <1>20, BrokerAssumption DEF DirectReadFails, DirectReturns, Route, queueVars,
     workerVars, readerVars, history, BInv, TypeOK, Ids, NoId, IdsAreOwned, ReaderFinishes
<1>21. CASE UNCHANGED vars
  BY <1>21 DEF vars, BInv, TypeOK, Ids, NoId, IdsAreOwned, ReaderFinishes
<1> QED BY <1>1, <1>2, <1>3, <1>4, <1>5, <1>6, <1>7, <1>8, <1>9, <1>10,
            <1>11, <1>12, <1>13, <1>14, <1>15, <1>16, <1>17, <1>18, <1>19, <1>20, <1>21
          DEF Next, WorkerStep, RoutingStep, DirectStep

\* A late answer stays on its way to being dropped: its call is over, so no sender
\* is found for it, and it is not parked while its id is remembered.
LEMMA LateStep ==
    ASSUME BInv, [Next]_vars
    PROVE  LateIsDropped'
<1>1. ASSUME NEW w \in Workers, Allocate(w) PROVE LateIsDropped'
  BY <1>1 DEF Allocate, queueVars, workerVars, readerVars, history, BInv, TypeOK,
     LateIsDropped
<1>2. ASSUME NEW w \in Workers, RegisterWaiter(w) PROVE LateIsDropped'
  BY <1>2 DEF RegisterWaiter, queueVars, workerVars, readerVars, history, BInv, TypeOK,
     LateIsDropped
<1>3. ASSUME NEW w \in Workers, WriteRequest(w) PROVE LateIsDropped'
  BY <1>3 DEF WriteRequest, queueVars, workerVars, readerVars, history, BInv, TypeOK,
     LateIsDropped
<1>4. ASSUME NEW w \in Workers, WriteFails(w) PROVE LateIsDropped'
  BY <1>4 DEF WriteFails, Leave, queueVars, workerVars, readerVars, history, BInv, TypeOK,
     LateIsDropped
<1>5. ASSUME NEW w \in Workers, GiveUp(w) PROVE LateIsDropped'
  BY <1>5 DEF GiveUp, Leave, queueVars, workerVars, readerVars, history, BInv, TypeOK,
     LateIsDropped
<1>6. ASSUME NEW w \in Workers, Receive(w) PROVE LateIsDropped'
  BY <1>6 DEF Receive, Leave, queueVars, workerVars, readerVars, history, BInv, TypeOK,
     LateIsDropped
<1>7. ASSUME NEW w \in Workers, Disconnected(w) PROVE LateIsDropped'
  BY <1>7 DEF Disconnected, Leave, queueVars, workerVars, readerVars, history, BInv,
     TypeOK, LateIsDropped
<1>8. ASSUME NEW w \in Workers, WorkerAbandons(w) PROVE LateIsDropped'
  <2>1. /\ at[w] \in AbandonSteps /\ asking[w] \in Ids
        /\ Abandon(at[w], asking[w])
    BY <1>8 DEF WorkerAbandons, BInv, TypeOK, IdsAreOwned, AbandonSteps
  <2>2. \A other : Contains(parked', other) => Contains(parked, other)
    BY <2>1, AbandonShape DEF BInv
  <2> QED BY <1>8, <2>2 DEF WorkerAbandons, PushedOut, readerVars, BInv, LateIsDropped
<1>9. ASSUME NEW w \in Workers, CancelTask(w) PROVE LateIsDropped'
  BY <1>9 DEF CancelTask, queueVars, workerVars, readerVars, history, BInv, TypeOK,
     LateIsDropped
<1>10. ASSUME NEW id \in Ids, ReadResponse(id) PROVE LateIsDropped'
  BY <1>10 DEF ReadResponse, Route, queueVars, workerVars, readerVars, history, BInv,
     TypeOK, LateIsDropped
<1>11. ASSUME NEW id \in Ids, ReadWithdrawal(id) PROVE LateIsDropped'
  BY <1>11 DEF ReadWithdrawal, Route, WasIssuedHere, queueVars, workerVars, readerVars,
     history, BInv, TypeOK, LateIsDropped
<1>12. CASE LookupWaiter
  <2>1. routing \in waiters => routing \notin over
    BY DEF BInv, IdsAreOwned, SendersHaveOnePlace, NoWaiterLeaked
  <2> QED BY <1>12, <2>1 DEF LookupWaiter, Route, history, BInv, LateIsDropped
<1>13. CASE SendToWaiter
  BY <1>13 DEF SendToWaiter, Route, queueVars, workerVars, readerVars, history, BInv,
     TypeOK, LateIsDropped
<1>14. CASE CheckAbandoned
  <2>1. \/ ~Contains(abandoned, routing) /\ reader' = "park" /\ routing' = routing
        \/ reader' = "reading"
    BY <1>14 DEF CheckAbandoned, Route
  <2>2. reader = "check" /\ parked' = parked /\ late' = late /\ over' = over
    BY <1>14 DEF CheckAbandoned, history
  <2> QED BY <2>1, <2>2 DEF BInv, LateIsDropped
<1>15. CASE Park
  <2>1. routing \in Ids /\ routing \notin late
    BY <1>15 DEF Park, BInv, TypeOK, IdsAreOwned, LateIsDropped
  <2>2. \A other : Contains(parked', other) => Contains(parked, other) \/ other = routing
    <3>1. LET t == Trimmed(Append(parked, routing), MaxParked) IN
          \A other : Contains(t, other) => Contains(parked, other) \/ other = routing
      BY <2>1, TrimmedPush, BrokerAssumption DEF BInv, TypeOK
    <3> QED BY <1>15, <3>1 DEF Park, Parked
  <2> QED BY <1>15, <2>1, <2>2 DEF Park, Route, history, BInv, LateIsDropped
<1>16. CASE ReaderAbandons
  <2>1. reader \in AbandonSteps /\ routing \in Ids /\ Abandon(reader, routing)
    BY <1>16 DEF ReaderAbandons, BInv, TypeOK, IdsAreOwned, AbandonSteps
  <2>2. \A other : Contains(parked', other) => Contains(parked, other)
    BY <2>1, AbandonShape DEF BInv
  <2>3. reader' \in {"unregister", "remember", "reading"}
    BY <1>16, <2>1 DEF ReaderAbandons, Route, After, AbandonSteps
  <2> QED BY <1>16, <2>2, <2>3 DEF ReaderAbandons, history, BInv, LateIsDropped
<1>17. CASE DirectAsk
  BY <1>17 DEF DirectAsk, Route, queueVars, workerVars, readerVars, history, BInv, TypeOK,
     LateIsDropped
<1>18. CASE DirectAnswered
  BY <1>18 DEF DirectAnswered, DirectReturns, Route, queueVars, workerVars, readerVars,
     history, BInv, TypeOK, LateIsDropped
<1>19. CASE DirectTimesOut
  BY <1>19 DEF DirectTimesOut, DirectReturns, Route, queueVars, workerVars, readerVars,
     history, BInv, TypeOK, LateIsDropped
<1>20. CASE DirectReadFails
  BY <1>20 DEF DirectReadFails, DirectReturns, Route, queueVars, workerVars, readerVars,
     history, BInv, TypeOK, LateIsDropped
<1>21. CASE UNCHANGED vars
  BY <1>21 DEF vars, BInv, TypeOK, LateIsDropped
<1> QED BY <1>1, <1>2, <1>3, <1>4, <1>5, <1>6, <1>7, <1>8, <1>9, <1>10,
            <1>11, <1>12, <1>13, <1>14, <1>15, <1>16, <1>17, <1>18, <1>19, <1>20, <1>21
          DEF Next, WorkerStep, RoutingStep, DirectStep

\* Every step keeps the queues within their ceilings, and one answer per id.
LEMMA QueueStep ==
    ASSUME BInv, [Next]_vars
    PROVE  QueuesBounded'
<1>1. /\ parked \in Seq(Ids) /\ abandoned \in Seq(Ids)
      /\ Len(parked) \in Nat /\ Len(abandoned) \in Nat
      /\ MaxParked \in Nat /\ MaxAbandoned \in Nat
      /\ IsInjective(parked) /\ Len(parked) <= MaxParked /\ Len(abandoned) <= MaxAbandoned
  BY BrokerAssumption DEF BInv, TypeOK, QueuesBounded
<1>2. CASE UNCHANGED <<parked, abandoned>>
  BY <1>1, <1>2 DEF QueuesBounded
<1>3. ASSUME NEW w \in Workers, WorkerAbandons(w) PROVE QueuesBounded'
  <2>1. /\ at[w] \in AbandonSteps /\ asking[w] \in Ids
        /\ Abandon(at[w], asking[w])
    BY <1>3 DEF WorkerAbandons, BInv, TypeOK, IdsAreOwned, AbandonSteps
  <2>2. /\ parked' \in Seq(Ids) /\ IsInjective(parked') /\ Len(parked') <= Len(parked)
        /\ Len(abandoned') <= MaxAbandoned
    BY <1>1, <2>1, AbandonShape DEF BInv
  <2>3. Len(parked') \in Nat
    BY <2>2
  <2> QED BY <1>1, <2>2, <2>3 DEF QueuesBounded
<1>4. CASE ReaderAbandons
  <2>1. reader \in AbandonSteps /\ routing \in Ids /\ Abandon(reader, routing)
    BY <1>4 DEF ReaderAbandons, BInv, TypeOK, IdsAreOwned, AbandonSteps
  <2>2. /\ parked' \in Seq(Ids) /\ IsInjective(parked') /\ Len(parked') <= Len(parked)
        /\ Len(abandoned') <= MaxAbandoned
    BY <1>1, <2>1, AbandonShape DEF BInv
  <2>3. Len(parked') \in Nat
    BY <2>2
  <2> QED BY <1>1, <2>2, <2>3 DEF QueuesBounded
<1>5. CASE CheckAbandoned
  <2> DEFINE r == RemoveFirst(abandoned, routing)
  <2>1. r \in Seq(Ids) /\ Len(r) <= Len(abandoned)
    BY <1>1, RemovedOnce
  <2>2. parked' = parked /\ (abandoned' = abandoned \/ abandoned' = r)
    BY <1>5 DEF CheckAbandoned, Forgotten
  <2> HIDE DEF r
  <2>3. Len(r) \in Nat
    BY <2>1
  <2> QED BY <1>1, <2>1, <2>2, <2>3 DEF QueuesBounded
<1>6. CASE Park
  <2>1. routing \in Ids
    BY <1>6 DEF Park, BInv, TypeOK, IdsAreOwned
  <2> DEFINE t == Trimmed(Append(parked, routing), MaxParked)
  <2>2. Len(t) <= MaxParked /\ (~Contains(parked, routing) => IsInjective(t))
    BY <1>1, <2>1, TrimmedPush
  <2>3. /\ abandoned' = abandoned
        /\ parked' = IF Contains(parked, routing) THEN parked ELSE t
    BY <1>6 DEF Park, Parked
  <2> HIDE DEF t
  <2> QED BY <1>1, <2>2, <2>3 DEF QueuesBounded
<1>7. \/ UNCHANGED <<parked, abandoned>>
      \/ \E w \in Workers : WorkerAbandons(w)
      \/ ReaderAbandons \/ CheckAbandoned \/ Park
  BY DEF Next, WorkerStep, RoutingStep, DirectStep, Allocate, RegisterWaiter, WriteRequest,
         WriteFails, GiveUp, Receive, Disconnected, Leave, CancelTask, ReadResponse,
         ReadWithdrawal, LookupWaiter, SendToWaiter, DirectAsk, DirectAnswered,
         DirectTimesOut, DirectReadFails, DirectReturns, queueVars, vars
<1> QED BY <1>2, <1>3, <1>4, <1>5, <1>6, <1>7

-----------------------------------------------------------------------------
(* The theorems *)

\* Initially nothing is asked, and nothing is kept.
LEMMA InitBInv ==
    ASSUME Init
    PROVE  BInv
<1>1. Len(<<>>) = 0 /\ <<>> \in Seq(Ids) /\ IsInjective(<<>>)
  BY DEF IsInjective
<1>2. TypeOK /\ QueuesBounded
  BY <1>1, BrokerAssumption DEF Init, TypeOK, Ids, NoId, WorkerStates, ReaderStates, QueuesBounded
<1>3. IdsAreOwned
  BY BrokerAssumption DEF Init, IdsAreOwned, NoId
<1>4. SendersHaveOnePlace /\ SendersAreKept /\ ReaderFinishes /\ LateIsDropped
  BY DEF Init, SendersHaveOnePlace, NoWaiterLeaked, SendersAreKept, ReaderFinishes, LateIsDropped,
         AbandonSteps
<1> QED BY <1>2, <1>3, <1>4 DEF BInv

\* The invariant is enough: an answer that the reader is done with is in the
\* channel, since its sender was kept and is in the map no longer; a late one
\* cannot be in a channel, since its call no longer receives.
LEMMA BInvRouted ==
    ASSUME BInv
    PROVE  Routed
<1>1. NoWaiterLeaked
  BY DEF BInv, SendersHaveOnePlace
<1>2. WakeUpReaches
  BY DEF BInv, SendersAreKept, ReaderFinishes, WakeUpReaches
<1>3. LateAnswerDiscarded
  BY DEF BInv, IdsAreOwned, SendersHaveOnePlace, LateIsDropped, LateAnswerDiscarded
<1> QED BY <1>1, <1>2, <1>3 DEF BInv, QueuesBounded, Routed

\* The invariant is inductive: it holds initially and every step keeps it.
THEOREM InvariantHolds == Spec => []BInv
<1>1. Init => BInv
  BY InitBInv
<1>2. BInv /\ [Next]_vars => BInv'
  BY TypeStep, IdsStep, SendersPlaced, SendersStay, ReaderStep, LateStep, QueueStep DEF BInv
<1> QED BY <1>1, <1>2, PTL DEF Spec

\* However registering, writing, giving up, answering and withdrawing interleave
\* between the broker's locks: no sender is leaked, every answer that was read and
\* every withdrawal reaches the worker that waits for it, late answers are dropped
\* while their id is remembered, and the queues keep within their ceilings.
THEOREM BrokerRoutes == Spec => []Routed
<1>1. BInv => Routed
  BY BInvRouted
<1> QED BY <1>1, InvariantHolds, PTL

=============================================================================
