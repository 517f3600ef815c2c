------------------------ MODULE RequestQueueProofs ------------------------
(***************************************************************************)
(* Proofs about RequestQueue, for every finite set of requests and every   *)
(* positive limit.                                                         *)
(***************************************************************************)
EXTENDS RequestQueue, FiniteSetTheorems, TLAPS

\* The lock is held by nobody, or by one request.
LockInv ==
  /\ serialCur = 1 <=> \E r \in Requests : pc[r] \in Holding
  /\ \A r, s \in Requests : pc[r] \in Holding /\ pc[s] \in Holding => r = s

LimitInv == limitCur = Cardinality(At(Admitted))

\* The inductive invariant.
IInv == TypeOK /\ LockInv /\ NoLostWakeup /\ LimitInv

\* Removing an element of a sequence shifts the ones behind it by one.
LEMMA WithoutProperties ==
  ASSUME NEW S, NEW s \in Seq(S), NEW i \in 1..Len(s)
  PROVE  /\ Without(s, i) \in Seq(S)
         /\ Len(Without(s, i)) = Len(s) - 1
         /\ \A j \in 1..(Len(s) - 1) :
              Without(s, i)[j] = IF j < i THEN s[j] ELSE s[j + 1]
<1>1. Len(s) \in Nat /\ Len(s) >= 1
  OBVIOUS
<1>2. \A j \in 1..(Len(s) - 1) : (IF j < i THEN s[j] ELSE s[j + 1]) \in S
  OBVIOUS
<1>3. QED
  BY <1>1, <1>2 DEF Without

\* The requests at any given stages are a finite set, so that they can be counted.
LEMMA CardAt ==
  ASSUME TypeOK
  PROVE  /\ \A st : IsFiniteSet(At(st)) /\ Cardinality(At(st)) \in Nat
         /\ \A st : At(st) \subseteq Requests
<1>1. \A st : At(st) \subseteq Requests
  BY DEF At
<1>2. QED
  BY <1>1, RequestsAssumption, FS_Subset, FS_CardinalityType

\* The server starts with both semaphores free and nobody waiting.
LEMMA InitIInv == Init => IInv
<1> SUFFICES ASSUME Init PROVE IInv
  OBVIOUS
<1>1. TypeOK
  BY LimitAssumption DEF Init, TypeOK, Stages, Codes
<1>2. LockInv /\ NoLostWakeup
  BY DEF Init, LockInv, NoLostWakeup, Holding
<1>3. At(Admitted) = {}
  BY DEF Init, At, Admitted
<1>4. QED
  BY <1>1, <1>2, <1>3, FS_EmptySet DEF IInv, LimitInv, Init

\* A request let in by limiter.TryAcquire adds one to the admitted ones.
LEMMA TryAcquireIInv ==
  ASSUME IInv, NEW r \in Requests, TryAcquire(r) PROVE IInv'
<1> USE DEF IInv, TryAcquire
<1>1. TypeOK'
  BY LimitAssumption DEF TypeOK, Stages
<1>2. LockInv'
  BY DEF TypeOK, LockInv, Holding
<1>3. NoLostWakeup'
  BY DEF TypeOK, NoLostWakeup
<1>4. LimitInv'
  <2>1. At(Admitted)' = At(Admitted) \cup {r}
    BY DEF TypeOK, At, Admitted
  <2>2. r \notin At(Admitted)
    BY DEF At, Admitted
  <2>3. QED
    BY <2>1, <2>2, CardAt, FS_AddElement DEF LimitInv
<1>5. QED
  BY <1>1, <1>2, <1>3, <1>4

\* limiter.Release gives back exactly the place its request was counted for.
LEMMA ReleaseLimitIInv ==
  ASSUME IInv, NEW r \in Requests, ReleaseLimit(r) PROVE IInv'
<1> USE DEF IInv, ReleaseLimit
<1>1. At(Admitted)' = At(Admitted) \ {r} /\ r \in At(Admitted)
  BY DEF TypeOK, At, Admitted
<1>2. Cardinality(At(Admitted)') = Cardinality(At(Admitted)) - 1
  BY <1>1, CardAt, FS_RemoveElement
<1>3. Cardinality(At(Admitted)') \in Nat
  BY <1>1, CardAt, FS_Subset, FS_CardinalityType
<1>4. LimitInv' /\ limitCur' \in 0..Limit
  BY <1>2, <1>3, LimitAssumption DEF LimitInv, TypeOK
<1>5. TypeOK'
  BY <1>4 DEF TypeOK, Stages
<1>6. LockInv'
  BY DEF TypeOK, LockInv, Holding
<1>7. NoLostWakeup'
  BY DEF TypeOK, NoLostWakeup
<1>8. QED
  BY <1>4, <1>5, <1>6, <1>7

\* A request refused with Unavailable touches neither semaphore.
LEMMA RejectIInv ==
  ASSUME IInv, NEW r \in Requests, Reject(r) PROVE IInv'
<1> USE DEF IInv, Reject
<1>1. TypeOK'
  BY DEF TypeOK, Stages, Codes
<1>2. LockInv'
  BY DEF TypeOK, LockInv, Holding
<1>3. NoLostWakeup'
  BY DEF TypeOK, NoLostWakeup
<1>4. At(Admitted)' = At(Admitted)
  BY DEF TypeOK, At, Admitted
<1>5. QED
  BY <1>1, <1>2, <1>3, <1>4 DEF LimitInv

\* lock.Acquire takes a free lock, or queues the request behind a held one.
LEMMA AcquireIInv ==
  ASSUME IInv, NEW r \in Requests, Acquire(r) PROVE IInv'
<1> USE DEF IInv
<1>1. At(Admitted)' = At(Admitted)
  BY DEF Acquire, TypeOK, At, Admitted
<1>2. LimitInv'
  BY <1>1 DEF LimitInv, Acquire
<1>3. CASE serialCur = 0 /\ waiters = <<>>
  <2>1. /\ pc[r] = "admitted" /\ serialCur' = 1 /\ waiters' = waiters
        /\ pc' = [pc EXCEPT ![r] = "granted"]
        /\ UNCHANGED <<cancelled, code, limitCur>>
    BY <1>3 DEF Acquire
  <2>2. TypeOK'
    BY <2>1 DEF TypeOK, Stages
  <2>3. LockInv'
    BY <1>3, <2>1 DEF TypeOK, LockInv, Holding
  <2>4. NoLostWakeup'
    BY <1>3, <2>1 DEF TypeOK, NoLostWakeup
  <2>5. QED
    BY <1>2, <2>2, <2>3, <2>4
<1>4. CASE ~(serialCur = 0 /\ waiters = <<>>)
  <2>1. /\ pc[r] = "admitted" /\ serialCur' = serialCur
        /\ waiters' = Append(waiters, r)
        /\ pc' = [pc EXCEPT ![r] = "waiting"]
        /\ UNCHANGED <<cancelled, code, limitCur>>
    BY <1>4 DEF Acquire
  <2>2. TypeOK'
    BY <2>1 DEF TypeOK, Stages
  <2>3. LockInv'
    BY <2>1 DEF TypeOK, LockInv, Holding
  <2>4. /\ Len(waiters') = Len(waiters) + 1
        /\ \A i \in 1..Len(waiters) : waiters'[i] = waiters[i]
        /\ waiters'[Len(waiters) + 1] = r
    BY <2>1 DEF TypeOK
  <2>5. serialCur = 1
    BY <1>4 DEF TypeOK, NoLostWakeup
  <2>6. \A i \in 1..Len(waiters) : waiters[i] # r /\ waiters[i] \in Requests
    BY <2>1 DEF TypeOK, NoLostWakeup
  <2>7. \A q \in Requests :
          pc'[q] = "waiting" <=> \E i \in 1..Len(waiters') : waiters'[i] = q
    <3> SUFFICES ASSUME NEW q \in Requests
                 PROVE  pc'[q] = "waiting"
                          <=> \E i \in 1..Len(waiters') : waiters'[i] = q
      OBVIOUS
    <3>1. CASE q = r
      BY <2>1, <2>4, <3>1 DEF TypeOK
    <3>2. CASE q # r
      <4>1. pc'[q] = pc[q]
        BY <2>1, <3>2 DEF TypeOK
      <4>2. (\E i \in 1..Len(waiters') : waiters'[i] = q)
              <=> \E i \in 1..Len(waiters) : waiters[i] = q
        BY <2>4, <3>2 DEF TypeOK
      <4>3. QED
        BY <4>1, <4>2 DEF NoLostWakeup
    <3>3. QED
      BY <3>1, <3>2
  <2>8. \A i, j \in 1..Len(waiters') : waiters'[i] = waiters'[j] => i = j
    BY <2>4, <2>6 DEF TypeOK, NoLostWakeup
  <2>9. NoLostWakeup'
    BY <2>1, <2>5, <2>7, <2>8 DEF NoLostWakeup
  <2>10. QED
    BY <1>2, <2>2, <2>3, <2>9
<1>5. QED
  BY <1>3, <1>4

\* A waiter that gives up leaves the queue, and the others keep their order.
LEMMA AcquireCancelledIInv ==
  ASSUME IInv, NEW r \in Requests, AcquireCancelled(r) PROVE IInv'
<1> USE DEF IInv
<1>1. PICK k \in 1..Len(waiters) :
        waiters[k] = r /\ waiters' = Without(waiters, k)
  BY DEF AcquireCancelled
<1>2. /\ pc[r] = "waiting"
      /\ pc' = [pc EXCEPT ![r] = "leaving"]
      /\ code' = [code EXCEPT ![r] = "Canceled"]
      /\ UNCHANGED <<cancelled, limitCur, serialCur>>
  BY DEF AcquireCancelled
<1>3. /\ waiters' \in Seq(Requests)
      /\ Len(waiters') = Len(waiters) - 1
      /\ \A j \in 1..(Len(waiters) - 1) :
           waiters'[j] = IF j < k THEN waiters[j] ELSE waiters[j + 1]
  BY <1>1, WithoutProperties DEF TypeOK
<1>4. Len(waiters) \in Nat
  BY DEF TypeOK
<1>5. TypeOK'
  BY <1>2, <1>3 DEF TypeOK, Stages, Codes
<1>6. LockInv'
  BY <1>2 DEF TypeOK, LockInv, Holding
<1>7. At(Admitted)' = At(Admitted)
  BY <1>2 DEF TypeOK, At, Admitted
<1>8. NoLostWakeup'
  <2>1. waiters' # <<>> => serialCur' = 1
    <3>1. waiters # <<>>
      BY <1>1, <1>4 DEF TypeOK
    <3>2. QED
      BY <1>2, <3>1 DEF NoLostWakeup
  <2>2. \A i \in 1..Len(waiters) : waiters[i] = r => i = k
    BY <1>1 DEF NoLostWakeup
  <2>3. ASSUME NEW q \in Requests
        PROVE  pc'[q] = "waiting"
                 <=> \E i \in 1..Len(waiters') : waiters'[i] = q
    <3>1. CASE q = r
      <4>1. pc'[q] # "waiting"
        BY <1>2, <3>1 DEF TypeOK
      <4>2. \A i \in 1..Len(waiters') : waiters'[i] # r
        BY <1>3, <1>4, <2>2
      <4>3. QED
        BY <3>1, <4>1, <4>2
    <3>2. CASE q # r
      <4>1. pc'[q] = pc[q]
        BY <1>2, <3>2 DEF TypeOK
      <4>2. ASSUME NEW i \in 1..Len(waiters'), waiters'[i] = q
            PROVE  \E j \in 1..Len(waiters) : waiters[j] = q
        BY <1>3, <1>4, <4>2
      <4>3. ASSUME NEW j \in 1..Len(waiters), waiters[j] = q
            PROVE  \E i \in 1..Len(waiters') : waiters'[i] = q
        <5>1. CASE j < k
          <6>1. j \in 1..Len(waiters') /\ waiters'[j] = q
            BY <1>3, <1>4, <4>3, <5>1
          <6>2. QED
            BY <6>1
        <5>2. CASE j > k
          <6>1. j - 1 \in 1..Len(waiters') /\ waiters'[j - 1] = q
            BY <1>3, <1>4, <4>3, <5>2
          <6>2. QED
            BY <6>1
        <5>3. j # k
          BY <1>1, <3>2, <4>3
        <5>4. QED
          BY <1>4, <5>1, <5>2, <5>3
      <4>4. QED
        BY <4>1, <4>2, <4>3 DEF NoLostWakeup
    <3>3. QED
      BY <3>1, <3>2
  <2>4. \A i, j \in 1..Len(waiters') : waiters'[i] = waiters'[j] => i = j
    BY <1>3, <1>4 DEF NoLostWakeup
  <2>5. QED
    BY <2>1, <2>3, <2>4 DEF NoLostWakeup
<1>9. QED
  BY <1>2, <1>5, <1>6, <1>7, <1>8 DEF LimitInv

\* Handing the lock over, or laying it down, keeps the invariant.
LEMMA ReleaseIInv ==
  ASSUME IInv, NEW r \in Requests, pc[r] \in Holding, Release(r),
         UNCHANGED <<cancelled, limitCur>>, code' \in [Requests -> Codes]
  PROVE  IInv'
<1> USE DEF IInv
<1>1. CASE waiters = <<>>
  <2>1. /\ serialCur' = serialCur - 1
        /\ pc' = [pc EXCEPT ![r] = "leaving"]
        /\ waiters' = waiters
    BY <1>1 DEF Release
  <2>2. serialCur = 1
    BY DEF LockInv
  <2>3. TypeOK'
    BY <2>1, <2>2 DEF TypeOK, Stages
  <2>4. LockInv'
    BY <2>1, <2>2 DEF TypeOK, LockInv, Holding
  <2>5. NoLostWakeup'
    BY <1>1, <2>1 DEF TypeOK, NoLostWakeup, Holding
  <2>6. At(Admitted)' = At(Admitted)
    BY <2>1 DEF TypeOK, At, Admitted, Holding
  <2>7. QED
    BY <2>3, <2>4, <2>5, <2>6 DEF LimitInv
<1>2. CASE waiters # <<>>
  <2> DEFINE h == Head(waiters)
  <2>1. /\ pc' = [pc EXCEPT ![r] = "leaving", ![h] = "granted"]
        /\ waiters' = Tail(waiters)
        /\ serialCur' = serialCur
    BY <1>2 DEF Release
  <2>2. /\ Len(waiters) \in Nat /\ Len(waiters) >= 1
        /\ h = waiters[1] /\ h \in Requests
        /\ waiters' \in Seq(Requests)
        /\ Len(waiters') = Len(waiters) - 1
        /\ \A i \in 1..(Len(waiters) - 1) : waiters'[i] = waiters[i + 1]
    BY <1>2, <2>1 DEF TypeOK
  <2>3. pc[h] = "waiting" /\ h # r
    BY <2>2 DEF NoLostWakeup, Holding
  <2>4. /\ pc'[r] = "leaving" /\ pc'[h] = "granted"
        /\ \A q \in Requests : q # r /\ q # h => pc'[q] = pc[q]
        /\ pc' \in [Requests -> Stages]
    BY <2>1, <2>2, <2>3 DEF TypeOK, Stages
  <2> HIDE DEF h
  <2>5. TypeOK'
    BY <2>1, <2>2, <2>4 DEF TypeOK
  <2>6. LockInv'
    BY <2>1, <2>2, <2>3, <2>4 DEF LockInv, Holding
  <2>7. serialCur = 1
    BY DEF LockInv
  <2>8. \A i \in 2..Len(waiters) : waiters[i] # h
    BY <2>2 DEF NoLostWakeup
  <2>9. ASSUME NEW q \in Requests
        PROVE  pc'[q] = "waiting"
                 <=> \E i \in 1..Len(waiters') : waiters'[i] = q
    <3>1. CASE q = h
      BY <2>2, <2>4, <2>8, <3>1
    <3>2. CASE q # h
      <4>1. pc'[q] = "waiting" <=> pc[q] = "waiting"
        BY <2>4, <3>2 DEF Holding
      <4>2. ASSUME NEW i \in 1..Len(waiters'), waiters'[i] = q
            PROVE  \E j \in 1..Len(waiters) : waiters[j] = q
        BY <2>2, <4>2
      <4>3. ASSUME NEW j \in 1..Len(waiters), waiters[j] = q
            PROVE  \E i \in 1..Len(waiters') : waiters'[i] = q
        <5>1. j - 1 \in 1..Len(waiters') /\ waiters'[j - 1] = q
          BY <2>2, <3>2, <4>3
        <5>2. QED
          BY <5>1
      <4>4. QED
        BY <4>1, <4>2, <4>3 DEF NoLostWakeup
    <3>3. QED
      BY <3>1, <3>2
  <2>10. \A i, j \in 1..Len(waiters') : waiters'[i] = waiters'[j] => i = j
    BY <2>2 DEF NoLostWakeup
  <2>11. NoLostWakeup'
    BY <2>1, <2>7, <2>9, <2>10 DEF NoLostWakeup
  <2>12. At(Admitted)' = At(Admitted)
    BY <2>2, <2>3, <2>4 DEF At, Admitted, Holding
  <2>13. QED
    BY <2>5, <2>6, <2>11, <2>12 DEF LimitInv
<1>3. QED
  BY <1>1, <1>2

\* The check of ctx.Done() after the lock was granted runs or releases.
LEMMA DoubleCheckIInv ==
  ASSUME IInv, NEW r \in Requests, DoubleCheck(r) PROVE IInv'
<1>1. CASE r \in cancelled
  <2>1. Release(r) /\ UNCHANGED <<cancelled, limitCur>> /\ pc[r] \in Holding
    BY <1>1 DEF DoubleCheck, Holding
  <2>2. code' \in [Requests -> Codes]
    BY <1>1 DEF DoubleCheck, IInv, TypeOK, Codes
  <2>3. QED
    BY <2>1, <2>2, ReleaseIInv
<1>2. CASE r \notin cancelled
  <2> USE DEF IInv
  <2>1. /\ pc[r] = "granted" /\ pc' = [pc EXCEPT ![r] = "running"]
        /\ UNCHANGED <<cancelled, code, limitCur, serialCur, waiters>>
    BY <1>2 DEF DoubleCheck
  <2>2. TypeOK'
    BY <2>1 DEF TypeOK, Stages
  <2>3. LockInv'
    BY <2>1 DEF TypeOK, LockInv, Holding
  <2>4. NoLostWakeup'
    BY <2>1 DEF TypeOK, NoLostWakeup
  <2>5. At(Admitted)' = At(Admitted)
    BY <2>1 DEF TypeOK, At, Admitted
  <2>6. QED
    BY <2>1, <2>2, <2>3, <2>4, <2>5 DEF LimitInv
<1>3. QED
  BY <1>1, <1>2

\* A handler that returns releases the lock by the deferred Release.
LEMMA FinishIInv ==
  ASSUME IInv, NEW r \in Requests, Finish(r) PROVE IInv'
<1>1. Release(r) /\ UNCHANGED <<cancelled, limitCur>> /\ pc[r] \in Holding
  BY DEF Finish, Holding
<1>2. code' \in [Requests -> Codes]
  BY DEF Finish, IInv, TypeOK, Codes
<1>3. QED
  BY <1>1, <1>2, ReleaseIInv

\* A panic ends the process: the new one starts with nothing held.
LEMMA PanicIInv ==
  ASSUME IInv, NEW r \in Requests, Panic(r) PROVE IInv'
<1> USE DEF IInv, Panic
<1>1. \A q \in Requests : pc'[q] \notin Admitted
  BY DEF Admitted
<1>2. TypeOK'
  <2>1. pc' \in [Requests -> Stages]
    BY DEF TypeOK, Stages
  <2>2. code' \in [Requests -> Codes]
    BY DEF TypeOK, Codes
  <2>3. QED
    BY <2>1, <2>2, LimitAssumption DEF TypeOK
<1>3. LockInv'
  BY <1>1 DEF LockInv, Holding, Admitted
<1>4. NoLostWakeup'
  BY <1>1 DEF NoLostWakeup, Admitted
<1>5. At(Admitted)' = {}
  BY <1>1 DEF At
<1>6. QED
  BY <1>2, <1>3, <1>4, <1>5, FS_EmptySet DEF LimitInv

\* What clients do, giving up or asking again, touches neither semaphore.
LEMMA ClientIInv ==
  ASSUME IInv, NEW r \in Requests, Cancel(r) \/ Reissue(r) PROVE IInv'
<1> USE DEF IInv, Cancel, Reissue
<1>1. TypeOK'
  BY DEF TypeOK, Stages, Codes
<1>2. LockInv'
  BY DEF TypeOK, LockInv, Holding
<1>3. NoLostWakeup'
  BY DEF TypeOK, NoLostWakeup
<1>4. At(Admitted)' = At(Admitted)
  BY DEF TypeOK, At, Admitted
<1>5. QED
  BY <1>1, <1>2, <1>3, <1>4 DEF LimitInv

\* Every step keeps the inductive invariant.
LEMMA StepIInv == IInv /\ [Next]_vars => IInv'
<1> SUFFICES ASSUME IInv, [Next]_vars PROVE IInv'
  OBVIOUS
<1>1. ASSUME NEW r \in Requests,
             ServerStep(r) \/ Finish(r) \/ Panic(r) \/ Cancel(r) \/ Reissue(r)
      PROVE  IInv'
  BY <1>1, TryAcquireIInv, RejectIInv, ReleaseLimitIInv, AcquireIInv,
     AcquireCancelledIInv, DoubleCheckIInv, FinishIInv, PanicIInv, ClientIInv
     DEF ServerStep
<1>2. CASE UNCHANGED vars
  BY <1>2 DEF vars, IInv, TypeOK, LockInv, NoLostWakeup, LimitInv, At
<1>3. QED
  BY <1>1, <1>2 DEF Next

\* The inductive invariant holds in every reachable state.
LEMMA Invariance == Spec => []IInv
<1>1. QED
  BY InitIInv, StepIInv, PTL DEF Spec

\* Every reachable state is well typed; in particular neither semaphore is
\* ever held beyond its size or released below zero.
THEOREM TypeCorrect == Spec => []TypeOK
<1>1. IInv => TypeOK
  BY DEF IInv
<1>2. QED
  BY <1>1, Invariance, PTL

\* SerializingInterceptor serializes: two handlers never execute together,
\* however requests arrive, are cancelled, or are lost in a crash.
THEOREM Serialized == Spec => []MutualExclusion
<1>1. IInv => MutualExclusion
  BY DEF IInv, LockInv, MutualExclusion, Holding
<1>2. QED
  BY <1>1, Invariance, PTL

\* No path through the interceptors leaks a slot or the lock.
THEOREM NothingLeaks == Spec => []NoLeak
<1>1. ASSUME IInv PROVE NoLeak
  <2>1. CASE \E r \in Requests : pc[r] \in Holding
    <3>1. PICK r \in Requests : pc[r] \in Holding
      BY <2>1
    <3>2. At(Holding) = {r} /\ serialCur = 1
      BY <1>1, <3>1 DEF IInv, LockInv, At
    <3>3. QED
      BY <1>1, <3>2, FS_Singleton DEF IInv, LimitInv, NoLeak
  <2>2. CASE ~\E r \in Requests : pc[r] \in Holding
    <3>1. At(Holding) = {} /\ serialCur = 0
      BY <1>1, <2>2 DEF IInv, LockInv, At, TypeOK
    <3>2. QED
      BY <1>1, <3>1, FS_EmptySet DEF IInv, LimitInv, NoLeak
  <2>3. QED
    BY <2>1, <2>2
<1>2. QED
  BY <1>1, Invariance, PTL

\* A waiter always has a holder to be woken by, and the list of waiters is
\* exactly the set of waiting requests.
THEOREM WakeupsKept == Spec => []NoLostWakeup
<1>1. IInv => NoLostWakeup
  BY DEF IInv
<1>2. QED
  BY <1>1, Invariance, PTL

\* The step of the CancelledNeverExecuted property.
CancelledStep ==
  \A r \in Requests :
    r \in cancelled /\ pc[r] \in {"admitted", "waiting", "granted"}
      => /\ pc'[r] # "running"
         /\ code'[r] \in {"none", "Canceled", "Lost"}

\* While a request is in flight its client has not been answered, except that
\* one on its way out carries its answer.
Unanswered == \A r \in Requests :
  pc[r] \in {"new", "admitted", "waiting", "granted", "running"} => code[r] = "none"

\* No client is answered before its request leaves the interceptors.
LEMMA UnansweredInvariance == Spec => []Unanswered
<1>1. Init => Unanswered
  BY DEF Init, Unanswered
<1>2. ASSUME IInv, Unanswered, [Next]_vars PROVE Unanswered'
  <2>1. ASSUME NEW r \in Requests, Release(r), code' = [code EXCEPT ![r] = "OK"]
                                     \/ code' = [code EXCEPT ![r] = "Canceled"]
        PROVE  Unanswered'
    <3>1. CASE waiters = <<>>
      BY <1>2, <2>1, <3>1 DEF Release, IInv, TypeOK, Unanswered
    <3>2. CASE waiters # <<>>
      <4>1. Head(waiters) \in Requests /\ Head(waiters) = waiters[1]
            /\ 1 \in 1..Len(waiters)
        BY <1>2, <3>2 DEF IInv, TypeOK
      <4>2. pc[Head(waiters)] = "waiting"
        BY <1>2, <4>1 DEF IInv, NoLostWakeup
      <4>3. pc' = [pc EXCEPT ![r] = "leaving", ![Head(waiters)] = "granted"]
        BY <2>1, <3>2 DEF Release
      <4>4. CASE Head(waiters) = r
        BY <1>2, <2>1, <4>1, <4>2, <4>3, <4>4 DEF IInv, TypeOK, Unanswered
      <4>5. CASE Head(waiters) # r
        BY <1>2, <2>1, <4>1, <4>2, <4>3, <4>5 DEF IInv, TypeOK, Unanswered
      <4>6. QED
        BY <4>4, <4>5
    <3>3. QED
      BY <3>1, <3>2
  <2> USE <1>2 DEF IInv, TypeOK, Unanswered
  <2>2. ASSUME NEW r \in Requests, DoubleCheck(r) PROVE Unanswered'
    <3>1. CASE r \in cancelled
      <4>1. Release(r) /\ code' = [code EXCEPT ![r] = "Canceled"]
        BY <2>2, <3>1 DEF DoubleCheck
      <4>2. QED
        BY <2>1, <4>1
    <3>2. CASE r \notin cancelled
      BY <2>2, <3>2 DEF DoubleCheck
    <3>3. QED
      BY <3>1, <3>2
  <2>3. ASSUME NEW r \in Requests, Finish(r) PROVE Unanswered'
    BY <2>1, <2>3 DEF Finish
  <2>4. ASSUME NEW r \in Requests, TryAcquire(r) \/ Reject(r) \/ ReleaseLimit(r)
        PROVE  Unanswered'
    BY <2>4 DEF TryAcquire, Reject, ReleaseLimit
  <2>5. ASSUME NEW r \in Requests, Acquire(r) \/ AcquireCancelled(r)
        PROVE  Unanswered'
    BY <2>5 DEF Acquire, AcquireCancelled
  <2>6. ASSUME NEW r \in Requests, Panic(r) PROVE Unanswered'
    BY <2>6 DEF Panic, Admitted
  <2>7. ASSUME NEW r \in Requests, Cancel(r) \/ Reissue(r) PROVE Unanswered'
    BY <2>7 DEF Cancel, Reissue
  <2>8. CASE UNCHANGED vars
    BY <2>8 DEF vars
  <2>9. QED
    BY <2>2, <2>3, <2>4, <2>5, <2>6, <2>7, <2>8 DEF Next, ServerStep
<1>3. QED
  BY <1>1, <1>2, Invariance, PTL DEF Spec

\* The double check does its work: no handler is started for a request whose
\* context was done before, even if the semaphore had been granted to it.
THEOREM CancelledNotExecuted == Spec => CancelledNeverExecuted
<1>1. ASSUME IInv, Unanswered, [Next]_vars
      PROVE  [CancelledStep]_vars
  <2> SUFFICES ASSUME NEW r \in Requests, r \in cancelled,
                      pc[r] \in {"admitted", "waiting", "granted"}
               PROVE  /\ pc'[r] # "running"
                      /\ code'[r] \in {"none", "Canceled", "Lost"}
    BY DEF CancelledStep
  <2> USE <1>1 DEF IInv, TypeOK, Unanswered
  <2>1. code[r] = "none" /\ pc[r] # "running" /\ pc[r] # "new" /\ pc[r] # "done"
    OBVIOUS
  <2>2. ASSUME NEW q \in Requests, Release(q) PROVE pc'[r] # "running"
    <3>1. Head(waiters) \in Requests \/ waiters = <<>>
      OBVIOUS
    <3>2. QED
      BY <2>1, <2>2, <3>1 DEF Release
  <2>3. ASSUME NEW q \in Requests, DoubleCheck(q)
        PROVE  pc'[r] # "running" /\ code'[r] \in {"none", "Canceled", "Lost"}
    <3>1. CASE q \in cancelled
      BY <2>1, <2>2, <2>3, <3>1 DEF DoubleCheck
    <3>2. CASE q \notin cancelled
      BY <2>1, <2>3, <3>2 DEF DoubleCheck
    <3>3. QED
      BY <3>1, <3>2
  <2>4. ASSUME NEW q \in Requests, Finish(q)
        PROVE  pc'[r] # "running" /\ code'[r] \in {"none", "Canceled", "Lost"}
    BY <2>1, <2>2, <2>4 DEF Finish
  <2>5. ASSUME NEW q \in Requests,
               \/ TryAcquire(q) \/ Reject(q) \/ ReleaseLimit(q)
               \/ Acquire(q) \/ AcquireCancelled(q) \/ Cancel(q) \/ Reissue(q)
        PROVE  pc'[r] # "running" /\ code'[r] \in {"none", "Canceled", "Lost"}
    BY <2>1, <2>5 DEF TryAcquire, Reject, ReleaseLimit, Acquire,
                      AcquireCancelled, Cancel, Reissue
  <2>6. ASSUME NEW q \in Requests, Panic(q)
        PROVE  pc'[r] # "running" /\ code'[r] \in {"none", "Canceled", "Lost"}
    BY <2>1, <2>6 DEF Panic, Admitted
  <2>7. CASE UNCHANGED vars
    BY <2>1, <2>7 DEF vars
  <2>8. QED
    BY <2>3, <2>4, <2>5, <2>6, <2>7 DEF Next, ServerStep
<1>2. QED
  BY <1>1, Invariance, UnansweredInvariance, PTL
     DEF Spec, CancelledNeverExecuted, CancelledStep

\* What the property says of one step.
InOrderStep ==
  \A r, s \in Requests :
    pc[s] = "waiting" /\ pc'[s] = "waiting" =>
      /\ pc[r] # "granted" /\ pc'[r] = "granted" => Behind(s, r)
      /\ Behind(s, r)' => Behind(s, r)

\* A step that leaves the list of waiters alone, and hands the lock to nobody.
LEMMA QuietInOrder ==
  ASSUME waiters' = waiters,
         \A q \in Requests : pc[q] # "granted" => pc'[q] # "granted"
  PROVE  InOrderStep
BY DEF InOrderStep, Behind

\* Release hands the lock to the first waiter, and the rest move up.
LEMMA ReleaseInOrder ==
  ASSUME IInv, NEW r \in Requests, pc[r] \in Holding, Release(r)
  PROVE  InOrderStep
<1> USE DEF IInv
<1>1. CASE waiters = <<>>
  <2>1. waiters' = waiters /\ \A q \in Requests : pc[q] # "granted" => pc'[q] # "granted"
    BY <1>1 DEF Release, TypeOK
  <2> QED BY <2>1, QuietInOrder
<1>2. CASE waiters # <<>>
  <2>1. /\ pc' = [pc EXCEPT ![r] = "leaving", ![Head(waiters)] = "granted"]
        /\ waiters' = Tail(waiters)
    BY <1>2 DEF Release
  <2>2. /\ Len(waiters) \in Nat /\ Len(waiters) >= 1
        /\ Head(waiters) = waiters[1] /\ waiters[1] \in Requests
        /\ Len(waiters') = Len(waiters) - 1
        /\ \A i \in 1..(Len(waiters) - 1) : waiters'[i] = waiters[i + 1]
    BY <1>2, <2>1 DEF TypeOK
  <2> SUFFICES ASSUME NEW q \in Requests, NEW s \in Requests,
                      pc[s] = "waiting", pc'[s] = "waiting"
               PROVE  /\ pc[q] # "granted" /\ pc'[q] = "granted" => Behind(s, q)
                      /\ Behind(s, q)' => Behind(s, q)
    BY DEF InOrderStep
  <2>3. ASSUME pc[q] # "granted", pc'[q] = "granted" PROVE Behind(s, q)
    <3>1. q = waiters[1]
      BY <2>1, <2>2, <2>3 DEF TypeOK
    <3>2. PICK j \in 1..Len(waiters) : waiters[j] = s
      BY DEF NoLostWakeup
    <3>3. s # waiters[1]
      BY <2>3, <3>1
    <3>4. 1 \in 1..Len(waiters) /\ 1 < j
      BY <2>2, <3>2, <3>3
    <3> QED BY <3>1, <3>2, <3>4 DEF Behind
  <2>4. ASSUME Behind(s, q)' PROVE Behind(s, q)
    <3>1. PICK i \in 1..Len(waiters'), j \in 1..Len(waiters') :
            i < j /\ waiters'[i] = q /\ waiters'[j] = s
      BY <2>4 DEF Behind
    <3>2. /\ i + 1 \in 1..Len(waiters) /\ j + 1 \in 1..Len(waiters) /\ i + 1 < j + 1
          /\ waiters[i + 1] = q /\ waiters[j + 1] = s
      BY <2>2, <3>1
    <3> QED BY <3>2 DEF Behind
  <2> QED BY <2>3, <2>4
<1> QED BY <1>1, <1>2

\* A request queues up at the end of the list.
LEMMA AcquireInOrder ==
  ASSUME IInv, NEW r \in Requests, Acquire(r) PROVE InOrderStep
<1> USE DEF IInv
<1> SUFFICES ASSUME NEW q \in Requests, NEW s \in Requests,
                    pc[s] = "waiting", pc'[s] = "waiting"
             PROVE  /\ pc[q] # "granted" /\ pc'[q] = "granted" => Behind(s, q)
                    /\ Behind(s, q)' => Behind(s, q)
  BY DEF InOrderStep
<1>1. waiters # <<>>
  BY DEF NoLostWakeup
<1>2. /\ pc[r] = "admitted" /\ waiters' = Append(waiters, r)
      /\ pc' = [pc EXCEPT ![r] = "waiting"]
  BY <1>1 DEF Acquire
<1>3. pc[q] # "granted" => pc'[q] # "granted"
  BY <1>2 DEF TypeOK
<1>4. /\ Len(waiters) \in Nat /\ Len(waiters') = Len(waiters) + 1
      /\ \A i \in 1..Len(waiters) : waiters'[i] = waiters[i]
      /\ waiters'[Len(waiters) + 1] = r
  BY <1>2 DEF TypeOK
<1>5. ASSUME Behind(s, q)' PROVE Behind(s, q)
  <2>1. PICK i \in 1..Len(waiters'), j \in 1..Len(waiters') :
          i < j /\ waiters'[i] = q /\ waiters'[j] = s
    BY <1>5 DEF Behind
  <2>2. s # r
    BY <1>2
  <2>3. j \in 1..Len(waiters) /\ i \in 1..Len(waiters)
    BY <1>4, <2>1, <2>2
  <2> QED BY <1>4, <2>1, <2>3 DEF Behind
<1> QED BY <1>3, <1>5

\* A request whose context is done leaves the list from the middle.
LEMMA AcquireCancelledInOrder ==
  ASSUME IInv, NEW r \in Requests, AcquireCancelled(r) PROVE InOrderStep
<1> USE DEF IInv
<1>1. PICK k \in 1..Len(waiters) : waiters[k] = r /\ waiters' = Without(waiters, k)
  BY DEF AcquireCancelled
<1>2. pc' = [pc EXCEPT ![r] = "leaving"]
  BY DEF AcquireCancelled
<1>3. /\ Len(waiters') = Len(waiters) - 1
      /\ \A j \in 1..(Len(waiters) - 1) :
           waiters'[j] = IF j < k THEN waiters[j] ELSE waiters[j + 1]
  BY <1>1, WithoutProperties DEF TypeOK
<1>4. Len(waiters) \in Nat
  BY DEF TypeOK
<1>5. \A q \in Requests : pc[q] # "granted" => pc'[q] # "granted"
  BY <1>2 DEF TypeOK
<1>6. ASSUME NEW q \in Requests, NEW s \in Requests, Behind(s, q)' PROVE Behind(s, q)
  <2>1. PICK i \in 1..Len(waiters'), j \in 1..Len(waiters') :
          i < j /\ waiters'[i] = q /\ waiters'[j] = s
    BY <1>6 DEF Behind
  <2>2. i \in 1..(Len(waiters) - 1) /\ j \in 1..(Len(waiters) - 1)
    BY <1>3, <2>1
  <2> DEFINE at(n) == IF n < k THEN n ELSE n + 1
  <2>3. /\ at(i) \in 1..Len(waiters) /\ at(j) \in 1..Len(waiters) /\ at(i) < at(j)
    BY <1>4, <2>1, <2>2
  <2>4. waiters[at(i)] = q /\ waiters[at(j)] = s
    BY <1>3, <2>1, <2>2
  <2> QED BY <2>3, <2>4 DEF Behind
<1> QED BY <1>5, <1>6 DEF InOrderStep

\* The lock is granted in the order of the list, which cancellations leave from
\* the middle: as long as a request waits, only those before it get the lock.
THEOREM ServedInOrder == Spec => NoOvertaking
<1>1. ASSUME IInv, [Next]_vars PROVE [InOrderStep]_vars
  <2>1. ASSUME NEW r \in Requests, TryAcquire(r) \/ Reject(r) \/ ReleaseLimit(r)
                                   \/ Cancel(r) \/ Reissue(r)
        PROVE  InOrderStep
    <3>1. waiters' = waiters /\ \A q \in Requests : pc[q] # "granted" => pc'[q] # "granted"
      BY <1>1, <2>1 DEF TryAcquire, Reject, ReleaseLimit, Cancel, Reissue, IInv, TypeOK
    <3> QED BY <3>1, QuietInOrder
  <2>2. ASSUME NEW r \in Requests, DoubleCheck(r) PROVE InOrderStep
    <3>1. CASE r \in cancelled
      BY <1>1, <2>2, <3>1, ReleaseInOrder DEF DoubleCheck, Holding
    <3>2. CASE r \notin cancelled
      <4>1. waiters' = waiters /\ \A q \in Requests : pc[q] # "granted" => pc'[q] # "granted"
        BY <1>1, <2>2, <3>2 DEF DoubleCheck, IInv, TypeOK
      <4> QED BY <4>1, QuietInOrder
    <3> QED BY <3>1, <3>2
  <2>3. ASSUME NEW r \in Requests, Finish(r) PROVE InOrderStep
    BY <1>1, <2>3, ReleaseInOrder DEF Finish, Holding
  <2>4. ASSUME NEW r \in Requests, Panic(r) PROVE InOrderStep
    <3>1. \A s \in Requests : pc[s] = "waiting" => pc'[s] # "waiting"
      BY <1>1, <2>4 DEF Panic, Admitted, IInv, TypeOK
    <3> QED BY <3>1 DEF InOrderStep
  <2> QED BY <1>1, <2>1, <2>2, <2>3, <2>4, AcquireInOrder, AcquireCancelledInOrder
          DEF Next, ServerStep
<1> QED BY <1>1, Invariance, PTL DEF Spec, NoOvertaking, InOrderStep

-----------------------------------------------------------------------------
(* Refinement *)

Queued == At({"admitted", "waiting", "granted"})
Active == At({"running"})

\* There are no more requests queued or active than hold a slot.
LEMMA SlotsSuffice ==
  ASSUME IInv
  PROVE  /\ IsFiniteSet(Queued \cup Active)
         /\ Cardinality(Queued \cup Active) \in Nat
         /\ Cardinality(Queued \cup Active) <= limitCur
<1>1. Queued \cup Active \subseteq At(Admitted)
  BY DEF Queued, Active, At, Admitted
<1>2. QED
  BY <1>1, CardAt, FS_Subset, FS_CardinalityType DEF IInv, LimitInv

\* Laying the lock down starts no handler and takes nothing but the releasing
\* request out of the queue or out of execution.
LEMMA ReleaseMaps ==
  ASSUME IInv, NEW r \in Requests, pc[r] \in Holding, Release(r)
  PROVE  Queued' = Queued \ {r} /\ Active' = Active \ {r}
<1> USE DEF IInv, TypeOK, Queued, Active, At, Holding
<1>1. CASE waiters = <<>>
  BY <1>1 DEF Release
<1>2. CASE waiters # <<>>
  <2>1. Head(waiters) \in Requests /\ Head(waiters) = waiters[1]
        /\ 1 \in 1..Len(waiters)
    BY <1>2
  <2>2. pc[Head(waiters)] = "waiting"
    BY <2>1 DEF NoLostWakeup
  <2>3. /\ \A q \in Requests : q # r /\ q # Head(waiters) => pc'[q] = pc[q]
        /\ pc'[r] = "leaving" /\ pc'[Head(waiters)] = "granted"
    BY <1>2, <2>1, <2>2 DEF Release
  <2>4. QED
    BY <2>1, <2>2, <2>3
<1>3. QED
  BY <1>1, <1>2

\* The interceptors implement the abstract server.
THEOREM Refinement == Spec => ImplementsBoundedServer
<1>1. Init => Abstract!ServerInit
  BY DEF Init, Abstract!ServerInit, At
<1>2. ASSUME IInv, [Next]_vars
      PROVE  [Abstract!ServerNext]_(Abstract!abstractVars)
  <2> USE <1>2 DEF IInv
  <2>1. ASSUME NEW r \in Requests, TryAcquire(r) PROVE Abstract!Admit(r)
    <3>1. Queued' = Queued \cup {r} /\ Active' = Active /\ r \notin Queued \cup Active
      BY <2>1 DEF TryAcquire, Queued, Active, At, TypeOK
    <3>2. Cardinality(Queued \cup Active) < Limit
      BY <2>1, SlotsSuffice, LimitAssumption DEF TryAcquire, TypeOK
    <3>3. QED
      <4>1. Abstract!Cardinality(Queued \cup Active) = Cardinality(Queued \cup Active)
        BY DEF Abstract!Cardinality, Abstract!IsFiniteSet, Cardinality, IsFiniteSet
      <4>2. QED
        BY <3>1, <3>2, <4>1 DEF Abstract!Admit, Queued, Active
  <2>2. ASSUME NEW r \in Requests, DoubleCheck(r)
        PROVE  Abstract!Start(r) \/ Abstract!Abandon(r)
    <3>1. CASE r \in cancelled
      <4>1. pc[r] = "granted" /\ Release(r)
        BY <2>2, <3>1 DEF DoubleCheck
      <4>2. Queued' = Queued \ {r} /\ Active' = Active /\ r \in Queued
        BY <4>1, ReleaseMaps DEF Holding, Queued, Active, At
      <4>3. QED
        BY <4>2 DEF Abstract!Abandon, Queued, Active
    <3>2. CASE r \notin cancelled
      <4>1. pc[r] = "granted" /\ pc' = [pc EXCEPT ![r] = "running"]
        BY <2>2, <3>2 DEF DoubleCheck
      <4>2. Active = {} /\ r \in Queued
        BY <4>1 DEF LockInv, Holding, Active, Queued, At
      <4>3. Queued' = Queued \ {r} /\ Active' = {r}
        BY <4>1, <4>2 DEF Active, Queued, At, TypeOK
      <4>4. QED
        BY <4>2, <4>3 DEF Abstract!Start, Queued, Active
    <3>3. QED
      BY <3>1, <3>2
  <2>3. ASSUME NEW r \in Requests, Finish(r) PROVE Abstract!End(r)
    <3>1. pc[r] = "running" /\ Release(r)
      BY <2>3 DEF Finish
    <3>2. Active = {r} /\ r \notin Queued
      BY <3>1 DEF LockInv, Holding, Active, Queued, At
    <3>3. Queued' = Queued /\ Active' = {}
      BY <3>1, <3>2, ReleaseMaps DEF Holding
    <3>4. QED
      BY <3>2, <3>3 DEF Abstract!End, Queued, Active
  <2>4. ASSUME NEW r \in Requests, AcquireCancelled(r) PROVE Abstract!Abandon(r)
    <3>1. Queued' = Queued \ {r} /\ Active' = Active /\ r \in Queued
      BY <2>4 DEF AcquireCancelled, Queued, Active, At, TypeOK
    <3>2. QED
      BY <3>1 DEF Abstract!Abandon, Queued, Active
  <2>5. ASSUME NEW r \in Requests, Panic(r) PROVE Abstract!Die
    <3>1. Queued' = {} /\ Active' = {}
      BY <2>5 DEF Panic, Queued, Active, At, Admitted
    <3>2. QED
      BY <3>1 DEF Abstract!Die, Queued, Active
  <2>6. ASSUME NEW r \in Requests,
               \/ Reject(r) \/ ReleaseLimit(r) \/ Acquire(r)
               \/ Cancel(r) \/ Reissue(r)
        PROVE  UNCHANGED <<Queued, Active>>
    BY <2>6 DEF Reject, ReleaseLimit, Acquire, Cancel, Reissue,
                Queued, Active, At, TypeOK
  <2>7. CASE UNCHANGED vars
    BY <2>7 DEF vars, Abstract!abstractVars, At
  <2>8. ASSUME NEW r \in Requests,
               ServerStep(r) \/ Finish(r) \/ Panic(r) \/ Cancel(r) \/ Reissue(r)
        PROVE  Abstract!ServerNext \/ UNCHANGED <<Queued, Active>>
    BY <2>1, <2>2, <2>3, <2>4, <2>5, <2>6, <2>8 DEF ServerStep, Abstract!ServerNext
  <2>9. QED
    BY <2>7, <2>8 DEF Next, Abstract!abstractVars, Queued, Active
<1>3. QED
  BY <1>1, <1>2, Invariance, PTL DEF Spec, ImplementsBoundedServer, Abstract!ServerSpec
=============================================================================
