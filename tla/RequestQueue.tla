---------------------------- MODULE RequestQueue ----------------------------
(***************************************************************************)
(* The gRPC request path of csilvm: RequestLimitInterceptor around         *)
(* SerializingInterceptor around the handler (pkg/csilvm/server.go,        *)
(* chained in cmd/csilvm/csilvm.go).  Both interceptors hold a             *)
(* golang.org/x/sync/semaphore.Weighted; the second one waits for it in a  *)
(* FIFO list that a cancelled context leaves.  A handler's panic is not    *)
(* recovered by any interceptor and takes the process, and with it both    *)
(* semaphores, down.                                                       *)
(***************************************************************************)
EXTENDS Naturals, Sequences, FiniteSets

CONSTANTS Requests,   \* the calls the CO's clients have outstanding at a time
          Limit       \* the -request-limit flag

\* main exits unless request-limit is a positive integer.
ASSUME LimitAssumption == Limit \in Nat \ {0}
ASSUME RequestsAssumption == IsFiniteSet(Requests)

VARIABLES
  pc,          \* where the goroutine of each request is
  cancelled,   \* the requests whose context is done
  code,        \* what the client was answered
  limitCur,    \* weight held of RequestLimitInterceptor's semaphore
  serialCur,   \* weight held of SerializingInterceptor's semaphore
  waiters      \* FIFO of the requests blocked in its Acquire

vars == <<pc, cancelled, code, limitCur, serialCur, waiters>>

Stages == {"new", "admitted", "waiting", "granted", "running", "leaving", "done"}
Codes == {"none", "OK", "Canceled", "Unavailable", "Lost"}

\* The stages in which a request holds a slot of the limit, and the lock.
Admitted == {"admitted", "waiting", "granted", "running", "leaving"}
Holding == {"granted", "running"}

At(stages) == {r \in Requests : pc[r] \in stages}

\* container/list Remove, of the i-th element.
Without(s, i) == [j \in 1..(Len(s) - 1) |-> IF j < i THEN s[j] ELSE s[j + 1]]

Init ==
  /\ pc = [r \in Requests |-> "new"]
  /\ cancelled = {}
  /\ code = [r \in Requests |-> "none"]
  /\ limitCur = 0
  /\ serialCur = 0
  /\ waiters = <<>>

-----------------------------------------------------------------------------
(* RequestLimitInterceptor *)

\* Mutant: off by one, the queue takes Limit + 1 requests.
TryAcquireOffByOne(r) ==
  /\ pc[r] = "new"
  /\ limitCur <= Limit
  /\ limitCur' = limitCur + 1
  /\ pc' = [pc EXCEPT ![r] = "admitted"]
  /\ UNCHANGED <<cancelled, code, serialCur, waiters>>

TryAcquire(r) ==
  /\ pc[r] = "new"
  /\ limitCur < Limit
  /\ limitCur' = limitCur + 1
  /\ pc' = [pc EXCEPT ![r] = "admitted"]
  /\ UNCHANGED <<cancelled, code, serialCur, waiters>>

Reject(r) ==
  /\ pc[r] = "new"
  /\ limitCur >= Limit
  /\ pc' = [pc EXCEPT ![r] = "done"]
  /\ code' = [code EXCEPT ![r] = "Unavailable"]
  /\ UNCHANGED <<cancelled, limitCur, serialCur, waiters>>

\* Mutant: Release is called after a successful handler only, not deferred.
ReleaseLimitOnSuccess(r) ==
  /\ pc[r] = "leaving"
  /\ limitCur' = IF code[r] = "OK" THEN limitCur - 1 ELSE limitCur
  /\ pc' = [pc EXCEPT ![r] = "done"]
  /\ UNCHANGED <<cancelled, code, serialCur, waiters>>

\* The deferred Release, after the inner interceptor has returned.
ReleaseLimit(r) ==
  /\ pc[r] = "leaving"
  /\ limitCur' = limitCur - 1
  /\ pc' = [pc EXCEPT ![r] = "done"]
  /\ UNCHANGED <<cancelled, code, serialCur, waiters>>

-----------------------------------------------------------------------------
(* SerializingInterceptor *)

\* sem.Acquire(ctx, 1): at once when nobody holds or awaits it, else queue up.
Acquire(r) ==
  /\ pc[r] = "admitted"
  /\ \/ /\ serialCur = 0 /\ waiters = <<>>
        /\ serialCur' = 1
        /\ pc' = [pc EXCEPT ![r] = "granted"]
        /\ UNCHANGED waiters
     \/ /\ ~(serialCur = 0 /\ waiters = <<>>)
        /\ waiters' = Append(waiters, r)
        /\ pc' = [pc EXCEPT ![r] = "waiting"]
        /\ UNCHANGED serialCur
  /\ UNCHANGED <<cancelled, code, limitCur>>

\* Mutant: a mutex in the semaphore's place, deaf to the context.
AcquireDeaf(r) == FALSE

\* Acquire's select takes ctx.Done() and finds it has not been granted yet.
\* A waiter that was granted in the meantime is past this: Release moved it on.
AcquireCancelled(r) ==
  /\ pc[r] = "waiting" /\ r \in cancelled
  /\ \E i \in 1..Len(waiters) :
       /\ waiters[i] = r
       /\ waiters' = Without(waiters, i)
  /\ pc' = [pc EXCEPT ![r] = "leaving"]
  /\ code' = [code EXCEPT ![r] = "Canceled"]
  /\ UNCHANGED <<cancelled, limitCur, serialCur>>

\* Mutant: the weight is returned and no waiter is told.
ReleaseSilently(r) ==
  /\ serialCur' = serialCur - 1
  /\ pc' = [pc EXCEPT ![r] = "leaving"]
  /\ UNCHANGED waiters

\* Mutant: the last waiter is served first.
ReleaseLifo(r) ==
  \/ /\ waiters = <<>>
     /\ serialCur' = serialCur - 1
     /\ pc' = [pc EXCEPT ![r] = "leaving"]
     /\ UNCHANGED waiters
  \/ /\ waiters # <<>>
     /\ pc' = [pc EXCEPT ![r] = "leaving", ![waiters[Len(waiters)]] = "granted"]
     /\ waiters' = Without(waiters, Len(waiters))
     /\ UNCHANGED serialCur

\* sem.Release(1) by the holder r, which hands the weight to the first waiter.
Release(r) ==
  \/ /\ waiters = <<>>
     /\ serialCur' = serialCur - 1
     /\ pc' = [pc EXCEPT ![r] = "leaving"]
     /\ UNCHANGED waiters
  \/ /\ waiters # <<>>
     /\ pc' = [pc EXCEPT ![r] = "leaving", ![Head(waiters)] = "granted"]
     /\ waiters' = Tail(waiters)
     /\ UNCHANGED serialCur

\* Mutant: no second look at the context.
SingleCheck(r) ==
  /\ pc[r] = "granted"
  /\ pc' = [pc EXCEPT ![r] = "running"]
  /\ UNCHANGED <<cancelled, code, limitCur, serialCur, waiters>>

\* Mutant: the second look releases the lock and does not return.
DoubleCheckFallsThrough(r) ==
  /\ pc[r] = "granted"
  /\ \/ /\ r \in cancelled
        /\ waiters # <<>>
        /\ pc' = [pc EXCEPT ![r] = "running", ![Head(waiters)] = "granted"]
        /\ waiters' = Tail(waiters)
        /\ UNCHANGED serialCur
     \/ /\ r \notin cancelled
        /\ pc' = [pc EXCEPT ![r] = "running"]
        /\ UNCHANGED <<serialCur, waiters>>
  /\ UNCHANGED <<cancelled, code, limitCur>>

\* Mutant: the second look returns without releasing the lock.
DoubleCheckKeepsLock(r) ==
  /\ pc[r] = "granted"
  /\ \/ /\ r \in cancelled
        /\ pc' = [pc EXCEPT ![r] = "leaving"]
        /\ code' = [code EXCEPT ![r] = "Canceled"]
     \/ /\ r \notin cancelled
        /\ pc' = [pc EXCEPT ![r] = "running"]
        /\ UNCHANGED code
  /\ UNCHANGED <<cancelled, limitCur, serialCur, waiters>>

\* "Acquire can still succeed if the context is canceled, double-check it."
DoubleCheck(r) ==
  /\ pc[r] = "granted"
  /\ \/ /\ r \in cancelled
        /\ Release(r)
        /\ code' = [code EXCEPT ![r] = "Canceled"]
        /\ UNCHANGED <<cancelled, limitCur>>
     \/ /\ r \notin cancelled
        /\ pc' = [pc EXCEPT ![r] = "running"]
        /\ UNCHANGED <<cancelled, code, limitCur, serialCur, waiters>>

\* The handler returns, whether or not its context was cancelled meanwhile:
\* no handler looks at its context.
Finish(r) ==
  /\ pc[r] = "running"
  /\ Release(r)
  /\ code' = [code EXCEPT ![r] = "OK"]
  /\ UNCHANGED <<cancelled, limitCur>>

-----------------------------------------------------------------------------
(* The process and its clients *)

\* A handler panics.  The process dies with every request it had admitted and
\* is restarted with new semaphores.
Panic(r) ==
  /\ pc[r] = "running"
  /\ pc' = [q \in Requests |-> IF pc[q] \in Admitted THEN "done" ELSE pc[q]]
  /\ code' = [q \in Requests |-> IF pc[q] \in Admitted THEN "Lost" ELSE code[q]]
  /\ limitCur' = 0
  /\ serialCur' = 0
  /\ waiters' = <<>>
  /\ UNCHANGED cancelled

\* The client cancels a call, or its deadline expires.
Cancel(r) ==
  /\ pc[r] # "done" /\ r \notin cancelled
  /\ cancelled' = cancelled \cup {r}
  /\ UNCHANGED <<pc, code, limitCur, serialCur, waiters>>

\* The client makes another call once the previous one was answered.
Reissue(r) ==
  /\ pc[r] = "done"
  /\ pc' = [pc EXCEPT ![r] = "new"]
  /\ code' = [code EXCEPT ![r] = "none"]
  /\ cancelled' = cancelled \ {r}
  /\ UNCHANGED <<limitCur, serialCur, waiters>>

-----------------------------------------------------------------------------
\* The steps of the interceptors themselves.
ServerStep(r) ==
  \/ TryAcquire(r) \/ Reject(r) \/ Acquire(r) \/ AcquireCancelled(r)
  \/ DoubleCheck(r) \/ ReleaseLimit(r)

Next ==
  \E r \in Requests :
    ServerStep(r) \/ Finish(r) \/ Panic(r) \/ Cancel(r) \/ Reissue(r)

Spec == Init /\ [][Next]_vars

\* Goroutines are scheduled fairly.  That a handler comes to an end is not
\* assumed: it may hang in a call to StoLake.
FairSpec == Spec /\ \A r \in Requests : WF_vars(ServerStep(r))

-----------------------------------------------------------------------------
(* Properties *)

\* Every variable has its type; the semaphores never exceed their size.
TypeOK ==
  /\ pc \in [Requests -> Stages]
  /\ cancelled \subseteq Requests
  /\ code \in [Requests -> Codes]
  /\ limitCur \in 0..Limit
  /\ serialCur \in 0..1
  /\ waiters \in Seq(Requests)

\* "Serialize all requests": two handlers never execute at the same time.
MutualExclusion ==
  \A r, s \in Requests : pc[r] = "running" /\ pc[s] = "running" => r = s

\* Neither semaphore leaks weight on any path, cancellations included: what
\* is held is what the requests in flight hold.  A leaked slot would lower
\* the limit for the rest of the process's life, a leaked lock stop it.
NoLeak ==
  /\ limitCur = Cardinality(At(Admitted))
  /\ serialCur = Cardinality(At(Holding))

\* Nobody waits for a lock that nobody holds (a lost wake-up), and the list
\* holds exactly the waiting requests, each once.
NoLostWakeup ==
  /\ waiters # <<>> => serialCur = 1
  /\ \A r \in Requests :
       pc[r] = "waiting" <=> \E i \in 1..Len(waiters) : waiters[i] = r
  /\ \A i, j \in 1..Len(waiters) : waiters[i] = waiters[j] => i = j

\* A request cancelled before its handler was started is never executed ("helps
\* prevent execution of operations that the calling CO is no longer interested
\* in"): if it is answered at all, it is answered Canceled, or lost in a crash.
CancelledNeverExecuted ==
  [][\A r \in Requests :
       r \in cancelled /\ pc[r] \in {"admitted", "waiting", "granted"}
         => /\ pc'[r] # "running"
            /\ code'[r] \in {"none", "Canceled", "Lost"}]_vars

\* s is behind r in the list of waiters.
Behind(s, r) ==
  \E i, j \in 1..Len(waiters) : i < j /\ waiters[i] = r /\ waiters[j] = s

\* Requests get the lock in the order in which they queued up for it: as long
\* as s waits, nothing is granted the lock but what s is behind, and s never
\* gets behind another request.
NoOvertaking ==
  [][\A r, s \in Requests :
       pc[s] = "waiting" /\ pc'[s] = "waiting" =>
         /\ pc[r] # "granted" /\ pc'[r] = "granted" => Behind(s, r)
         /\ Behind(s, r)' => Behind(s, r)]_vars

\* Every request that reached the server is answered if no handler hangs.
EveryRequestAnswered ==
  (\A r \in Requests : []<>(pc[r] # "running")) =>
    \A r \in Requests : pc[r] \in Admitted ~> pc[r] = "done"

\* A cancelled request leaves the queue even when the running handler hangs
\* for ever (TestRequestQueuingWithInterceptors waits for exactly this).
CancelledLeavesQueue ==
  \A r \in Requests :
    pc[r] \in {"admitted", "waiting"} /\ r \in cancelled
      ~> pc[r] \notin {"admitted", "waiting"}

\* The interceptors implement a server that admits Limit requests and works
\* on one at a time.
Abstract ==
  INSTANCE BoundedServer WITH
    queued <- At({"admitted", "waiting", "granted"}),
    active <- At({"running"})
ImplementsBoundedServer == Abstract!ServerSpec
=============================================================================
