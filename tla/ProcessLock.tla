----------------------------- MODULE ProcessLock -----------------------------
(***************************************************************************)
(* packages/core/src/process-locker.ts: the lock of one process.           *)
(*                                                                         *)
(* Lock is the set of ProcessLock objects, IdOf[l] the id an object was    *)
(* constructed with. LOCKS[id] is entry[id] (is the property defined?) and *)
(* queue[id] (the waiting ourTake closures, named by the object they take  *)
(* the lock for). JavaScript runs one callback at a time, so each action   *)
(* is one whole call or timer callback: acquire(), tryLock(), unlock(),    *)
(* the ttl timer and the timer of acquire()'s timeout.                     *)
(*                                                                         *)
(* An object asks for the lock only while it neither holds it nor waits:   *)
(* ProcessLocker constructs an object for every request, and an object     *)
(* whose tenure or wait is over has the state of a new one.                *)
(***************************************************************************)
EXTENDS Naturals, Sequences, Arrays

CONSTANTS
    Lock,     \* ProcessLock objects
    Id,       \* lock ids
    IdOf,     \* the id each object was constructed with
    Ttl,      \* is a ttl given? the choices of the callers
    Timeout   \* is a timeout given? the choices of the callers

ASSUME LockAssumption ==
    /\ IdOf \in [Lock -> Id]
    /\ Ttl \subseteq BOOLEAN
    /\ Timeout \subseteq BOOLEAN

VARIABLES
    entry,      \* LOCKS[id] !== undefined
    queue,      \* LOCKS[id].queue
    holding,    \* ProcessLock.holding
    promise,    \* the promise the last acquire() of the object returned
    ttl,        \* the ttl argument an enqueued ourTake remembers
    ttlTimer,   \* is ttlTimeout armed?
    waitTimer   \* is timeoutId armed?

vars == <<entry, queue, holding, promise, ttl, ttlTimer, waitTimer>>

Promise == {"none", "pending", "resolved", "rejected"}

TypeOK ==
    /\ entry \in [Id -> BOOLEAN]
    /\ queue \in [Id -> Seq(Lock)]
    /\ holding \in [Lock -> BOOLEAN]
    /\ promise \in [Lock -> Promise]
    /\ ttl \in [Lock -> BOOLEAN]
    /\ ttlTimer \in [Lock -> BOOLEAN]
    /\ waitTimer \in [Lock -> BOOLEAN]

Init ==
    /\ entry = [i \in Id |-> FALSE]
    /\ queue = [i \in Id |-> <<>>]
    /\ holding = [l \in Lock |-> FALSE]
    /\ promise = [l \in Lock |-> "none"]
    /\ ttl = [l \in Lock |-> FALSE]
    /\ ttlTimer = [l \in Lock |-> FALSE]
    /\ waitTimer = [l \in Lock |-> FALSE]

\* A new object, or one as good as new.
Fresh(l) == ~holding[l] /\ promise[l] # "pending"

-----------------------------------------------------------------------------
\* Definitions that say "Faulty" are variants for the mutation runs.

\* clearTimeout(handle).               Faulty: it is forgotten.
KeepTimeout(timer, l) == timer
ClearTimeout(timer, l) == [timer EXCEPT ![l] = FALSE]

\* if (ttl) this.ttlTimeout = setTimeout(() => this.unlock(), ttl * 1000).
\* Faulty: no ttl is ever armed.
NoTtl(timer, l, t) == timer
ArmTtl(timer, l, t) == [timer EXCEPT ![l] = t]

\* this.holding = false.               Faulty: it is forgotten.
StillHolding(l) == holding
NotHolding(l) == [holding EXCEPT ![l] = FALSE]

\* delete LOCKS[id].                   Faulty: it is forgotten.
EntryKept(i) == entry
EntryDeleted(i) == [entry EXCEPT ![i] = FALSE]

\* The waiter LOCKS[id].queue.shift() returns.      Faulty: pop().
LastWaiter(i) == queue[i][Len(queue[i])]
NextWaiter(i) == Head(queue[i])

-----------------------------------------------------------------------------
\* LOCKS[id] = { queue: [] }, and the object takes the lock at once.
Create(l, t) ==
    /\ entry' = [entry EXCEPT ![IdOf[l]] = TRUE]
    /\ queue' = [queue EXCEPT ![IdOf[l]] = <<>>]
    /\ holding' = [holding EXCEPT ![l] = TRUE]
    /\ ttlTimer' = ArmTtl(ttlTimer, l, t)

\* acquire() of a free id.
AcquireFree(l, t) ==
    /\ Fresh(l)
    /\ ~entry[IdOf[l]]
    /\ Create(l, t)
    /\ promise' = [promise EXCEPT ![l] = "resolved"]
    /\ UNCHANGED <<ttl, waitTimer>>

\* acquire() of a taken id: ourTake is queued, and its timer armed if w.
AcquireWait(l, t, w) ==
    /\ Fresh(l)
    /\ entry[IdOf[l]]
    /\ queue' = [queue EXCEPT ![IdOf[l]] = Append(@, l)]
    /\ promise' = [promise EXCEPT ![l] = "pending"]
    /\ ttl' = [ttl EXCEPT ![l] = t]
    /\ waitTimer' = [waitTimer EXCEPT ![l] = w]
    /\ UNCHANGED <<entry, holding, ttlTimer>>

\* tryLock() of a free id takes it.
TryLockFree(l, t) ==
    /\ Fresh(l)
    /\ ~entry[IdOf[l]]
    /\ Create(l, t)
    /\ UNCHANGED <<promise, ttl, waitTimer>>

\* tryLock() of a taken id leaves the object not holding.
TryLockTaken(l) ==
    /\ Fresh(l)
    /\ entry[IdOf[l]]
    /\ holding' = [holding EXCEPT ![l] = FALSE]
    /\ UNCHANGED <<entry, queue, promise, ttl, ttlTimer, waitTimer>>

\* unlock() with waiters: the first ourTake is shifted and called. It takes the
\* lock for its object, drops its timeout and arms its own ttl timer.
HandOver(l) ==
    LET id   == IdOf[l]
        next == NextWaiter(id)
    IN  /\ holding[l]
        /\ queue[id] # <<>>
        /\ queue' = [queue EXCEPT ![id] = Tail(@)]
        /\ holding' = [NotHolding(l) EXCEPT ![next] = TRUE]
        /\ promise' = [promise EXCEPT ![next] = "resolved"]
        /\ waitTimer' = ClearTimeout(waitTimer, next)
        /\ ttlTimer' = ArmTtl(ClearTimeout(ttlTimer, l), next, ttl[next])
        /\ UNCHANGED <<entry, ttl>>

\* unlock() without waiters: the entry is deleted.
Free(l) ==
    /\ holding[l]
    /\ queue[IdOf[l]] = <<>>
    /\ entry' = EntryDeleted(IdOf[l])
    /\ holding' = NotHolding(l)
    /\ ttlTimer' = ClearTimeout(ttlTimer, l)
    /\ UNCHANGED <<queue, promise, ttl, waitTimer>>

\* unlock() of an object that does not hold the lock only clears its ttl timer.
UnlockNotHeld(l) ==
    /\ ~holding[l]
    /\ ttlTimer' = ClearTimeout(ttlTimer, l)
    /\ UNCHANGED <<entry, queue, holding, promise, ttl, waitTimer>>

\* unlock()
Unlock(l) == HandOver(l) \/ Free(l) \/ UnlockNotHeld(l)

\* The ttl timer of a tenure fires and calls unlock().
TtlExpire(l) == ttlTimer[l] /\ Unlock(l)

\* The timer of acquire()'s timeout fires: ourTake leaves the queue.
WaitTimeout(l) ==
    /\ waitTimer[l]
    /\ waitTimer' = ClearTimeout(waitTimer, l)
    /\ queue' = IF entry[IdOf[l]]
                THEN [queue EXCEPT ![IdOf[l]] = arrayRemoveItem(@, l)]
                ELSE queue
    /\ promise' = [promise EXCEPT ![l] = "rejected"]
    /\ UNCHANGED <<entry, holding, ttl, ttlTimer>>

Next ==
    \E l \in Lock :
        \/ \E t \in Ttl : AcquireFree(l, t)
        \/ \E t \in Ttl, w \in Timeout : AcquireWait(l, t, w)
        \/ \E t \in Ttl : TryLockFree(l, t)
        \/ TryLockTaken(l)
        \/ Unlock(l)
        \/ TtlExpire(l)
        \/ WaitTimeout(l)

Spec == Init /\ [][Next]_vars

\* Armed timers fire. Nobody is obliged to call unlock().
TimersFire == \A l \in Lock : WF_vars(TtlExpire(l)) /\ WF_vars(WaitTimeout(l))

FairSpec == Spec /\ TimersFire

-----------------------------------------------------------------------------
Waiting(l) == promise[l] = "pending"

\* Two objects of one id never hold it together, whichever of hand-over, ttl
\* expiry, tryLock and acquire brought them there.
MutualExclusion ==
    \A l, m \in Lock : holding[l] /\ holding[m] /\ IdOf[l] = IdOf[m] => l = m

\* LOCKS[id] exists exactly while an object holds the id. So isLocked() tells
\* the truth, LOCKS[this.id] is defined wherever ourTake and unlock() read it,
\* and there is never a queue that no unlock() will ever shift from.
EntryIffHeld ==
    \A i \in Id : entry[i] <=> \E l \in Lock : IdOf[l] = i /\ holding[l]

NoWaiterLost == \A l \in Lock : Waiting(l) => l \in Items(queue[IdOf[l]])

QueuedAreWaiting ==
    \A i \in Id : \A l \in Items(queue[i]) :
        entry[i] /\ IdOf[l] = i /\ Waiting(l) /\ ~holding[l]

QueuedOnce == \A i \in Id : Once(queue[i])

\* A pending acquire() stands exactly once in the queue of its id, and a closure
\* in a queue belongs to a pending acquire() of an object that does not hold: no
\* waiter is lost, none is called twice, and none whose promise was rejected by
\* the timeout is still handed the lock.
WaitersQueued == NoWaiterLost /\ QueuedAreWaiting /\ QueuedOnce

\* A ttl timer belongs to a running tenure and a timeout timer to a running
\* wait: neither outlives what it bounds, so none ends a later tenure or wait.
TimersCurrent ==
    \A l \in Lock : (ttlTimer[l] => holding[l]) /\ (waitTimer[l] => Waiting(l))

\* The lock passes in the order of the queue: who starts to hold it either
\* found the id free and nobody waiting or was the first of its queue.
NoBarging ==
    [][ \A l \in Lock :
          ~holding[l] /\ holding'[l] =>
             \/ ~entry[IdOf[l]] /\ queue[IdOf[l]] = <<>>
             \/ queue[IdOf[l]] # <<>> /\ Head(queue[IdOf[l]]) = l ]_vars

Timed(l) == holding[l] => ttlTimer[l]

\* An acquire() settles even if no holder ever calls unlock(), once the requests
\* for its id carry a ttl: the queue moves on, and everyone in it has his turn.
EveryWaitSettles ==
    \A i \in Id :
        LET mine == { l \in Lock : IdOf[l] = i }
        IN  <>[](\A l \in mine : Timed(l)) => \A l \in mine : Waiting(l) ~> ~Waiting(l)

\* No tenure with a ttl lasts forever.
EveryTenureEnds == \A l \in Lock : ttlTimer[l] ~> ~holding[l]

=============================================================================
