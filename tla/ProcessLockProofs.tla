-------------------------- MODULE ProcessLockProofs --------------------------
(***************************************************************************)
(* The invariants of ProcessLock for any number of objects, ids and any    *)
(* choice of ttls and timeouts.                                            *)
(*                                                                         *)
(* None of the parts of IInv is inductive alone. Mutual exclusion of a     *)
(* hand-over needs that the holder is the only one and that the queue      *)
(* holds only objects of the id; that nobody takes an id over a queue      *)
(* needs that entry and tenure coincide; and that the entry may be deleted *)
(* needs that everybody who waits stands in the queue.                     *)
(*                                                                         *)
(* The same invariant carries the refinement of FifoLock: the mapping      *)
(* chooses the holder of an id, who is unique; the queue of a free id is   *)
(* empty; and who waits is in the queue and does not hold.                 *)
(***************************************************************************)
EXTENDS ProcessLockRefinement, TLAPS

-----------------------------------------------------------------------------
(* What the array operations do to a queue in which nobody stands twice.   *)

\* arrayRemoveItem returns an array of the same type that holds every other item,
\* and still holds it once (packages/core/src/array.ts, arrayRemoveItem).
LEMMA RemoveItem ==
    ASSUME NEW S, NEW array \in Seq(S), NEW item, Once(array)
    PROVE  /\ arrayRemoveItem(array, item) \in Seq(S)
           /\ Items(arrayRemoveItem(array, item)) = Items(array) \ {item}
           /\ Once(arrayRemoveItem(array, item))
<1> DEFINE new == arrayRemoveItem(array, item)
<1>1. CASE item \notin Items(array)
  <2>1. new = array
    BY <1>1 DEF arrayRemoveItem
  <2> QED
    BY <1>1, <2>1 DEF Items
<1>2. CASE item \in Items(array)
  <2> DEFINE k == IndexOf(array, item)
             n == Len(array)
  <2>1. k \in 1 .. n /\ array[k] = item
    <3>1. PICK i \in DOMAIN array : array[i] = item
      BY <1>2 DEF Items
    <3>2. \A j \in DOMAIN array : array[j] = item => i <= j
      BY <3>1 DEF Once
    <3>3. \E m \in DOMAIN array : array[m] = item
                /\ \A j \in DOMAIN array : array[j] = item => m <= j
      BY <3>1, <3>2
    <3> QED
      BY <3>3 DEF IndexOf
  <2>2. n \in Nat /\ DOMAIN array = 1 .. n /\ \A j \in 1 .. n : array[j] \in S
    OBVIOUS
  <2> HIDE DEF k, n
  <2>3. new = [ i \in 1 .. (n - 1) |-> IF i < k THEN array[i] ELSE array[i + 1] ]
    BY <1>2 DEF arrayRemoveItem, k, n
  <2>4. n - 1 \in Nat /\ DOMAIN new = 1 .. (n - 1)
    BY <2>1, <2>2, <2>3
  <2> HIDE DEF new
  <2>5. \A i \in 1 .. (n - 1) : new[i] = IF i < k THEN array[i] ELSE array[i + 1]
    BY <2>3
  <2>6. \A i \in 1 .. (n - 1) : new[i] \in S
    BY <2>1, <2>2, <2>5
  <2>7. new \in Seq(S)
    <3>1. new = [ i \in 1 .. (n - 1) |-> new[i] ]
      BY <2>3
    <3> QED
      BY <2>4, <2>6, <3>1
  <2>8. Once(new)
    <3> SUFFICES ASSUME NEW i \in 1 .. (n - 1), NEW j \in 1 .. (n - 1), new[i] = new[j]
                 PROVE  i = j
      BY <2>4 DEF Once
    <3> DEFINE from(x) == IF x < k THEN x ELSE x + 1
    <3>1. /\ from(i) \in 1 .. n /\ new[i] = array[from(i)]
          /\ from(j) \in 1 .. n /\ new[j] = array[from(j)]
      BY <2>1, <2>2, <2>5
    <3>2. from(i) = from(j)
      BY <2>2, <3>1 DEF Once
    <3> QED
      BY <2>1, <2>2, <3>2
  <2>9. Items(new) \subseteq Items(array) \ {item}
    <3> SUFFICES ASSUME NEW i \in 1 .. (n - 1)
                 PROVE  new[i] \in Items(array) /\ new[i] # item
      BY <2>4 DEF Items
    <3> QED
      BY <2>1, <2>2, <2>5 DEF Once, Items
  <2>10. Items(array) \ {item} \subseteq Items(new)
    <3> SUFFICES ASSUME NEW j \in 1 .. n, array[j] # item
                 PROVE  \E i \in 1 .. (n - 1) : new[i] = array[j]
      BY <2>2, <2>4 DEF Items
    <3>1. CASE j < k
      <4>1. j \in 1 .. (n - 1) /\ new[j] = array[j]
        BY <2>1, <2>2, <2>5, <3>1
      <4> QED
        BY <4>1
    <3>2. CASE j > k
      <4>1. j - 1 \in 1 .. (n - 1) /\ new[j - 1] = array[j]
        BY <2>1, <2>2, <2>5, <3>2
      <4> QED
        BY <4>1
    <3> QED
      BY <2>1, <2>2, <3>1, <3>2
  <2> QED
    BY <2>7, <2>8, <2>9, <2>10 DEF new
<1> QED
  BY <1>1, <1>2

\* push(item) of a new item.
LEMMA PushItem ==
    ASSUME NEW S, NEW array \in Seq(S), NEW item \in S,
           Once(array), item \notin Items(array)
    PROVE  /\ Append(array, item) \in Seq(S)
           /\ Items(Append(array, item)) = Items(array) \cup {item}
           /\ Once(Append(array, item))
<1> DEFINE new == Append(array, item)
<1>1. /\ new \in Seq(S)
      /\ Len(new) = Len(array) + 1
      /\ \A i \in 1 .. Len(array) : new[i] = array[i]
      /\ new[Len(array) + 1] = item
  OBVIOUS
<1>2. DOMAIN new = 1 .. Len(array) + 1 /\ DOMAIN array = 1 .. Len(array) /\ Len(array) \in Nat
  BY <1>1
<1> HIDE DEF new
<1>3. Items(new) = Items(array) \cup {item}
  BY <1>1, <1>2 DEF Items
<1>4. Once(new)
  BY <1>1, <1>2 DEF Once, Items
<1> QED
  BY <1>1, <1>3, <1>4 DEF new

\* shift() of a non-empty array.
LEMMA ShiftItem ==
    ASSUME NEW S, NEW array \in Seq(S), array # <<>>, Once(array)
    PROVE  /\ Head(array) \in S /\ Head(array) \in Items(array)
           /\ Tail(array) \in Seq(S)
           /\ Items(Tail(array)) = Items(array) \ {Head(array)}
           /\ Once(Tail(array))
<1> DEFINE new == Tail(array)
<1>1. /\ new \in Seq(S)
      /\ Len(array) \in Nat /\ Len(array) >= 1
      /\ Len(new) = Len(array) - 1
      /\ \A i \in 1 .. Len(array) - 1 : new[i] = array[i + 1]
      /\ Head(array) = array[1]
  OBVIOUS
<1>2. DOMAIN new = 1 .. Len(array) - 1 /\ DOMAIN array = 1 .. Len(array)
  BY <1>1
<1> HIDE DEF new
<1>3. Items(new) \subseteq Items(array) \ {array[1]}
  BY <1>1, <1>2 DEF Items, Once
<1>4. Items(array) \ {array[1]} \subseteq Items(new)
  <2> SUFFICES ASSUME NEW j \in 1 .. Len(array), array[j] # array[1]
               PROVE  \E i \in 1 .. Len(array) - 1 : new[i] = array[j]
    BY <1>2 DEF Items
  <2>1. j - 1 \in 1 .. Len(array) - 1 /\ new[j - 1] = array[j]
    BY <1>1
  <2> QED
    BY <2>1
<1>5. Once(new)
  BY <1>1, <1>2 DEF Once
<1>6. array[1] \in S /\ array[1] \in Items(array)
  BY <1>1 DEF Items
<1> QED
  BY <1>1, <1>3, <1>4, <1>5, <1>6 DEF new

-----------------------------------------------------------------------------
IInv == TypeOK /\ MutualExclusion /\ EntryIffHeld /\ WaitersQueued /\ TimersCurrent

LEMMA InitIInv == Init => IInv
<1> SUFFICES ASSUME Init PROVE IInv
  OBVIOUS
<1> USE LockAssumption DEF Init
<1>1. TypeOK
  BY DEF TypeOK, Promise
<1>2. MutualExclusion /\ EntryIffHeld /\ TimersCurrent
  BY DEF MutualExclusion, EntryIffHeld, TimersCurrent
<1>3. \A i \in Id : Items(queue[i]) = {} /\ Once(queue[i])
  BY DEF Items, Once
<1>4. WaitersQueued
  BY <1>3 DEF WaitersQueued, NoWaiterLost, QueuedAreWaiting, QueuedOnce, Waiting
<1> QED
  BY <1>1, <1>2, <1>4 DEF IInv

\* A free id has no holder, and nobody waits for it.
LEMMA FreeId ==
    ASSUME IInv, NEW i \in Id, ~entry[i]
    PROVE  /\ \A m \in Lock : IdOf[m] = i => ~holding[m] /\ ~Waiting(m)
           /\ Items(queue[i]) = {} /\ queue[i] = <<>>
<1>1. Items(queue[i]) = {}
  BY DEF IInv, WaitersQueued, QueuedAreWaiting
<1>2. queue[i] = <<>>
  <2>1. queue[i] \in Seq(Lock)
    BY DEF IInv, TypeOK
  <2>2. ASSUME queue[i] # <<>> PROVE 1 \in DOMAIN queue[i]
    BY <2>1, <2>2
  <2> QED
    BY <1>1, <2>2 DEF Items
<1> QED
  BY <1>1, <1>2, LockAssumption DEF IInv, EntryIffHeld, WaitersQueued, NoWaiterLost

\* Creating the entry, in acquire() and tryLock(), keeps all but the promises.
LEMMA CreateStep ==
    ASSUME IInv, NEW l \in Lock, NEW t \in Ttl, Fresh(l), ~entry[IdOf[l]], Create(l, t),
           UNCHANGED <<ttl, waitTimer>>,
           promise' = promise \/ promise' = [promise EXCEPT ![l] = "resolved"]
    PROVE  IInv'
<1> USE LockAssumption
<1>1. IdOf[l] \in Id /\ t \in BOOLEAN
  OBVIOUS
<1>2. TypeOK'
  <2>1. promise' \in [Lock -> Promise]
    BY DEF IInv, TypeOK, Promise
  <2>2. queue' \in [Id -> Seq(Lock)]
    <3>1. <<>> \in Seq(Lock)
      OBVIOUS
    <3> QED
      BY <1>1, <3>1 DEF IInv, TypeOK, Create
  <2> QED
    BY <1>1, <2>1, <2>2 DEF IInv, TypeOK, Create, ArmTtl
<1>3. \A m \in Lock : holding'[m] <=> holding[m] \/ m = l
  BY DEF IInv, TypeOK, Create
<1>4. MutualExclusion'
  BY <1>1, <1>3, FreeId DEF IInv, MutualExclusion
<1>5. EntryIffHeld'
  BY <1>1, <1>3, FreeId DEF IInv, TypeOK, EntryIffHeld, Create
<1>6. queue' = queue
  BY <1>1, FreeId DEF IInv, TypeOK, Create
<1>7. \A m \in Lock : Waiting(m)' <=> Waiting(m)
  BY DEF Waiting, Fresh, IInv, TypeOK
<1>8. WaitersQueued'
  <2>1. \A i \in Id : i # IdOf[l] => entry'[i] = entry[i]
    BY DEF IInv, TypeOK, Create
  <2>2. Items(queue[IdOf[l]]) = {}
    BY <1>1, FreeId
  <2>3. QueuedAreWaiting'
    BY <1>1, <1>3, <1>6, <1>7, <2>1, <2>2 
       DEF IInv, TypeOK, WaitersQueued, QueuedAreWaiting, Items
  <2> QED
    BY <1>6, <1>7, <2>3 DEF IInv, WaitersQueued, NoWaiterLost, QueuedOnce
<1>9. TimersCurrent'
  BY <1>3, <1>7 DEF IInv, TypeOK, TimersCurrent, Create, ArmTtl
<1> QED
  BY <1>2, <1>4, <1>5, <1>8, <1>9 DEF IInv

LEMMA AcquireWaitStep ==
    ASSUME IInv, NEW l \in Lock, NEW t \in Ttl, NEW w \in Timeout, AcquireWait(l, t, w)
    PROVE  IInv'
<1> USE LockAssumption
<1> DEFINE id == IdOf[l]
<1>1. /\ id \in Id /\ t \in BOOLEAN /\ w \in BOOLEAN
      /\ queue[id] \in Seq(Lock) /\ entry[id] /\ ~holding[l] /\ ~Waiting(l)
  BY DEF IInv, TypeOK, AcquireWait, Fresh, Waiting
<1>2. l \notin Items(queue[id]) /\ Once(queue[id])
  BY <1>1 DEF IInv, WaitersQueued, QueuedAreWaiting, QueuedOnce
<1>3. /\ queue'[id] \in Seq(Lock)
      /\ Items(queue'[id]) = Items(queue[id]) \cup {l}
      /\ Once(queue'[id])
      /\ \A i \in Id : i # id => queue'[i] = queue[i]
  <2>1. queue'[id] = Append(queue[id], l) /\ \A i \in Id : i # id => queue'[i] = queue[i]
    BY <1>1 DEF IInv, TypeOK, AcquireWait
  <2> QED
    BY <1>1, <1>2, <2>1, PushItem
<1>4. TypeOK'
  BY <1>1, <1>3 DEF IInv, TypeOK, AcquireWait, Promise
<1>5. MutualExclusion' /\ EntryIffHeld'
  BY DEF IInv, MutualExclusion, EntryIffHeld, AcquireWait
<1>6. \A m \in Lock : Waiting(m)' <=> Waiting(m) \/ m = l
  BY DEF Waiting, IInv, TypeOK, AcquireWait
<1>7. WaitersQueued'
  <2>1. NoWaiterLost'
    BY <1>3, <1>6 DEF IInv, WaitersQueued, NoWaiterLost
  <2>2. QueuedAreWaiting'
    <3> SUFFICES ASSUME NEW i \in Id, NEW m \in Items(queue'[i])
                 PROVE  entry[i] /\ IdOf[m] = i /\ Waiting(m)' /\ ~holding[m]
      BY DEF QueuedAreWaiting, AcquireWait
    <3>1. m \in Items(queue[i]) \/ (i = id /\ m = l)
      BY <1>3
    <3>2. m \in Lock
      BY <1>4 DEF TypeOK, Items
    <3> QED
      BY <1>1, <1>6, <3>1, <3>2 DEF IInv, WaitersQueued, QueuedAreWaiting
  <2>3. QueuedOnce'
    BY <1>3 DEF IInv, WaitersQueued, QueuedOnce
  <2> QED
    BY <2>1, <2>2, <2>3 DEF WaitersQueued
<1>8. TimersCurrent'
  BY <1>6 DEF IInv, TypeOK, TimersCurrent, AcquireWait
<1> QED
  BY <1>4, <1>5, <1>7, <1>8 DEF IInv

LEMMA HandOverStep ==
    ASSUME IInv, NEW l \in Lock, HandOver(l)
    PROVE  IInv'
<1> USE LockAssumption
<1> DEFINE id   == IdOf[l]
           next == Head(queue[id])
<1>1. id \in Id /\ queue[id] \in Seq(Lock) /\ queue[id] # <<>> /\ holding[l]
  BY DEF IInv, TypeOK, HandOver
<1>2. Once(queue[id])
  BY <1>1 DEF IInv, WaitersQueued, QueuedOnce
<1>3. /\ next \in Lock /\ next \in Items(queue[id])
      /\ Tail(queue[id]) \in Seq(Lock) /\ Once(Tail(queue[id]))
      /\ Items(Tail(queue[id])) = Items(queue[id]) \ {next}
  BY <1>1, <1>2, ShiftItem
<1>4. entry[id] /\ IdOf[next] = id /\ Waiting(next) /\ ~holding[next] /\ next # l
  BY <1>1, <1>3 DEF IInv, WaitersQueued, QueuedAreWaiting
<1> HIDE DEF id, next
<1>5. /\ queue' = [queue EXCEPT ![id] = Tail(@)]
      /\ holding' = [holding EXCEPT ![l] = FALSE, ![next] = TRUE]
      /\ promise' = [promise EXCEPT ![next] = "resolved"]
      /\ waitTimer' = [waitTimer EXCEPT ![next] = FALSE]
      /\ ttlTimer' = [ttlTimer EXCEPT ![l] = FALSE, ![next] = ttl[next]]
      /\ UNCHANGED <<entry, ttl>>
  BY DEF HandOver, NextWaiter, NotHolding, ClearTimeout, ArmTtl, id, next
<1>6. /\ queue'[id] = Tail(queue[id])
      /\ \A i \in Id : i # id => queue'[i] = queue[i]
  BY <1>1, <1>5 DEF IInv, TypeOK
<1>7. TypeOK'
  BY <1>1, <1>3, <1>5 DEF IInv, TypeOK, Promise
<1>8. \A m \in Lock : holding'[m] <=> (holding[m] /\ m # l) \/ m = next
  BY <1>3, <1>4, <1>5 DEF IInv, TypeOK
<1>9. MutualExclusion'
  BY <1>1, <1>3, <1>4, <1>8 DEF IInv, MutualExclusion, id
<1>10. EntryIffHeld'
  BY <1>1, <1>3, <1>4, <1>5, <1>8 DEF IInv, EntryIffHeld, id
<1>11. \A m \in Lock : Waiting(m)' <=> Waiting(m) /\ m # next
  BY <1>3, <1>5 DEF Waiting, IInv, TypeOK
<1>12. WaitersQueued'
  <2>1. NoWaiterLost'
    BY <1>3, <1>6, <1>11 DEF IInv, WaitersQueued, NoWaiterLost
  <2>2. QueuedAreWaiting'
    <3> SUFFICES ASSUME NEW i \in Id, NEW m \in Items(queue'[i])
                 PROVE  entry[i] /\ IdOf[m] = i /\ Waiting(m)' /\ ~holding'[m]
      BY <1>5 DEF QueuedAreWaiting
    <3>1. m \in Items(queue[i])
      BY <1>3, <1>6
    <3>2. m # next
      BY <1>3, <1>4, <1>6, <3>1 DEF IInv, WaitersQueued, QueuedAreWaiting
    <3>3. m \in Lock
      BY <3>1 DEF IInv, TypeOK, Items
    <3> QED
      BY <1>8, <1>11, <3>1, <3>2, <3>3 DEF IInv, WaitersQueued, QueuedAreWaiting
  <2>3. QueuedOnce'
    BY <1>3, <1>6 DEF IInv, WaitersQueued, QueuedOnce
  <2> QED
    BY <2>1, <2>2, <2>3 DEF WaitersQueued
<1>13. TimersCurrent'
  BY <1>3, <1>5, <1>8, <1>11 DEF IInv, TypeOK, TimersCurrent
<1> QED
  BY <1>7, <1>9, <1>10, <1>12, <1>13 DEF IInv

LEMMA FreeStep ==
    ASSUME IInv, NEW l \in Lock, Free(l)
    PROVE  IInv'
<1> USE LockAssumption
<1>1. /\ IdOf[l] \in Id /\ queue[IdOf[l]] = <<>> /\ holding[l]
      /\ entry' = [entry EXCEPT ![IdOf[l]] = FALSE]
      /\ holding' = [holding EXCEPT ![l] = FALSE]
      /\ ttlTimer' = [ttlTimer EXCEPT ![l] = FALSE]
      /\ UNCHANGED <<queue, promise, ttl, waitTimer>>
  BY DEF Free, EntryDeleted, NotHolding, ClearTimeout
<1>2. TypeOK'
  BY <1>1 DEF IInv, TypeOK
<1>3. \A m \in Lock : holding'[m] <=> holding[m] /\ m # l
  BY <1>1 DEF IInv, TypeOK
<1>4. MutualExclusion'
  BY <1>3 DEF IInv, MutualExclusion
<1>5. EntryIffHeld'
  BY <1>1, <1>3 DEF IInv, TypeOK, EntryIffHeld, MutualExclusion
<1>6. Items(queue[IdOf[l]]) = {}
  BY <1>1 DEF Items
<1>7. WaitersQueued'
  <2>1. NoWaiterLost' /\ QueuedOnce'
    BY <1>1 DEF IInv, WaitersQueued, NoWaiterLost, QueuedOnce, Waiting
  <2>2. QueuedAreWaiting'
    <3> SUFFICES ASSUME NEW i \in Id, NEW m \in Items(queue[i])
                 PROVE  entry'[i] /\ IdOf[m] = i /\ Waiting(m) /\ ~holding'[m]
      BY <1>1 DEF QueuedAreWaiting, Waiting
    <3>1. i # IdOf[l]
      BY <1>6
    <3>2. m \in Lock
      BY DEF IInv, TypeOK, Items
    <3> QED
      BY <1>1, <1>3, <3>1, <3>2 DEF IInv, TypeOK, WaitersQueued, QueuedAreWaiting
  <2> QED
    BY <2>1, <2>2 DEF WaitersQueued
<1>8. TimersCurrent'
  BY <1>1, <1>3 DEF IInv, TypeOK, TimersCurrent, Waiting
<1> QED
  BY <1>2, <1>4, <1>5, <1>7, <1>8 DEF IInv

LEMMA WaitTimeoutStep ==
    ASSUME IInv, NEW l \in Lock, WaitTimeout(l)
    PROVE  IInv'
<1> USE LockAssumption
<1> DEFINE id == IdOf[l]
<1>1. id \in Id /\ queue[id] \in Seq(Lock) /\ Waiting(l)
  BY DEF IInv, TypeOK, TimersCurrent, WaitTimeout
<1>2. l \in Items(queue[id]) /\ Once(queue[id]) /\ entry[id]
  BY <1>1 DEF IInv, WaitersQueued, NoWaiterLost, QueuedOnce, QueuedAreWaiting
<1> HIDE DEF id
<1>3. /\ waitTimer' = [waitTimer EXCEPT ![l] = FALSE]
      /\ queue' = [queue EXCEPT ![id] = arrayRemoveItem(@, l)]
      /\ promise' = [promise EXCEPT ![l] = "rejected"]
      /\ UNCHANGED <<entry, holding, ttl, ttlTimer>>
  BY <1>2 DEF WaitTimeout, ClearTimeout, id
<1>4. /\ queue'[id] \in Seq(Lock)
      /\ Items(queue'[id]) = Items(queue[id]) \ {l}
      /\ Once(queue'[id])
      /\ \A i \in Id : i # id => queue'[i] = queue[i]
  <2>1. queue'[id] = arrayRemoveItem(queue[id], l) /\ \A i \in Id : i # id => queue'[i] = queue[i]
    BY <1>1, <1>3 DEF IInv, TypeOK
  <2> QED
    BY <1>1, <1>2, <2>1, RemoveItem
<1>5. TypeOK'
  <2>1. queue' \in [Id -> Seq(Lock)]
    BY <1>1, <1>3, <1>4 DEF IInv, TypeOK
  <2> QED
    BY <1>3, <2>1 DEF IInv, TypeOK, Promise
<1>6. MutualExclusion' /\ EntryIffHeld'
  BY <1>3 DEF IInv, MutualExclusion, EntryIffHeld
<1>7. \A m \in Lock : Waiting(m)' <=> Waiting(m) /\ m # l
  BY <1>3 DEF Waiting, IInv, TypeOK
<1>8. WaitersQueued'
  <2>1. NoWaiterLost'
    BY <1>4, <1>7 DEF IInv, WaitersQueued, NoWaiterLost
  <2>2. QueuedAreWaiting'
    <3> SUFFICES ASSUME NEW i \in Id, NEW m \in Items(queue'[i])
                 PROVE  entry[i] /\ IdOf[m] = i /\ Waiting(m)' /\ ~holding[m]
      BY <1>3 DEF QueuedAreWaiting
    <3>0. m \in Items(queue[i])
      BY <1>4
    <3>1. m \in Items(queue[i]) /\ m \in Lock
      BY <3>0 DEF IInv, TypeOK, Items
    <3>2. m # l
      BY <1>4, <3>1 DEF IInv, WaitersQueued, QueuedAreWaiting, id
    <3> QED
      BY <1>7, <3>1, <3>2 DEF IInv, WaitersQueued, QueuedAreWaiting
  <2>3. QueuedOnce'
    BY <1>4 DEF IInv, WaitersQueued, QueuedOnce
  <2> QED
    BY <2>1, <2>2, <2>3 DEF WaitersQueued
<1>9. TimersCurrent'
  BY <1>3, <1>7 DEF IInv, TypeOK, TimersCurrent
<1> QED
  BY <1>5, <1>6, <1>8, <1>9 DEF IInv

\* Calls that change nothing in a reachable state: unlock() of an object that
\* does not hold, whose timer is not armed, and tryLock() of a taken id.
LEMMA NoEffect ==
    ASSUME IInv, NEW l \in Lock, UnlockNotHeld(l) \/ TryLockTaken(l)
    PROVE  UNCHANGED vars
<1>1. CASE UnlockNotHeld(l)
  <2>1. ttlTimer \in [Lock -> BOOLEAN] /\ ttlTimer[l] = FALSE
    BY <1>1 DEF IInv, TypeOK, TimersCurrent, UnlockNotHeld
  <2>2. ttlTimer' = ttlTimer
    BY <1>1, <2>1 DEF UnlockNotHeld, ClearTimeout
  <2> QED
    BY <1>1, <2>2 DEF UnlockNotHeld, vars
<1>2. CASE TryLockTaken(l)
  <2>1. holding \in [Lock -> BOOLEAN] /\ holding[l] = FALSE
    BY <1>2 DEF IInv, TypeOK, TryLockTaken, Fresh
  <2>2. holding' = holding
    BY <1>2, <2>1 DEF TryLockTaken
  <2> QED
    BY <1>2, <2>2 DEF TryLockTaken, vars
<1> QED
  BY <1>1, <1>2

LEMMA Unchanged == ASSUME IInv, UNCHANGED vars PROVE IInv'
BY DEF vars, IInv, TypeOK, MutualExclusion, EntryIffHeld, WaitersQueued, TimersCurrent,
       NoWaiterLost, QueuedAreWaiting, QueuedOnce, Waiting

LEMMA NextIInv == IInv /\ [Next]_vars => IInv'
<1> SUFFICES ASSUME IInv, [Next]_vars PROVE IInv'
  OBVIOUS
<1>1. ASSUME NEW l \in Lock, NEW t \in Ttl, AcquireFree(l, t) PROVE IInv'
  BY <1>1, CreateStep DEF AcquireFree
<1>2. ASSUME NEW l \in Lock, NEW t \in Ttl, NEW w \in Timeout, AcquireWait(l, t, w) PROVE IInv'
  BY <1>2, AcquireWaitStep
<1>3. ASSUME NEW l \in Lock, NEW t \in Ttl, TryLockFree(l, t) PROVE IInv'
  BY <1>3, CreateStep DEF TryLockFree
<1>4. ASSUME NEW l \in Lock, TryLockTaken(l) PROVE IInv'
  BY <1>4, NoEffect, Unchanged
<1>5. ASSUME NEW l \in Lock, Unlock(l) PROVE IInv'
  BY <1>5, HandOverStep, FreeStep, NoEffect, Unchanged DEF Unlock
<1>6. ASSUME NEW l \in Lock, TtlExpire(l) PROVE IInv'
  BY <1>5, <1>6 DEF TtlExpire
<1>7. ASSUME NEW l \in Lock, WaitTimeout(l) PROVE IInv'
  BY <1>7, WaitTimeoutStep
<1> QED
  BY <1>1, <1>2, <1>3, <1>4, <1>5, <1>6, <1>7, Unchanged DEF Next

\* The inductive invariant holds in every reachable state of the lock.
THEOREM Invariance == Spec => []IInv
BY InitIInv, NextIInv, PTL DEF Spec

\* TypeOK, for any set of lock objects: a queue stays a proper array through
\* every push, shift and splice.
THEOREM TypeCorrect == Spec => []TypeOK
<1>1. IInv => TypeOK
  BY DEF IInv
<1> QED
  BY Invariance, <1>1, PTL

\* Whatever the order of acquire(), tryLock(), unlock() calls and of the ttl and
\* timeout timers, at most one object holds an id.
THEOREM MutuallyExclusive == Spec => []MutualExclusion
<1>1. IInv => MutualExclusion
  BY DEF IInv
<1> QED
  BY Invariance, <1>1, PTL

\* isLocked() is true exactly while an object holds the id.
THEOREM EntryTruthful == Spec => []EntryIffHeld
<1>1. IInv => EntryIffHeld
  BY DEF IInv
<1> QED
  BY Invariance, <1>1, PTL

\* No waiter is lost, called twice, or called after its timeout rejected it.
THEOREM WaitersKept == Spec => []WaitersQueued
<1>1. IInv => WaitersQueued
  BY DEF IInv
<1> QED
  BY Invariance, <1>1, PTL

\* No timer outlives the tenure or the wait it bounds.
THEOREM TimersBelong == Spec => []TimersCurrent
<1>1. IInv => TimersCurrent
  BY DEF IInv
<1> QED
  BY Invariance, <1>1, PTL

\* The lock passes in the order of its queue, and nobody overtakes a waiter.
THEOREM NobodyBarges == Spec => NoBarging
<1> DEFINE Ordered(l) ==
             \/ ~entry[IdOf[l]] /\ queue[IdOf[l]] = <<>>
             \/ queue[IdOf[l]] # <<>> /\ Head(queue[IdOf[l]]) = l
<1>1. ASSUME IInv, [Next]_vars, NEW l \in Lock, ~holding[l], holding'[l]
      PROVE  Ordered(l)
  <2>1. ~UNCHANGED vars
    BY <1>1 DEF vars
  <2>2. PICK m \in Lock : \/ \E t \in Ttl : AcquireFree(m, t) \/ TryLockFree(m, t)
                          \/ \E t \in Ttl, w \in Timeout : AcquireWait(m, t, w)
                          \/ HandOver(m) \/ Free(m) \/ WaitTimeout(m)
    BY <1>1, <2>1, NoEffect DEF Next, Unlock, TtlExpire
  <2>3. CASE \E t \in Ttl : AcquireFree(m, t) \/ TryLockFree(m, t)
    <3>1. l = m /\ ~entry[IdOf[m]]
      BY <1>1, <2>3 DEF AcquireFree, TryLockFree, Create, IInv, TypeOK
    <3> QED
      BY <1>1, <3>1, FreeId, LockAssumption
  <2>4. CASE HandOver(m)
    <3> DEFINE next == Head(queue[IdOf[m]])
    <3>1. IdOf[m] \in Id /\ queue[IdOf[m]] \in Seq(Lock) /\ queue[IdOf[m]] # <<>>
      BY <1>1, <2>4, LockAssumption DEF HandOver, IInv, TypeOK
    <3>2. next \in Items(queue[IdOf[m]])
      BY <1>1, <3>1, ShiftItem DEF IInv, WaitersQueued, QueuedOnce
    <3>3. IdOf[next] = IdOf[m]
      BY <1>1, <3>1, <3>2 DEF IInv, WaitersQueued, QueuedAreWaiting
    <3> HIDE DEF next
    <3>4. holding' = [holding EXCEPT ![m] = FALSE, ![next] = TRUE]
      BY <2>4 DEF HandOver, NextWaiter, NotHolding, next
    <3>5. l = next
      BY <1>1, <3>4 DEF IInv, TypeOK
    <3> QED
      BY <3>1, <3>3, <3>5 DEF next
  <2>5. CASE \/ \E t \in Ttl, w \in Timeout : AcquireWait(m, t, w)
             \/ Free(m) \/ WaitTimeout(m)
    BY <1>1, <2>5 DEF AcquireWait, Free, NotHolding, WaitTimeout, IInv, TypeOK
  <2> QED
    BY <2>2, <2>3, <2>4, <2>5
<1>2. IInv /\ [Next]_vars =>
        [\A l \in Lock : ~holding[l] /\ holding'[l] => Ordered(l)]_vars
  BY <1>1
<1> QED
  BY <1>2, Invariance, PTL DEF Spec, NoBarging

-----------------------------------------------------------------------------
(* The refinement of FifoLock.                                             *)

Sole(held, l) == held[l] /\ \A m \in Lock : IdOf[m] = IdOf[l] /\ held[m] => m = l

\* The only object that holds an id is its owner.
LEMMA OwnerIs ==
    ASSUME NEW held, NEW l \in Lock, Sole(held, l)
    PROVE  OwnerIn(held, IdOf[l]) = l
BY DEF OwnerIn, Sole

\* An id that nobody holds has no owner.
LEMMA OwnerNone ==
    ASSUME NEW held, NEW i, \A m \in Lock : IdOf[m] = i => ~held[m]
    PROVE  OwnerIn(held, i) = Nobody
BY DEF OwnerIn

\* In a reachable state the holder of an id is its only one.
LEMMA HolderSole ==
    ASSUME IInv, NEW l \in Lock, holding[l]
    PROVE  Sole(holding, l)
BY DEF IInv, MutualExclusion, Sole

\* The owner of an id changes only with the holding fields of its objects.
LEMMA OwnerKept ==
    ASSUME IInv, NEW held, NEW i,
           \A m \in Lock : IdOf[m] = i => held[m] = holding[m]
    PROVE  OwnerIn(held, i) = OwnerIn(holding, i)
<1>1. CASE \E l \in Lock : IdOf[l] = i /\ holding[l]
  <2>1. PICK l \in Lock : IdOf[l] = i /\ holding[l]
    BY <1>1
  <2>2. Sole(holding, l)
    BY <2>1, HolderSole
  <2>3. Sole(held, l)
    BY <2>1, <2>2 DEF Sole
  <2> QED
    BY <2>1, <2>2, <2>3, OwnerIs
<1>2. CASE \A l \in Lock : IdOf[l] = i => ~holding[l]
  <2>1. \A l \in Lock : IdOf[l] = i => ~held[l]
    BY <1>2
  <2> QED
    BY <1>2, <2>1, OwnerNone
<1> QED
  BY <1>1, <1>2

Owner == [i \in Id |-> OwnerIn(holding, i)]

\* If one id gets the owner x and no object of another id starts or ends a tenure,
\* the owners change as FifoLock writes it.
LEMMA OwnerChanges ==
    ASSUME IInv, NEW i \in Id, NEW x, OwnerIn(holding', i) = x,
           \A m \in Lock : IdOf[m] # i => holding'[m] = holding[m]
    PROVE  Owner' = [Owner EXCEPT ![i] = x]
<1>1. \A j \in Id : j # i => OwnerIn(holding', j) = OwnerIn(holding, j)
  BY OwnerKept
<1> QED
  BY <1>1 DEF Owner

LEMMA CreateTakes ==
    ASSUME IInv, IInv', NEW l \in Lock, NEW t \in Ttl, ~entry[IdOf[l]], Create(l, t)
    PROVE  Fifo!Take(l)
<1> USE LockAssumption
<1>1. IdOf[l] \in Id /\ holding'[l] /\ \A m \in Lock : m # l => holding'[m] = holding[m]
  BY DEF IInv, TypeOK, Create
<1>2. queue' = queue
  <2>1. queue[IdOf[l]] = <<>>
    BY <1>1, FreeId
  <2> QED
    BY <2>1 DEF IInv, TypeOK, Create
<1>3. OwnerIn(holding, IdOf[l]) = Nobody
  BY <1>1, FreeId, OwnerNone
<1>4. Sole(holding', l)
  BY <1>1 DEF IInv, MutualExclusion, Sole
<1>5. OwnerIn(holding', IdOf[l]) = l
  BY <1>4, OwnerIs
<1>6. Owner' = [Owner EXCEPT ![IdOf[l]] = l]
  BY <1>1, <1>5, OwnerChanges
<1> QED
  BY <1>1, <1>2, <1>3, <1>6 DEF Fifo!Take, Owner

LEMMA AcquireWaitQueues ==
    ASSUME IInv, NEW l \in Lock, NEW t \in Ttl, NEW w \in Timeout, AcquireWait(l, t, w)
    PROVE  Fifo!Queue(l)
<1> USE LockAssumption
<1>1. IdOf[l] \in Id /\ entry[IdOf[l]] /\ ~holding[l] /\ ~Waiting(l)
  BY DEF AcquireWait, Fresh, Waiting
<1>2. PICK m \in Lock : IdOf[m] = IdOf[l] /\ holding[m]
  BY <1>1 DEF IInv, EntryIffHeld
<1>3. OwnerIn(holding, IdOf[l]) = m
  BY <1>2, HolderSole, OwnerIs
<1>4. m \notin {l, Nobody}
  BY <1>1, <1>2, NobodyAssumption
<1>5. ~Fifo!InLine(l)
  <2>1. l \notin Items(queue[IdOf[l]])
    BY <1>1 DEF IInv, WaitersQueued, QueuedAreWaiting
  <2> QED
    BY <2>1 DEF Items, Fifo!InLine
<1> QED
  BY <1>1, <1>3, <1>4, <1>5 DEF AcquireWait, Fifo!Queue

LEMMA HandOverReleases ==
    ASSUME IInv, IInv', NEW l \in Lock, HandOver(l)
    PROVE  Fifo!Release(l)
<1> USE LockAssumption
<1> DEFINE id   == IdOf[l]
           next == Head(queue[id])
<1>1. id \in Id /\ queue[id] \in Seq(Lock) /\ queue[id] # <<>> /\ holding[l]
  BY DEF IInv, TypeOK, HandOver
<1>2. next \in Lock /\ IdOf[next] = id
  <2>1. next \in Lock /\ next \in Items(queue[id])
    BY <1>1, ShiftItem DEF IInv, WaitersQueued, QueuedOnce
  <2> QED
    BY <1>1, <2>1 DEF IInv, WaitersQueued, QueuedAreWaiting
<1> HIDE DEF id, next
<1>3. queue' = [queue EXCEPT ![id] = Tail(@)]
      /\ holding' = [holding EXCEPT ![l] = FALSE, ![next] = TRUE]
  BY DEF HandOver, NextWaiter, NotHolding, id, next
<1>4. holding'[next] /\ \A m \in Lock : IdOf[m] # id => holding'[m] = holding[m]
  BY <1>2, <1>3 DEF IInv, TypeOK, id
<1>5. OwnerIn(holding, id) = l
  BY <1>1, HolderSole, OwnerIs DEF id
<1>6. Sole(holding', next)
  BY <1>2, <1>4 DEF IInv, MutualExclusion, Sole
<1>7. OwnerIn(holding', id) = next
  BY <1>2, <1>6, OwnerIs
<1>8. Owner' = [Owner EXCEPT ![id] = next]
  BY <1>1, <1>4, <1>7, OwnerChanges
<1> QED
  BY <1>1, <1>3, <1>5, <1>8 DEF Fifo!Release, Owner, id, next

LEMMA FreeReleases ==
    ASSUME IInv, NEW l \in Lock, Free(l)
    PROVE  Fifo!Release(l)
<1> USE LockAssumption
<1>1. /\ IdOf[l] \in Id /\ holding[l] /\ queue[IdOf[l]] = <<>> /\ queue' = queue
      /\ holding' = [holding EXCEPT ![l] = FALSE]
  BY DEF Free, NotHolding
<1>2. Sole(holding, l)
  BY <1>1, HolderSole
<1>3. \A m \in Lock : holding'[m] = (holding[m] /\ m # l)
  BY <1>1 DEF IInv, TypeOK
<1>4. OwnerIn(holding', IdOf[l]) = Nobody
  BY <1>2, <1>3, OwnerNone DEF Sole
<1>5. \A m \in Lock : IdOf[m] # IdOf[l] => holding'[m] = holding[m]
  BY <1>1 DEF IInv, TypeOK
<1>6. Owner' = [Owner EXCEPT ![IdOf[l]] = Nobody]
  BY <1>1, <1>4, <1>5, OwnerChanges
<1>7. OwnerIn(holding, IdOf[l]) = l
  BY <1>2, OwnerIs
<1> QED
  BY <1>1, <1>6, <1>7 DEF Fifo!Release, Owner

LEMMA WaitTimeoutGivesUp ==
    ASSUME IInv, NEW l \in Lock, WaitTimeout(l)
    PROVE  Fifo!GiveUp(l)
<1> USE LockAssumption
<1> DEFINE id == IdOf[l]
           k  == IndexOf(queue[id], l)
<1>1. id \in Id /\ queue[id] \in Seq(Lock) /\ Waiting(l)
  BY DEF IInv, TypeOK, TimersCurrent, WaitTimeout
<1>2. l \in Items(queue[id]) /\ entry[id] /\ Once(queue[id])
  BY <1>1 DEF IInv, WaitersQueued, NoWaiterLost, QueuedAreWaiting, QueuedOnce
<1>3. k \in DOMAIN queue[id] /\ queue[id][k] = l
  <2>1. PICK j \in DOMAIN queue[id] : queue[id][j] = l
    BY <1>2 DEF Items
  <2>2. \A i \in DOMAIN queue[id] : queue[id][i] = l => j <= i
    BY <1>1, <1>2, <2>1 DEF Once
  <2> QED
    BY <2>1, <2>2 DEF IndexOf
<1>4. queue' = [queue EXCEPT ![id] = arrayRemoveItem(@, l)] /\ holding' = holding
  BY <1>2 DEF WaitTimeout
<1>5. queue' = [queue EXCEPT ![id] =
                  [ j \in 1 .. (Len(@) - 1) |-> IF j < k THEN @[j] ELSE @[j + 1] ]]
  BY <1>2, <1>4 DEF arrayRemoveItem
<1> QED
  BY <1>3, <1>4, <1>5 DEF Fifo!GiveUp

LEMMA StepImplements ==
    ASSUME IInv, IInv', [Next]_vars
    PROVE  [Fifo!Next]_(Fifo!vars)
<1>1. CASE UNCHANGED vars
  BY <1>1 DEF vars, Fifo!vars
<1>2. ASSUME NEW l \in Lock, NEW t \in Ttl, AcquireFree(l, t) \/ TryLockFree(l, t)
      PROVE  Fifo!Next
  BY <1>2, CreateTakes DEF AcquireFree, TryLockFree, Fifo!Next
<1>3. ASSUME NEW l \in Lock, NEW t \in Ttl, NEW w \in Timeout, AcquireWait(l, t, w)
      PROVE  Fifo!Next
  BY <1>3, AcquireWaitQueues DEF Fifo!Next
<1>4. ASSUME NEW l \in Lock, HandOver(l) \/ Free(l)
      PROVE  Fifo!Next
  BY <1>4, HandOverReleases, FreeReleases DEF Fifo!Next
<1>5. ASSUME NEW l \in Lock, WaitTimeout(l)
      PROVE  Fifo!Next
  BY <1>5, WaitTimeoutGivesUp DEF Fifo!Next
<1>6. ASSUME NEW l \in Lock, UnlockNotHeld(l) \/ TryLockTaken(l)
      PROVE  UNCHANGED vars
  BY <1>6, NoEffect
<1> QED
  BY <1>1, <1>2, <1>3, <1>4, <1>5, <1>6 DEF Next, Unlock, TtlExpire

LEMMA InitImplements == Init => Fifo!Init
<1> SUFFICES ASSUME Init PROVE Fifo!Init
  OBVIOUS
<1>1. \A i \in Id : OwnerIn(holding, i) = Nobody
  BY OwnerNone DEF Init
<1> QED
  BY <1>1 DEF Init, Fifo!Init

\* The process lock is a fair line: whatever timers and callers do, each id has one
\* owner, waiters are served in order, and they leave the line only by being served
\* or by giving up.
THEOREM Refinement == Spec => ImplementsFifoLock
<1>1. Init => Fifo!Init
  BY InitImplements
<1>2. IInv /\ IInv' /\ [Next]_vars => [Fifo!Next]_(Fifo!vars)
  BY StepImplements
<1> QED
  BY <1>1, <1>2, Invariance, PTL DEF Spec, Fifo!Spec, ImplementsFifoLock

=============================================================================
