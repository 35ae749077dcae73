--------------------------- MODULE MongoPoolProofs ---------------------------
(***************************************************************************)
(* The exclusiveness of the Mongo pool for any number of users, connections *)
(* and any pool size.                                                      *)
(*                                                                         *)
(* Exclusive is not inductive alone: that a waiter has no connection when  *)
(* it is served needs that the queue holds just the waiters; that an idle  *)
(* connection belongs to nobody needs that whoever has one has reserved    *)
(* it; that only transactions leave connections behind needs that a COMMIT *)
(* or ABORT runs on the connection of its own transaction (EndsItsOwn); and *)
(* that what they leave behind is taken by nobody else needs that it stays *)
(* reserved (LeftIsReserved).                                              *)
(***************************************************************************)
EXTENDS MongoPool, FiniteSetTheorems, TLAPS

\* A COMMIT or ABORT is under way on the connection of its transaction.
EndsItsOwn ==
    \A u \in User : phase[u] = "ending" => u \in Transactional /\ attached[conn[u]] = u

\* What a transaction is attached to is not free.
LeftIsReserved == \A c \in Conn : attached[c] # None => reserved[c]

IInv == Exclusive /\ NoSlotLost /\ EndsItsOwn /\ LeftIsReserved

\* The new pool.
LEMMA InitIInv == Init => IInv
<1> SUFFICES ASSUME Init PROVE IInv
  OBVIOUS
<1> USE PoolAssumption DEF Init, Holder
<1>1. TypeOK
  <2>1. queue \in Seq(User) /\ phase \in [Holder -> Phase]
    BY DEF Phase
  <2>2. status \in [Conn -> Status] /\ conn \in [Holder -> Conn \cup {None}]
    BY DEF Status
  <2> QED
    BY <2>1, <2>2 DEF TypeOK
<1>2. WaitersQueued
  BY DEF WaitersQueued, Items, Once
<1>3. HeldAlone /\ HeldIsReserved /\ IdleIsFree /\ ForItsTransaction /\ HasOneIffPast
  BY DEF HeldAlone, HeldIsReserved, IdleIsFree, ForItsTransaction, HasOneIffPast
<1>4. NoSlotLost /\ EndsItsOwn /\ LeftIsReserved
  BY DEF NoSlotLost, EndsItsOwn, LeftIsReserved
<1> QED
  BY <1>1, <1>2, <1>3, <1>4 DEF IInv, Exclusive

\* getConnectionForHost() of an idle holder.
LEMMA TakeKeeps ==
    ASSUME IInv, NEW h \in Holder, NEW c \in Conn, phase[h] = "idle", Take(h, c),
           UNCHANGED <<queue, late, known, dead, topology, closed>>
    PROVE  IInv'
<1> USE PoolAssumption DEF IInv, Exclusive, Take, Free, TimerCleared, Attach
<1>0. TransactionOf(h) \in {None, h} /\ TransactionOf(h) \in Transactional \cup {None}
  BY DEF TransactionOf
<1>1. TypeOK'
  BY <1>0 DEF TypeOK, Phase
<1>2. conn[h] = None /\ \A g \in Holder : conn[g] # c
  BY DEF HasOneIffPast, HeldIsReserved, TypeOK
<1>3. HeldAlone' /\ HeldIsReserved' /\ HasOneIffPast'
  BY <1>2 DEF HeldAlone, HeldIsReserved, HasOneIffPast, TypeOK
<1>4. IdleIsFree' /\ ForItsTransaction'
  BY <1>0, <1>2 DEF IdleIsFree, ForItsTransaction, TypeOK
<1>5. WaitersQueued'
  BY DEF WaitersQueued, TypeOK
<1>6. NoSlotLost' /\ EndsItsOwn'
  BY <1>2 DEF NoSlotLost, EndsItsOwn, TypeOK, Holder, HasOneIffPast
<1>20. LeftIsReserved'
  BY DEF LeftIsReserved, TypeOK
<1> QED
  BY <1>20, <1>1, <1>3, <1>4, <1>5, <1>6

\* createConnection() of an idle holder.
LEMMA CreateKeeps ==
    ASSUME IInv, NEW h \in Holder, NEW c \in Conn, phase[h] = "idle", Create(h, c),
           UNCHANGED <<queue, late, known, dead, topology, closed>>
    PROVE  IInv'
<1> USE PoolAssumption DEF IInv, Exclusive, Create, Unused, Attach
<1>1. TypeOK'
  BY DEF TypeOK, Phase, Status
<1>2. conn[h] = None /\ \A g \in Holder : conn[g] # c
  BY DEF HasOneIffPast
<1>3. HeldAlone' /\ HeldIsReserved' /\ HasOneIffPast'
  BY <1>2 DEF HeldAlone, HeldIsReserved, HasOneIffPast, TypeOK
<1>4. IdleIsFree' /\ ForItsTransaction'
  BY <1>2 DEF IdleIsFree, ForItsTransaction, TypeOK
<1>5. WaitersQueued'
  BY DEF WaitersQueued, TypeOK
<1>6. NoSlotLost' /\ EndsItsOwn'
  BY <1>2 DEF NoSlotLost, EndsItsOwn, TypeOK, Holder, HasOneIffPast
<1>20. LeftIsReserved'
  BY DEF LeftIsReserved, TypeOK
<1> QED
  BY <1>20, <1>1, <1>3, <1>4, <1>5, <1>6

\* What leaves the queue is gone from it, the others stay, once.
LEMMA LeaveQueue ==
    ASSUME IInv, NEW gone, Leave(gone)
    PROVE  Items(queue') = Items(queue) \ gone /\ Once(queue') /\ queue' \in Seq(User)
<1> USE DEF IInv, Exclusive
<1>1. queue \in Seq(User) /\ Once(queue)
  BY DEF TypeOK, WaitersQueued
<1>0. PICK n \in 0 .. Len(queue) : \E at \in [1 .. n -> DOMAIN queue] :
        /\ \A i, j \in 1 .. n : i < j => at[i] < at[j]
        /\ { at[i] : i \in 1 .. n } = { i \in DOMAIN queue : queue[i] \notin gone }
        /\ queue' = [i \in 1 .. n |-> queue[at[i]]]
  BY DEF Leave
<1>2. PICK at \in [1 .. n -> DOMAIN queue] :
        /\ \A i, j \in 1 .. n : i < j => at[i] < at[j]
        /\ { at[i] : i \in 1 .. n } = { i \in DOMAIN queue : queue[i] \notin gone }
        /\ queue' = [i \in 1 .. n |-> queue[at[i]]]
  BY <1>0
<1>3. n \in Nat /\ DOMAIN queue' = 1 .. n /\ \A i \in 1 .. n : queue'[i] = queue[at[i]]
  BY <1>1, <1>2
<1>4. \A i \in 1 .. n : at[i] \in DOMAIN queue /\ queue[at[i]] \in User
  BY <1>1, <1>2
<1>5. queue' \in Seq(User)
  BY <1>2, <1>3, <1>4
<1>6. Once(queue')
  <2> SUFFICES ASSUME NEW i \in 1 .. n, NEW j \in 1 .. n, queue'[i] = queue'[j] PROVE i = j
    BY <1>3 DEF Once
  <2>1. at[i] = at[j]
    BY <1>1, <1>3, <1>4 DEF Once
  <2> QED
    BY <1>1, <1>2, <1>4, <2>1
<1>7. ASSUME NEW x \in Items(queue') PROVE x \in Items(queue) \ gone
  <2>1. PICK i \in 1 .. n : x = queue[at[i]]
    BY <1>3, <1>7 DEF Items
  <2>2. at[i] \in { k \in DOMAIN queue : queue[k] \notin gone }
    BY <1>2
  <2> QED
    BY <2>1, <2>2 DEF Items
<1>8. ASSUME NEW x \in Items(queue) \ gone PROVE x \in Items(queue')
  <2>1. PICK k \in DOMAIN queue : queue[k] = x
    BY <1>8 DEF Items
  <2>2. k \in { at[i] : i \in 1 .. n }
    BY <1>2, <1>8, <2>1
  <2>3. PICK i \in 1 .. n : k = at[i]
    BY <2>2
  <2> QED
    BY <1>3, <2>1, <2>3 DEF Items
<1> QED
  BY <1>5, <1>6, <1>7, <1>8



\* c is given back: by h, who has it, or by the monitor.
GivenBack(c, h) ==
    /\ c \in Conn /\ reserved[c]
    /\ h \in Holder \cup {None}
    /\ h # None => conn[h] = c
    /\ \A g \in Holder : conn[g] = c => g = h

\* A holder that uses its connection may give it back.
LEMMA HolderGives ==
    ASSUME IInv, NEW h \in Holder, phase[h] \in {"using", "sent", "failed"}
    PROVE  GivenBack(conn[h], h)
<1>1. conn[h] # None /\ conn[h] \in Conn /\ reserved[conn[h]]
  BY DEF IInv, Exclusive, HasOneIffPast, HeldIsReserved, TypeOK
<1> QED
  BY <1>1, PoolAssumption DEF IInv, Exclusive, HeldAlone, GivenBack, Holder

\* pool.release(): the next waiter gets the connection.
LEMMA HandOverKeeps ==
    ASSUME IInv, NEW c, NEW h, GivenBack(c, h),
           NEW then, then \in {"idle", "ended"},
           NEW u \in Items(queue), NEW out \in SUBSET Items(queue), u \notin out,
           HandOver(c, h, then, out, u), UNCHANGED <<connections, status>>,
           UNCHANGED <<topology, closed>>,
           known' \in BOOLEAN, dead' \in BOOLEAN
    PROVE  IInv'
<1> USE PoolAssumption DEF IInv, Exclusive, HandOver, Passed, Attach, GivenBack
<1>0. /\ TransactionOf(u) \in {None, u}
      /\ TransactionOf(u) \in Transactional \cup {None}
  BY DEF TransactionOf
<1>1. /\ Items(queue') = Items(queue) \ (out \cup {u})
      /\ Once(queue') /\ queue' \in Seq(User)
  BY LeaveQueue
<1>2. /\ u \in User /\ u \in Holder /\ u # h /\ conn[u] = None /\ h \notin out /\ c # None
      /\ \A x \in out : x \in Holder /\ conn[x] = None /\ phase[x] = "waiting"
  <2>1. \A x \in Items(queue) : x \in User /\ x \in Holder /\ phase[x] = "waiting"
    BY DEF WaitersQueued, TypeOK, Items, Holder
  <2>2. \A x \in Items(queue) : conn[x] = None
    BY <2>1 DEF HasOneIffPast
  <2>3. h \notin Items(queue) /\ c # None
    BY <2>1, <2>2 DEF Holder
  <2> QED
    BY <2>1, <2>2, <2>3
<1>3. TypeOK'
  BY <1>0, <1>1, <1>2 DEF TypeOK, Phase
<1>5. HeldAlone' /\ HeldIsReserved'
  BY <1>2 DEF HeldAlone, HeldIsReserved, TypeOK
<1>6. HasOneIffPast'
  BY <1>2 DEF HasOneIffPast, TypeOK
<1>7. IdleIsFree' /\ ForItsTransaction'
  BY <1>0, <1>2 DEF IdleIsFree, ForItsTransaction, HeldAlone, TypeOK
<1>8. WaitersQueued'
  <2>0. h \in Holder => phase[h] # "waiting"
    BY <1>2 DEF HasOneIffPast, Holder
  <2>1. \A x \in Holder :
          phase'[x] = "waiting" <=> phase[x] = "waiting" /\ x \notin out \cup {u}
    BY <1>2, <2>0 DEF TypeOK
  <2> QED
    BY <1>1, <2>1 DEF WaitersQueued
<1>9. NoSlotLost'
  <2> SUFFICES ASSUME NEW d \in connections, reserved[d]
               PROVE  \/ \E g \in Holder : conn'[g] = d
                      \/ attached'[d] # None
                      \/ status[d] \in {"refused", "disconnected"}
    BY DEF NoSlotLost
  <2>1. CASE d = c
    BY <1>2, <2>1
  <2>2. CASE d # c
    <3>1. d \in Conn /\ d # None
      BY DEF TypeOK
    <3>3. attached'[d] = attached[d]
      BY <2>2, <3>1 DEF TypeOK
    <3>2. \A g \in Holder : conn[g] = d => conn'[g] = d
      <4>1. \A g \in Holder : conn[g] = d => g # h /\ g # u
        BY <1>2, <2>2, <3>1 DEF Holder
      <4> QED
        BY <4>1
    <3> QED
      BY <3>1, <3>2, <3>3 DEF NoSlotLost
  <2> QED
    BY <2>1, <2>2
<1>10. EndsItsOwn'
  BY <1>2 DEF EndsItsOwn, TypeOK, HeldAlone, Holder, HasOneIffPast
<1>20. LeftIsReserved'
  BY DEF LeftIsReserved, TypeOK
<1> QED
  BY <1>20, <1>3, <1>5, <1>6, <1>7, <1>8, <1>9, <1>10

\* pool.release(): the connection becomes idle.
LEMMA PutDownKeeps ==
    ASSUME IInv, NEW c, NEW h, GivenBack(c, h),
           NEW then, then \in {"idle", "ended"},
           NEW out \in SUBSET Items(queue),
           PutDown(c, h, then, out), UNCHANGED <<connections, status>>,
           UNCHANGED <<topology, closed>>,
           known' \in BOOLEAN, dead' \in BOOLEAN
    PROVE  IInv'
<1> USE PoolAssumption DEF IInv, Exclusive, PutDown, Unreserved, Passed, Attach, GivenBack
<1>1. Items(queue') = Items(queue) \ out /\ Once(queue') /\ queue' \in Seq(User)
  BY LeaveQueue
<1>2. /\ h \notin out /\ c # None /\ None \notin Holder
      /\ \A x \in out : x \in Holder /\ conn[x] = None /\ phase[x] = "waiting"
  <2>1. \A x \in Items(queue) : x \in Holder /\ phase[x] = "waiting"
    BY DEF WaitersQueued
  <2>2. \A x \in Items(queue) : conn[x] = None
    BY <2>1 DEF HasOneIffPast
  <2> QED
    BY <2>1, <2>2 DEF Holder
<1>3. TypeOK'
  <2>1. (c \in connections) \in BOOLEAN
    OBVIOUS
  <2> QED
    BY <1>1, <1>2, <2>1 DEF TypeOK, Phase
<1>5. HeldAlone' /\ HeldIsReserved' /\ HasOneIffPast'
  BY <1>2 DEF HeldAlone, HeldIsReserved, HasOneIffPast, TypeOK
<1>6. IdleIsFree' /\ ForItsTransaction'
  BY <1>2 DEF IdleIsFree, ForItsTransaction, TypeOK
<1>7. WaitersQueued'
  <2>1. \A x \in Holder : phase'[x] = "waiting" <=> phase[x] = "waiting" /\ x \notin out
    BY <1>2 DEF TypeOK, HasOneIffPast
  <2> QED
    BY <1>1, <2>1 DEF WaitersQueued
<1>8. NoSlotLost'
  BY <1>2 DEF NoSlotLost, TypeOK
<1>9. EndsItsOwn'
  BY <1>2 DEF EndsItsOwn, TypeOK, Holder, HasOneIffPast
<1>20. LeftIsReserved'
  BY DEF LeftIsReserved, TypeOK
<1> QED
  BY <1>20, <1>3, <1>5, <1>6, <1>7, <1>8, <1>9

\* pool.release(), both outcomes.
LEMMA GiveBackKeeps ==
    ASSUME IInv, NEW c, NEW h, GivenBack(c, h),
           NEW then, then \in {"idle", "ended"}, NEW usable \in BOOLEAN,
           GiveBack(c, h, then, usable), UNCHANGED <<topology, closed>>,
           known' \in BOOLEAN, dead' \in BOOLEAN
    PROVE  IInv'
<1>1. PICK seen \in SUBSET DOMAIN queue :
        /\ UNCHANGED <<connections, status>>
        /\ \/ \E k \in seen :
                HandOver(c, h, then, { queue[i] : i \in { j \in seen : j < k } }, queue[k])
           \/ PutDown(c, h, then, { queue[i] : i \in { j \in seen : queue[j] \in late } })
  BY DEF GiveBack
<1>2. \A J \in SUBSET DOMAIN queue : { queue[i] : i \in J } \in SUBSET Items(queue)
  BY DEF Items
<1>3. ASSUME NEW k \in seen,
             HandOver(c, h, then, { queue[i] : i \in { j \in seen : j < k } }, queue[k])
      PROVE  IInv'
  <2> DEFINE J == { j \in seen : j < k }
             out == { queue[i] : i \in J }
  <2>2. k \in DOMAIN queue /\ queue[k] \in Items(queue) /\ J \in SUBSET DOMAIN queue /\ k \notin J
    <3>1. DOMAIN queue \subseteq Nat
      BY DEF IInv, Exclusive, TypeOK
    <3> QED
      BY <3>1 DEF Items
  <2>3. queue[k] \notin out
    <3> SUFFICES ASSUME NEW j \in J, queue[j] = queue[k] PROVE FALSE
      OBVIOUS
    <3> QED
      BY <2>2 DEF IInv, Exclusive, WaitersQueued, Once
  <2>4. out \in SUBSET Items(queue) /\ HandOver(c, h, then, out, queue[k])
    BY <1>2, <1>3, <2>2
  <2> HIDE DEF out
  <2> QED
    BY <1>1, <2>2, <2>3, <2>4, HandOverKeeps
<1>4. CASE PutDown(c, h, then, { queue[i] : i \in { j \in seen : queue[j] \in late } })
  <2> DEFINE J == { j \in seen : queue[j] \in late }
             out == { queue[i] : i \in J }
  <2>1. out \in SUBSET Items(queue)
    BY <1>2
  <2>2. PutDown(c, h, then, out)
    BY <1>4
  <2> HIDE DEF out
  <2> QED
    BY <1>1, <2>1, <2>2, PutDownKeeps
<1> QED
  BY <1>1, <1>3, <1>4

\* A put-back queue is the queue without its first n waiters.
LEMMA PutBackQueue ==
    ASSUME IInv, NEW n \in 0 .. Len(queue), queue' = PutBack(n)
    PROVE  /\ Items(queue') = Items(queue) \ { queue[i] : i \in 1 .. n }
           /\ Once(queue') /\ queue' \in Seq(User)
<1>1. queue \in Seq(User) /\ Once(queue) /\ n \in Nat
  BY DEF IInv, Exclusive, TypeOK, WaitersQueued
<1>2. /\ queue' \in Seq(User) /\ Len(queue') = Len(queue) - n
      /\ \A i \in 1 .. Len(queue) - n : queue'[i] = queue[n + i]
  BY <1>1 DEF PutBack
<1>3. Once(queue')
  <2> SUFFICES ASSUME NEW i \in DOMAIN queue', NEW j \in DOMAIN queue', queue'[i] = queue'[j]
               PROVE  i = j
    BY DEF Once
  <2>1. i \in 1 .. Len(queue) - n /\ j \in 1 .. Len(queue) - n
    BY <1>2
  <2>2. n + i \in DOMAIN queue /\ n + j \in DOMAIN queue
    BY <1>1, <2>1
  <2>3. n + i = n + j
    BY <1>1, <1>2, <2>1, <2>2 DEF Once
  <2> QED
    BY <1>1, <2>1, <2>3
<1>4. ASSUME NEW x \in Items(queue') PROVE x \in Items(queue) \ { queue[i] : i \in 1 .. n }
  <2>1. PICK j \in 1 .. Len(queue) - n : x = queue[n + j]
    BY <1>2, <1>4 DEF Items
  <2>2. n + j \in DOMAIN queue /\ \A i \in 1 .. n : i \in DOMAIN queue /\ i # n + j
    BY <1>1
  <2> QED
    BY <1>1, <2>1, <2>2 DEF Items, Once
<1>5. ASSUME NEW x \in Items(queue) \ { queue[i] : i \in 1 .. n } PROVE x \in Items(queue')
  <2>1. PICK k \in 1 .. Len(queue) : queue[k] = x
    BY <1>1, <1>5 DEF Items
  <2>2. k \notin 1 .. n
    BY <1>5, <2>1
  <2>3. k - n \in 1 .. Len(queue) - n /\ queue'[k - n] = x
    BY <1>1, <1>2, <2>1, <2>2
  <2> QED
    BY <1>2, <2>3 DEF Items
<1> QED
  BY <1>2, <1>3, <1>4, <1>5

\* onTopologyProgress() gives free connections to waiters.
LEMMA DistributeKeeps ==
    ASSUME IInv, NEW free, free = { c \in Conn : Free(c) }, NEW n \in 0 .. Len(queue),
           phase[Heartbeat] = "ended", Distribute(free, n),
           UNCHANGED <<connections, status, known, dead, closed>>,
           topology' \in {"single", "none"}
    PROVE  IInv'
<1> USE PoolAssumption DEF IInv, Exclusive, Free
<1> DEFINE to == { queue[i] : i \in 1 .. n }
<1>1. /\ Items(queue') = Items(queue) \ to /\ Once(queue') /\ queue' \in Seq(User)
  BY PutBackQueue DEF Distribute
<1>2. \A x \in to : x \in Items(queue) /\ x \in User /\ x \in Holder /\ x # Heartbeat
                    /\ phase[x] = "waiting" /\ conn[x] = None
  <2>1. queue \in Seq(User) /\ \A i \in 1 .. n : i \in DOMAIN queue
    BY DEF TypeOK
  <2> QED
    BY <2>1 DEF WaitersQueued, HasOneIffPast, Items, Holder
<1>3. PICK give \in [to -> free] :
        LET given == { give[u] : u \in to }
        IN  /\ \A u, v \in to : give[u] = give[v] => u = v
            /\ conn' = [x \in Holder |-> IF x \in to THEN give[x] ELSE conn[x]]
            /\ phase' = [x \in Holder |-> IF x = Heartbeat THEN "idle"
                                          ELSE IF x \in to THEN "using" ELSE phase[x]]
            /\ reserved' = [c \in Conn |-> reserved[c] \/ c \in given]
            /\ idle' = [c \in Conn |-> idle[c] /\ c \notin given]
            /\ attached' = [c \in Conn |->
                              IF c \in given
                              THEN TransactionOf(CHOOSE u \in to : give[u] = c)
                              ELSE attached[c]]
            /\ started' = [c \in Conn |-> started[c] /\ c \notin given]
            /\ late' = late \ to
  BY DEF Distribute
<1> DEFINE given == { give[u] : u \in to }
<1> HIDE DEF to
<1>4. \A u \in to : give[u] \in Conn /\ Free(give[u])
  BY <1>3
<1>5. /\ \A u \in to : give[u] \in given /\ attached'[give[u]] = TransactionOf(u)
      /\ given \subseteq Conn /\ \A c \in given : \E u \in to : c = give[u]
  <2>1. ASSUME NEW u \in to PROVE (CHOOSE v \in to : give[v] = give[u]) = u
    BY <1>3
  <2> QED
    BY <1>3, <1>4, <2>1
<1> HIDE DEF given
<1>6. \A u \in User : TransactionOf(u) \in {None, u} \cap (Transactional \cup {None})
  BY DEF TransactionOf
<1>7. /\ conn' = [x \in Holder |-> IF x \in to THEN give[x] ELSE conn[x]]
      /\ phase' = [x \in Holder |-> IF x = Heartbeat THEN "idle"
                                    ELSE IF x \in to THEN "using" ELSE phase[x]]
      /\ reserved' = [c \in Conn |-> reserved[c] \/ c \in given]
      /\ idle' = [c \in Conn |-> idle[c] /\ c \notin given]
      /\ late' = late \ to
      /\ started' = [c \in Conn |-> started[c] /\ c \notin given]
      /\ \A c \in Conn \ given : attached'[c] = attached[c]
  BY <1>3 DEF given
<1>8. attached' \in [Conn -> Transactional \cup {None}]
  <2>1. DOMAIN attached' = Conn /\ attached' = [c \in Conn |-> attached'[c]]
    BY <1>3
  <2>2. \A c \in Conn : attached'[c] \in Transactional \cup {None}
    BY <1>2, <1>5, <1>6, <1>7 DEF TypeOK
  <2> QED
    BY <2>1, <2>2
<1>9. TypeOK'
  BY <1>1, <1>2, <1>4, <1>7, <1>8 DEF TypeOK, Phase
<1>10. \A u \in to, g \in Holder : conn[g] # give[u]
  BY <1>4 DEF HeldIsReserved, TypeOK
<1>11. HeldAlone'
  BY <1>3, <1>7, <1>10 DEF HeldAlone
<1>12. HeldIsReserved'
  <2> SUFFICES ASSUME NEW h \in Holder, conn'[h] # None PROVE reserved'[conn'[h]]
    BY DEF HeldIsReserved
  <2>1. CASE h \in to
    BY <2>1, <1>4, <1>5, <1>7
  <2>2. CASE h \notin to
    <3>1. conn'[h] = conn[h] /\ conn[h] \in Conn /\ reserved[conn[h]]
      BY <2>2, <1>7 DEF HeldIsReserved, TypeOK
    <3> QED
      BY <3>1, <1>7
  <2> QED
    BY <2>1, <2>2
<1>13. IdleIsFree'
  BY <1>7 DEF IdleIsFree
<1>14. ForItsTransaction'
  <2> SUFFICES ASSUME NEW h \in Holder, conn'[h] # None PROVE attached'[conn'[h]] \in {None, h}
    BY DEF ForItsTransaction
  <2>1. CASE h \in to
    BY <1>2, <1>5, <1>6, <1>7, <2>1
  <2>2. CASE h \notin to
    BY <1>5, <1>7, <1>10, <2>2 DEF ForItsTransaction, TypeOK
  <2> QED
    BY <2>1, <2>2
<1>15. HasOneIffPast'
  BY <1>2, <1>4, <1>7 DEF HasOneIffPast
<1>16. WaitersQueued'
  <2>1. \A x \in Holder : phase'[x] = "waiting" <=> phase[x] = "waiting" /\ x \notin to
    BY <1>2, <1>7
  <2> QED
    BY <1>1, <2>1 DEF WaitersQueued
<1>17. NoSlotLost'
  <2> SUFFICES ASSUME NEW c \in connections, reserved'[c]
               PROVE  \/ \E h \in Holder : conn'[h] = c
                      \/ attached'[c] # None
                      \/ status[c] \in {"refused", "disconnected"}
    BY DEF NoSlotLost
  <2>1. CASE c \in given
    BY <1>2, <1>5, <1>7, <2>1
  <2>2. CASE c \notin given
    <3>1. reserved[c] /\ c \in Conn /\ attached'[c] = attached[c]
      BY <1>7, <2>2 DEF TypeOK
    <3>2. \A h \in Holder : conn[h] = c => conn'[h] = c
      BY <1>2, <1>7, <3>1
    <3> QED
      BY <3>1, <3>2 DEF NoSlotLost
  <2> QED
    BY <2>1, <2>2
<1>18. EndsItsOwn'
  <2> SUFFICES ASSUME NEW u \in User, phase'[u] = "ending"
               PROVE  u \in Transactional /\ attached'[conn'[u]] = u
    BY DEF EndsItsOwn
  <2>1. u \in Holder /\ u \notin to /\ phase[u] = "ending" /\ conn'[u] = conn[u]
    BY <1>7 DEF Holder
  <2>2. conn[u] \in Conn /\ conn[u] \notin given
    BY <1>5, <1>10, <2>1 DEF HasOneIffPast, TypeOK
  <2> QED
    BY <1>7, <2>1, <2>2 DEF EndsItsOwn
<1>20. LeftIsReserved'
  BY <1>7 DEF LeftIsReserved, TypeOK
<1> QED
  BY <1>20, <1>9, <1>11, <1>12, <1>13, <1>14, <1>15, <1>16, <1>17, <1>18

\* A connection is closed, fails or is refused.
LEMMA DisturbKeeps ==
    ASSUME IInv, NEW c \in Conn, NEW answers \in BOOLEAN, Disturb(c, answers),
           \/ connections' = connections \ {c} /\ idle' = [idle EXCEPT ![c] = FALSE]
           \/ UNCHANGED <<connections, idle>> /\ status'[c] = "refused",
           NEW s \in Status, status' = [status EXCEPT ![c] = s],
           UNCHANGED <<reserved, attached, queue, late, started, known, dead, topology, closed>>
    PROVE  IInv'
<1> USE PoolAssumption DEF IInv, Exclusive, Disturb
<1>1. TypeOK'
  BY DEF TypeOK, Phase, Holder
<1>2. \A h \in Holder :
        /\ conn'[h] \in {conn[h], None}
        /\ conn'[h] = None <=> phase'[h] \in {"idle", "waiting", "ended"}
        /\ phase'[h] = "waiting" <=> phase[h] = "waiting"
        /\ phase'[h] = "ending" => phase[h] = "ending" /\ conn'[h] = conn[h]
        /\ conn[h] # c => conn'[h] = conn[h]
  BY DEF TypeOK, HasOneIffPast, Holder
<1>3. HeldAlone' /\ HeldIsReserved' /\ HasOneIffPast' /\ ForItsTransaction'
  BY <1>2 DEF HeldAlone, HeldIsReserved, HasOneIffPast, ForItsTransaction
<1>4. IdleIsFree'
  BY DEF IdleIsFree, TypeOK
<1>5. WaitersQueued'
  BY <1>2 DEF WaitersQueued
<1>6. EndsItsOwn'
  BY <1>2 DEF EndsItsOwn, Holder
<1>7. NoSlotLost'
  BY <1>2 DEF NoSlotLost, TypeOK
<1>20. LeftIsReserved'
  BY DEF LeftIsReserved, TypeOK
<1> QED
  BY <1>20, <1>1, <1>3, <1>4, <1>5, <1>6, <1>7


\* The steps that change neither the queue nor who has a connection.
LEMMA MinorKeeps ==
    ASSUME IInv, UNCHANGED <<reserved, queue, conn, connections>>,
           IdleIsFree', TypeOK',
           \A h \in Holder : phase'[h] = phase[h]
                             \/ /\ phase[h] \in {"using", "sent", "ending"}
                                /\ phase'[h] \in {"using", "sent"},
           UNCHANGED attached
             \/ \E u \in Holder : /\ phase[u] \in {"connecting", "using"}
                                  /\ \E t \in {None, u} : attached' = [attached EXCEPT ![conn[u]] = t],
           \A c \in Conn : status'[c] = status[c] \/ ~reserved[c]
                           \/ \E h \in Holder : conn[h] = c
    PROVE  IInv'
<1> USE DEF IInv, Exclusive
<1>1. HeldAlone' /\ HeldIsReserved' /\ HasOneIffPast' /\ WaitersQueued'
  BY DEF HeldAlone, HeldIsReserved, HasOneIffPast, WaitersQueued
<1>2. ForItsTransaction' /\ EndsItsOwn' /\ NoSlotLost' /\ LeftIsReserved'
  <2>1. CASE UNCHANGED attached
    BY <2>1 DEF ForItsTransaction, EndsItsOwn, NoSlotLost, LeftIsReserved, Holder, TypeOK
  <2>2. CASE \E u \in Holder : /\ phase[u] \in {"connecting", "using"}
                               /\ \E t \in {None, u} : attached' = [attached EXCEPT ![conn[u]] = t]
    <3>0. PICK u \in Holder : /\ phase[u] \in {"connecting", "using"}
                              /\ \E t \in {None, u} : attached' = [attached EXCEPT ![conn[u]] = t]
      BY <2>2
    <3>1. PICK t \in {None, u} : /\ phase[u] \in {"connecting", "using"}
                                 /\ attached' = [attached EXCEPT ![conn[u]] = t]
      BY <3>0
    <3>2. /\ conn[u] \in Conn /\ reserved[conn[u]]
          /\ \A h \in Holder : h # u => conn[h] # conn[u]
      BY <3>1 DEF HasOneIffPast, HeldAlone, HeldIsReserved, TypeOK
    <3>3. ForItsTransaction'
      BY <3>1, <3>2 DEF ForItsTransaction, TypeOK
    <3>4. EndsItsOwn'
      BY <3>1, <3>2 DEF EndsItsOwn, Holder, HasOneIffPast, TypeOK
    <3>5. NoSlotLost'
      BY <3>1, <3>2 DEF NoSlotLost, TypeOK
    <3>6. LeftIsReserved'
      BY <3>1, <3>2 DEF LeftIsReserved, TypeOK
    <3> QED
      BY <3>3, <3>4, <3>5, <3>6
  <2> QED
    BY <2>1, <2>2
<1> QED
  BY <1>1, <1>2

\* The commands of users, transactions and the heartbeat.
LEMMA CommandSteps ==
    ASSUME IInv, NEW h \in Holder,
           \/ Send(h) \/ Reply(h) \/ Handshake(h)
           \/ h \in User /\ (TimePasses(h) \/ End(h) \/ EndFails(h))
    PROVE  IInv'
<1> USE PoolAssumption DEF IInv, Exclusive
<1>1. CASE Send(h) \/ Reply(h) \/ EndFails(h)
  <2>0. started' \in [Conn -> BOOLEAN]
    <3>1. (attached[conn[h]] # None) \in BOOLEAN
      OBVIOUS
    <3> QED
      BY <1>1, <3>1 DEF Send, Reply, EndFails, TypeOK
  <2>1. IdleIsFree' /\ TypeOK'
    BY <1>1, <2>0 DEF Send, Reply, EndFails, IdleIsFree, TypeOK, Phase
  <2>2. /\ UNCHANGED <<reserved, queue, conn, connections, attached, status>>
        /\ \A g \in Holder : phase'[g] = phase[g]
                              \/ /\ phase[g] \in {"using", "sent", "ending"}
                                 /\ phase'[g] \in {"using", "sent"}
    BY <1>1 DEF Send, Reply, EndFails, TypeOK
  <2> HIDE DEF IInv, Exclusive
  <2> QED
    BY <2>1, <2>2, MinorKeeps
<1>2. CASE Handshake(h)
  <2>1. TransactionOf(h) \in {None, h} \cap (Transactional \cup {None})
    BY DEF TransactionOf
  <2>2. IdleIsFree' /\ TypeOK'
    BY <1>2, <2>1 DEF Handshake, Attach, IdleIsFree, TypeOK, Phase, Status
  <2>3. attached' = [attached EXCEPT ![conn[h]] = TransactionOf(h)] /\ phase[h] = "connecting"
    BY <1>2 DEF Handshake, Attach
  <2>4. conn[h] \in Conn
    BY <2>3 DEF HasOneIffPast, TypeOK
  <2> QED
    <3>1. IdleIsFree' /\ ForItsTransaction' /\ HeldAlone' /\ HeldIsReserved' /\ HasOneIffPast'
      BY <1>2, <2>1, <2>2 DEF Handshake, Attach, ForItsTransaction, HeldAlone, HeldIsReserved,
         HasOneIffPast, TypeOK
    <3>2. WaitersQueued'
      BY <1>2 DEF Handshake, WaitersQueued, TypeOK
    <3>3. EndsItsOwn'
      BY <1>2, <2>4 DEF Handshake, Attach, EndsItsOwn, TypeOK, HasOneIffPast, HeldAlone, Holder
    <3>4. NoSlotLost' /\ LeftIsReserved'
      BY <1>2, <2>4 DEF Handshake, Attach, NoSlotLost, LeftIsReserved, HeldIsReserved, TypeOK
    <3> QED
      BY <2>2, <3>1, <3>2, <3>3, <3>4
<1>3. CASE h \in User /\ TimePasses(h)
  BY <1>3 DEF TimePasses, IdleIsFree, TypeOK, HeldAlone, HeldIsReserved, HasOneIffPast,
     ForItsTransaction, WaitersQueued, NoSlotLost, EndsItsOwn, LeftIsReserved
<1>4. CASE h \in User /\ End(h)
  <2>1. TypeOK'
    BY <1>4 DEF End, TypeOK, Phase
  <2>2. HeldAlone' /\ HeldIsReserved' /\ IdleIsFree' /\ ForItsTransaction' /\ HasOneIffPast'
    BY <1>4 DEF End, InTransaction, TypeOK, HeldAlone, HeldIsReserved, IdleIsFree,
       ForItsTransaction, HasOneIffPast
  <2>3. WaitersQueued' /\ NoSlotLost' /\ LeftIsReserved'
    BY <1>4 DEF End, InTransaction, WaitersQueued, NoSlotLost, LeftIsReserved, TypeOK
  <2>4. EndsItsOwn'
    BY <1>4 DEF End, InTransaction, EndsItsOwn, TypeOK
  <2> QED
    BY <2>1, <2>2, <2>3, <2>4
<1> QED
  BY <1>1, <1>2, <1>3, <1>4

\* A user leaves a connection that its transaction keeps.
LEMMA ForgetKeeps ==
    ASSUME IInv, NEW u \in Transactional, phase[u] \in {"using", "ending"},
           attached[conn[u]] = u, Forget(u)
    PROVE  IInv'
<1> USE PoolAssumption DEF IInv, Exclusive, Forget
<1>1. u \in Holder /\ conn[u] \in Conn
  BY DEF HasOneIffPast, TypeOK, Holder
<1>2. TypeOK'
  BY DEF TypeOK, Phase
<1>3. HeldAlone' /\ HeldIsReserved' /\ HasOneIffPast' /\ ForItsTransaction'
  BY <1>1 DEF HeldAlone, HeldIsReserved, HasOneIffPast, ForItsTransaction, TypeOK
<1>4. IdleIsFree' /\ WaitersQueued'
  BY <1>1 DEF IdleIsFree, WaitersQueued, TypeOK
<1>5. EndsItsOwn'
  BY <1>1 DEF EndsItsOwn, TypeOK
<1>6. NoSlotLost'
  BY <1>1 DEF NoSlotLost, TypeOK
<1>20. LeftIsReserved'
  BY DEF LeftIsReserved, TypeOK
<1> QED
  BY <1>20, <1>2, <1>3, <1>4, <1>5, <1>6

\* All waiters are rejected: onTopologyProgress() without a host, close().
LEMMA RejectKeeps ==
    ASSUME IInv, queue' = <<>>, late' = {}, UNCHANGED <<conn, reserved, attached, connections, started>>,
           \A c \in Conn : idle'[c] => idle[c],
           \A c \in Conn : status'[c] = status[c] \/ status'[c] = "disconnected",
           TypeOK',
           \A h \in Holder :
             \/ phase'[h] = phase[h] /\ phase[h] # "waiting"
             \/ phase[h] \in {"waiting", "ended"} /\ phase'[h] = "idle"
    PROVE  IInv'
<1> USE DEF IInv, Exclusive
<1>1. HeldAlone' /\ HeldIsReserved' /\ HasOneIffPast' /\ ForItsTransaction' /\ IdleIsFree'
  BY DEF HeldAlone, HeldIsReserved, HasOneIffPast, ForItsTransaction, IdleIsFree
<1>2. WaitersQueued'
  BY DEF WaitersQueued, Items, Once
<1>3. EndsItsOwn'
  BY DEF EndsItsOwn, Holder
<1>4. NoSlotLost'
  BY DEF NoSlotLost, TypeOK
<1>20. LeftIsReserved'
  BY DEF LeftIsReserved, TypeOK
<1> QED
  BY <1>20, <1>1, <1>2, <1>3, <1>4

\* getConnection(), with and without a wait.
LEMMA RequestKeeps ==
    ASSUME IInv, NEW u \in User, (\E c \in Conn : Request(u, c)) \/ RequestWait(u)
    PROVE  IInv'
<1> USE PoolAssumption
<1>1. ASSUME NEW c \in Conn, Request(u, c) PROVE IInv'
  <2>1. u \in Holder /\ phase[u] = "idle"
    BY <1>1 DEF Request, Holder
  <2> QED
    BY <1>1, <2>1, TakeKeeps, CreateKeeps DEF Request
<1>2. CASE RequestWait(u)
  <2> USE DEF IInv, Exclusive, RequestWait
  <2>1. u \in Holder /\ u \notin Items(queue) /\ queue \in Seq(User) /\ conn[u] = None
    BY <1>2 DEF Holder, WaitersQueued, TypeOK, HasOneIffPast
  <2>2. TypeOK'
    <3>1. queue' \in Seq(User)
      BY <1>2, <2>1
    <3> QED
      BY <1>2, <3>1 DEF TypeOK, Phase
  <2>3. /\ queue' \in Seq(User) /\ Len(queue') = Len(queue) + 1 /\ queue'[Len(queue) + 1] = u
        /\ \A i \in 1 .. Len(queue) : queue'[i] = queue[i]
    BY <1>2, <2>1
  <2>4. Items(queue') = Items(queue) \cup {u} /\ Once(queue')
    BY <2>1, <2>3 DEF Items, Once, WaitersQueued
  <2>5. WaitersQueued'
    BY <1>2, <2>1, <2>4 DEF WaitersQueued, TypeOK
  <2>6. HeldAlone' /\ HeldIsReserved' /\ HasOneIffPast' /\ ForItsTransaction' /\ IdleIsFree'
    BY <1>2, <2>1 DEF HeldAlone, HeldIsReserved, HasOneIffPast, ForItsTransaction, IdleIsFree, TypeOK
  <2>7. NoSlotLost' /\ EndsItsOwn' /\ LeftIsReserved'
    BY <1>2 DEF NoSlotLost, EndsItsOwn, LeftIsReserved, TypeOK
  <2> QED
    BY <2>2, <2>5, <2>6, <2>7
<1> QED
  BY <1>1, <1>2

\* onTopologyProgress() serves no more waiters than there are.
LEMMA FreeIsBounded ==
    ASSUME IInv, NEW free, free = { c \in Conn : Free(c) }
    PROVE  (IF Len(queue) < Cardinality(free) THEN Len(queue) ELSE Cardinality(free))
             \in 0 .. Len(queue)
<1>1. Cardinality(free) \in Nat
  BY PoolAssumption, FS_Subset, FS_CardinalityType DEF PoolAssumption
<1>2. Len(queue) \in Nat
  BY DEF IInv, Exclusive, TypeOK
<1> QED
  BY <1>1, <1>2

\* The steps of the heartbeat.
LEMMA HeartbeatKeeps ==
    ASSUME IInv,
           \/ \E c \in Conn : HeartbeatStart(c)
           \/ HeartbeatReply \/ HeartbeatFails \/ HeartbeatEnd
    PROVE  IInv'
<1> USE PoolAssumption
<1>0. Heartbeat \in Holder /\ known \in BOOLEAN /\ dead \in BOOLEAN
  BY DEF Holder, IInv, Exclusive, TypeOK
<1>1. ASSUME NEW c \in Conn, HeartbeatStart(c) PROVE IInv'
  BY <1>0, <1>1, TakeKeeps, CreateKeeps DEF HeartbeatStart
<1>2. CASE HeartbeatReply
  <2>1. GivenBack(conn[Heartbeat], Heartbeat)
    BY <1>0, <1>2, HolderGives DEF HeartbeatReply
  <2>2. known' \in BOOLEAN /\ dead' \in BOOLEAN /\ (known' /\ ~dead') \in BOOLEAN
    BY <1>2 DEF HeartbeatReply
  <2> QED
    BY <1>0, <1>2, <2>1, <2>2, GiveBackKeeps DEF HeartbeatReply
<1>3. CASE HeartbeatFails
  <2>1. GivenBack(conn[Heartbeat], Heartbeat)
    BY <1>0, <1>3, HolderGives DEF HeartbeatFails
  <2> QED
    BY <1>0, <1>3, <2>1, GiveBackKeeps DEF HeartbeatFails
<1>4. CASE HeartbeatEnd
  <2>1. topology' \in {"single", "none"} /\ phase[Heartbeat] = "ended"
    BY <1>4 DEF HeartbeatEnd
  <2>2. CASE RejectAll
    <3>1. TypeOK'
      BY <1>4, <2>1, <2>2 DEF HeartbeatEnd, RejectAll, IInv, Exclusive, TypeOK, Phase
    <3>2. \A h \in Holder : \/ phase'[h] = phase[h] /\ phase[h] # "waiting"
                            \/ phase[h] \in {"waiting", "ended"} /\ phase'[h] = "idle"
      BY <2>1, <2>2 DEF RejectAll
    <3> QED
      BY <1>4, <2>2, <3>1, <3>2, RejectKeeps DEF HeartbeatEnd, RejectAll
  <2>3. CASE ~RejectAll
    <3> DEFINE free == { c \in Conn : Free(c) }
               n == IF Len(queue) < Cardinality(free) THEN Len(queue) ELSE Cardinality(free)
    <3>1. Distribute(free, n) /\ UNCHANGED <<connections, status, known, dead, closed>>
      BY <1>4, <2>3 DEF HeartbeatEnd
    <3>2. n \in 0 .. Len(queue)
      BY FreeIsBounded
    <3> HIDE DEF n
    <3> QED
      BY <2>1, <3>1, <3>2, DistributeKeeps
  <2> QED
    BY <2>2, <2>3
<1> QED
  BY <1>1, <1>2, <1>3, <1>4

\* Socket events, timers, close() and connect() of the pool.
LEMMA SocketKeeps ==
    ASSUME IInv,
           \/ \E c \in Conn : CloseEvent(c) \/ ErrorEvent(c) \/ IdleTimeout(c)
           \/ \E h \in Holder : HandshakeFails(h)
           \/ ClosePool \/ Reopen
    PROVE  IInv'
<1>1. ASSUME NEW c \in Conn, CloseEvent(c) \/ ErrorEvent(c) PROVE IInv'
  <2>1. "disconnected" \in Status /\ "error" \in Status
    BY DEF Status
  <2> QED
    BY <1>1, <2>1, DisturbKeeps DEF CloseEvent, ErrorEvent
<1>2. ASSUME NEW h \in Holder, HandshakeFails(h) PROVE IInv'
  <2>1. conn[h] \in Conn /\ "refused" \in Status
    BY <1>2 DEF HandshakeFails, IInv, Exclusive, HasOneIffPast, TypeOK, Status
  <2>2. status'[conn[h]] = "refused"
    BY <1>2, <2>1 DEF HandshakeFails, IInv, Exclusive, TypeOK
  <2> QED
    BY <1>2, <2>1, <2>2, DisturbKeeps DEF HandshakeFails
<1>3. ASSUME NEW c \in Conn, IdleTimeout(c) PROVE IInv'
  <2> USE DEF IInv, Exclusive
  <2>1. IdleIsFree' /\ TypeOK'
    BY <1>3 DEF IdleTimeout, IdleIsFree, TypeOK, Status
  <2>2. ~reserved[c] /\ \A x \in Conn : status'[x] = status[x] \/ ~reserved[x]
    BY <1>3 DEF IdleTimeout, IdleIsFree, TypeOK
  <2>3. UNCHANGED <<reserved, queue, conn, connections, attached, phase>>
    BY <1>3 DEF IdleTimeout
  <2> HIDE DEF IInv, Exclusive
  <2> QED
    BY <2>1, <2>2, <2>3, MinorKeeps
<1>4. CASE ClosePool
  <2>1. TypeOK'
    BY <1>4 DEF ClosePool, IInv, Exclusive, TypeOK, Status, Phase
  <2> QED
    BY <1>4, <2>1, RejectKeeps DEF ClosePool
<1>5. CASE Reopen
  BY ZenonT(30), <1>5 DEF Reopen, IInv, Exclusive, TypeOK, HeldAlone, HeldIsReserved, IdleIsFree,
     ForItsTransaction, HasOneIffPast, WaitersQueued, NoSlotLost, EndsItsOwn, LeftIsReserved
<1> QED
  BY <1>1, <1>2, <1>3, <1>4, <1>5

\* Every step keeps the inductive invariant.
LEMMA NextIInv == IInv /\ [Next]_vars => IInv'
<1> SUFFICES ASSUME IInv, [Next]_vars PROVE IInv'
  OBVIOUS
<1> USE PoolAssumption
<1>1. ASSUME NEW u \in User, Finish(u) PROVE IInv'
  <2>1. GivenBack(conn[u], u) /\ Usable \in BOOLEAN /\ known \in BOOLEAN /\ dead \in BOOLEAN
    BY <1>1, HolderGives DEF Finish, IInv, Exclusive, Holder, Usable, TypeOK
  <2> QED
    BY <1>1, <2>1, GiveBackKeeps DEF Finish
<1>2. ASSUME NEW u \in Transactional, Ended(u) \/ Abandon(u) PROVE IInv'
  BY <1>2, ForgetKeeps DEF Ended, Abandon, InTransaction, IInv, EndsItsOwn
<1>4. ASSUME NEW c \in Conn, Collected(c) PROVE IInv'
  <2>1. Usable \in BOOLEAN /\ known \in BOOLEAN /\ dead \in BOOLEAN
    BY DEF IInv, Exclusive, Usable, TypeOK
  <2>2. GivenBack(c, None)
    BY <1>4 DEF Collected, GivenBack, IInv, LeftIsReserved
  <2> QED
    BY <1>4, <2>1, <2>2, GiveBackKeeps DEF Collected
<1>3. CASE UNCHANGED vars
  BY <1>3 DEF vars, IInv, Exclusive, TypeOK, HeldAlone, HeldIsReserved, IdleIsFree,
     ForItsTransaction, HasOneIffPast, WaitersQueued, NoSlotLost, EndsItsOwn, LeftIsReserved
<1> QED
  BY <1>1, <1>2, <1>3, <1>4, RequestKeeps, CommandSteps, HeartbeatKeeps, SocketKeeps DEF Next, Holder

\* The inductive invariant holds in every reachable state of the pool.
THEOREM Invariance == Spec => []IInv
BY InitIInv, NextIInv, PTL DEF Spec

\* For any users and connections, whoever has a connection has it alone and
\* reserved, no idle timer runs for it, and who waits is in the queue, once.
THEOREM PoolIsExclusive == Spec => []Exclusive
<1>1. IInv => Exclusive
  BY DEF IInv
<1> QED
  BY <1>1, Invariance, PTL

\* For any users and connections, a place of the pool is kept only by somebody who
\* has the connection, by a transaction left behind or by a handshake that failed.
THEOREM PlacesKept == Spec => []NoSlotLost
<1>1. IInv => NoSlotLost
  BY DEF IInv
<1> QED
  BY <1>1, Invariance, PTL

=============================================================================
