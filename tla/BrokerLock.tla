----------------------------- MODULE BrokerLock -----------------------------
(***************************************************************************)
(* The distributed lock of packages/broker, end to end: BrokerLockItem     *)
(* (broker.ts), the lock() and tryLock() of BrokerDeepkitAdapter, the      *)
(* connection between client and broker, and the Lock, TryLock and Unlock  *)
(* handlers and close() of BrokerConnection (kernel.ts) on top of the      *)
(* ProcessLock of packages/core.                                           *)
(*                                                                         *)
(* A request is one message id: the RpcMessageSubject on the client, the   *)
(* key of BrokerConnection.locks and the ProcessLock object created for it *)
(* on the broker. A connection is used once; after a loss the client opens *)
(* another one. A step is one callback: promise reactions run before the   *)
(* next callback of the event loop, so the ".then" of a granted lock       *)
(* belongs to the step that grants it. Only the loop of close() takes      *)
(* several steps, and nothing else on the broker runs between them.        *)
(*                                                                         *)
(* BrokerLock.item() replaces a missing or zero ttl and timeout by two     *)
(* minutes and 30 seconds: every request carries both.                     *)
(***************************************************************************)
EXTENDS Naturals, Sequences, FiniteSets, Arrays

CONSTANTS
    Item,     \* BrokerLockItem objects, all of one lock id
    Req,      \* lock requests
    ItemOf,   \* the item that makes the request
    Conn,     \* connections
    ConnsOf,  \* the connections an item's process may open, one after the other
    Breakable,   \* the connections that may be lost
    MaxInFlight, \* bound: messages under way on a connection when release() adds one
    Sequential,  \* does the user of an item await each call before the next?
    None

Id == {"lock"}
IdOf == [r \in Req |-> "lock"]

ASSUME BrokerLockAssumption ==
    /\ ItemOf \in [Req -> Item]
    /\ ConnsOf \in [Item -> SUBSET Conn]
    /\ Breakable \subseteq Conn
    /\ Sequential \in BOOLEAN
    /\ None \notin Req \cup Conn

VARIABLES
    entry, queue, holding, promise, ttl, ttlTimer, waitTimer,  \* of ProcessLock
    clientUp,  \* "new", "up" or "down": the client's end of a connection
    serverUp,  \* is the BrokerConnection open?
    toServer, toClient,  \* messages under way
    locks,     \* BrokerConnection.locks, in insertion order
    closing,   \* the locks a running close() has still to unlock
    conn,      \* the connection a request was sent on
    call,      \* how far the call the request was made for has come
    releaser,  \* BrokerLockItem.releaser: the request it would unlock
    hanging    \* requests with a release() that nothing will settle any more

lockVars == <<entry, queue, holding, promise, ttl, ttlTimer, waitTimer>>
netVars == <<clientUp, serverUp, toServer, toClient>>
clientVars == <<conn, call, releaser, hanging>>
vars == <<lockVars, netVars, locks, closing, clientVars>>

Process == INSTANCE ProcessLock WITH Lock <- Req, Ttl <- {TRUE}, Timeout <- {TRUE}

Call == {"unused", "acquiring", "trying", "held", "releasing", "stuck", "released", "failed"}

TypeOK ==
    /\ Process!TypeOK
    /\ clientUp \in [Conn -> {"new", "up", "down"}]
    /\ serverUp \in [Conn -> BOOLEAN]
    /\ \A c \in Conn :
         /\ Items(toServer[c]) \subseteq [type : {"Lock", "TryLock", "Unlock"}, req : Req]
         /\ Items(toClient[c]) \subseteq
              [type : {"ResponseLock", "ResponseLockFailed", "Error", "Ack"}, req : Req]
         /\ Items(locks[c]) \subseteq Req
    /\ Items(closing) \subseteq Req
    /\ conn \in [Req -> Conn \cup {None}]
    /\ call \in [Req -> Call]
    /\ releaser \in [Item -> Req \cup {None}]
    /\ hanging \subseteq Req

Init ==
    /\ Process!Init
    /\ clientUp = [c \in Conn |-> "new"]
    /\ serverUp = [c \in Conn |-> FALSE]
    /\ toServer = [c \in Conn |-> <<>>]
    /\ toClient = [c \in Conn |-> <<>>]
    /\ locks = [c \in Conn |-> <<>>]
    /\ closing = <<>>
    /\ conn = [r \in Req |-> None]
    /\ call = [r \in Req |-> "unused"]
    /\ releaser = [i \in Item |-> None]
    /\ hanging = {}

-----------------------------------------------------------------------------
(* The client.                                                             *)

\* Write to a connection: lost unless both ends are up.
Sent(channel, c, type, r) ==
    IF clientUp[c] = "up" /\ serverUp[c]
    THEN [channel EXCEPT ![c] = Append(@, [type |-> type, req |-> r])]
    ELSE channel

\* The client connects, or connects again after a loss.
Connect(i, c) ==
    /\ c \in ConnsOf[i]
    /\ clientUp[c] = "new"
    /\ \A d \in ConnsOf[i] : clientUp[d] # "up"
    /\ clientUp' = [clientUp EXCEPT ![c] = "up"]
    /\ serverUp' = [serverUp EXCEPT ![c] = TRUE]
    /\ UNCHANGED <<lockVars, toServer, toClient, locks, closing, clientVars>>

\* A call of the item is under way.
Busy(i) == \E r \in Req : ItemOf[r] = i /\ call[r] \in {"acquiring", "trying"}

\* if (this.releaser) throw new BrokerLockError(...)
NotAcquired(i) == releaser[i] = None

\* acquire() and try(): a message with a new id, and a wait for its answer.
Request(r, c, type, state) ==
    /\ NotAcquired(ItemOf[r])
    /\ call[r] = "unused"
    /\ Sequential => ~Busy(ItemOf[r])
    /\ c \in ConnsOf[ItemOf[r]] /\ clientUp[c] = "up"
    /\ call' = [call EXCEPT ![r] = state]
    /\ conn' = [conn EXCEPT ![r] = c]
    /\ toServer' = Sent(toServer, c, type, r)
    /\ UNCHANGED <<lockVars, clientUp, serverUp, toClient, locks, closing, releaser, hanging>>

acquire(r) == \E c \in Conn : Request(r, c, "Lock", "acquiring")
try(r)     == \E c \in Conn : Request(r, c, "TryLock", "trying")

\* release() over the connection the lock was granted on sends Unlock. It may be called
\* again while the answer is under way: both calls use the subject of the request, whose
\* one pair of callbacks is then that of the later call, and the earlier one hangs.
release(i) ==
    LET r == releaser[i]
    IN  /\ r # None
        /\ clientUp[conn[r]] = "up"
        /\ Len(toServer[conn[r]]) + Len(toClient[conn[r]]) < MaxInFlight
        /\ call' = [call EXCEPT ![r] = "releasing"]
        /\ hanging' = IF call[r] = "releasing" THEN hanging \cup {r} ELSE hanging
        /\ toServer' = Sent(toServer, conn[r], "Unlock", r)
        /\ UNCHANGED <<lockVars, clientUp, serverUp, toClient, locks, closing, conn, releaser>>

\* After the connection is gone the continuation of the subject drops the message
\* (the connectionId has changed) and nobody will answer or reject ackThenClose().
releaseAfterLoss(i) ==
    LET r == releaser[i]
    IN  /\ r # None
        /\ clientUp[conn[r]] = "down"
        /\ call' = [call EXCEPT ![r] = "stuck"]
        /\ hanging' = hanging \cup {r}
        /\ UNCHANGED <<lockVars, netVars, locks, closing, conn, releaser>>

\* An answer arrives. A reply nobody waits for any more is ignored.
Receive(c) ==
    LET m == Head(toClient[c])
        i == ItemOf[m.req]
        Settle(state, rel) ==
            /\ call' = [call EXCEPT ![m.req] = state]
            /\ releaser' = [releaser EXCEPT ![i] = rel]
    IN  /\ clientUp[c] = "up"
        /\ toClient[c] # <<>>
        /\ toClient' = [toClient EXCEPT ![c] = Tail(@)]
        /\ CASE m.type = "ResponseLock" -> Settle("held", m.req)
             [] m.type = "ResponseLockFailed" -> Settle("failed", None)
             [] m.type = "Ack" /\ call[m.req] = "releasing" -> Settle("released", None)
             [] m.type = "Error" /\ call[m.req] = "acquiring" -> Settle("failed", releaser[i])
             [] OTHER -> UNCHANGED <<call, releaser>>
        /\ UNCHANGED <<lockVars, clientUp, serverUp, toServer, locks, closing, conn, hanging>>

\* Faulty: the calls that wait for an answer are not rejected.
LeaveWaiting(c) == call

\* subject.disconnect() for every subject in replies: what still waits is rejected.
Rejected(c) ==
    [r \in Req |->
       CASE conn[r] = c /\ call[r] \in {"acquiring", "trying"} -> "failed"
         [] conn[r] = c /\ call[r] = "releasing" -> "held"
         [] OTHER -> call[r]]

\* The client's end goes down: RpcBaseClient.onClose().
ClientDown(c) ==
    /\ c \in Breakable /\ clientUp[c] = "up"
    /\ clientUp' = [clientUp EXCEPT ![c] = "down"]
    /\ toClient' = [toClient EXCEPT ![c] = <<>>]
    /\ call' = Rejected(c)
    /\ UNCHANGED <<lockVars, serverUp, toServer, locks, closing, conn, releaser, hanging>>

-----------------------------------------------------------------------------
(* The broker.                                                             *)

\* The object that starts to hold in this step, as a sequence.
Granted(c) ==
    LET new == { r \in Req : ~holding[r] /\ holding'[r] /\ conn[r] = c }
    IN  IF new = {} THEN <<>> ELSE << CHOOSE r \in new : TRUE >>

\* Faulty: the granted lock is not remembered.
ForgetGranted(map) == locks' = map

\* lock => this.locks.set(message.id, lock)
RememberGranted(map) == locks' = [c \in Conn |-> map[c] \o Granted(c)]

\* The promise reactions of the step: the granted lock is remembered for its
\* connection, even a closed one, and its request answered.
Reactions(map, channel) ==
    /\ RememberGranted(map)
    /\ toClient' = [c \in Conn |->
         IF Granted(c) # <<>>
         THEN Sent(channel, c, "ResponseLock", Granted(c)[1])[c]
         ELSE channel[c]]

\* Nothing runs on the broker between the steps of a close().
Idle == closing = <<>>

\* The next message of a connection.
Message(c, type) ==
    /\ Idle /\ serverUp[c]
    /\ toServer[c] # <<>> /\ Head(toServer[c]).type = type
    /\ toServer' = [toServer EXCEPT ![c] = Tail(@)]

HandleLock(c) ==
    LET r == Head(toServer[c]).req
    IN  /\ Message(c, "Lock")
        /\ Process!AcquireFree(r, TRUE) \/ Process!AcquireWait(r, TRUE, TRUE)
        /\ Reactions(locks, toClient)
        /\ UNCHANGED <<clientUp, serverUp, closing, clientVars>>

HandleTryLock(c) ==
    LET r == Head(toServer[c]).req
    IN  /\ Message(c, "TryLock")
        /\ \/ /\ Process!TryLockFree(r, TRUE)
              /\ Reactions(locks, toClient)
           \/ /\ Process!TryLockTaken(r)
              /\ Reactions(locks, Sent(toClient, c, "ResponseLockFailed", r))
        /\ UNCHANGED <<clientUp, serverUp, closing, clientVars>>

\* Faulty: an unlock for a lock that is no longer held is passed on to whoever
\* holds the id now.
UnlockWhoeverHolds(r) ==
    \E h \in Req : (holding[h] \/ (h = r /\ \A g \in Req : ~holding[g])) /\ Process!Unlock(h)

\* Faulty: the handler answers and leaves the tenure to its ttl.
UnlockByTtl(r) == UNCHANGED lockVars

\* lock.unlock() of the object that was created for the request.
UnlockOwn(r) == Process!Unlock(r)

HandleUnlock(c) ==
    LET r == Head(toServer[c]).req
    IN  /\ Message(c, "Unlock")
        /\ \/ /\ r \in Items(locks[c])
              /\ UnlockOwn(r)
              /\ Reactions([locks EXCEPT ![c] = arrayRemoveItem(@, r)],
                           Sent(toClient, c, "Ack", r))
           \/ /\ r \notin Items(locks[c])
              /\ toClient' = Sent(toClient, c, "Error", r)
              /\ UNCHANGED <<lockVars, locks>>
        /\ UNCHANGED <<clientUp, serverUp, closing, clientVars>>

\* The ttl of a tenure ends. The connection still lists the lock.
TtlExpire(r) ==
    /\ Idle
    /\ Process!TtlExpire(r)
    /\ Reactions(locks, toClient)
    /\ UNCHANGED <<clientUp, serverUp, toServer, closing, clientVars>>

\* The wait of a request times out and the request is answered with an error.
WaitTimeout(r) ==
    /\ Idle
    /\ Process!WaitTimeout(r)
    /\ toClient' = Sent(toClient, conn[r], "Error", r)
    /\ UNCHANGED <<clientUp, serverUp, toServer, locks, closing, clientVars>>

\* BrokerConnection.close(): what was still under way is lost, and the locks
\* listed now are unlocked one by one. Waiting requests are not withdrawn.
ServerDown(c) ==
    /\ Idle /\ c \in Breakable /\ serverUp[c]
    /\ serverUp' = [serverUp EXCEPT ![c] = FALSE]
    /\ toServer' = [toServer EXCEPT ![c] = <<>>]
    /\ closing' = locks[c]
    /\ UNCHANGED <<lockVars, clientUp, toClient, locks, clientVars>>

\* Faulty: close() leaves the locks to their ttl.
CloseKeepsLock(r) == UNCHANGED lockVars

\* for (const lock of this.locks.values()) lock.unlock()
CloseUnlocks(r) == Process!Unlock(r)

CloseStep ==
    /\ closing # <<>>
    /\ closing' = Tail(closing)
    /\ CloseUnlocks(Head(closing))
    /\ Reactions(locks, toClient)
    /\ UNCHANGED <<clientUp, serverUp, toServer, clientVars>>

-----------------------------------------------------------------------------
Next ==
    \/ \E i \in Item, c \in Conn : Connect(i, c)
    \/ \E r \in Req : acquire(r) \/ try(r) \/ TtlExpire(r) \/ WaitTimeout(r)
    \/ \E i \in Item : release(i) \/ releaseAfterLoss(i)
    \/ \E c \in Conn : \/ Receive(c) \/ ClientDown(c) \/ ServerDown(c)
                       \/ HandleLock(c) \/ HandleTryLock(c) \/ HandleUnlock(c)
    \/ CloseStep

Spec == Init /\ [][Next]_vars

\* Timers fire, messages are delivered and handled while a connection lives, a
\* running close() goes on, and a lost connection is noticed at its other end.
\* No caller is obliged to release, and no connection has to break.
Fairness ==
    /\ \A r \in Req : WF_vars(TtlExpire(r)) /\ WF_vars(WaitTimeout(r))
    /\ \A c \in Conn :
         /\ WF_vars(HandleLock(c) \/ HandleTryLock(c) \/ HandleUnlock(c))
         /\ WF_vars(Receive(c))
         /\ WF_vars(ClientDown(c) /\ ~serverUp[c])
         /\ WF_vars(ServerDown(c) /\ clientUp[c] = "down")
    /\ WF_vars(CloseStep)

FairSpec == Spec /\ Fairness

-----------------------------------------------------------------------------
Up(c) == clientUp[c] = "up" /\ serverUp[c]

\* An Unlock that arrives late, after the ttl or a second time, never ends the
\* tenure of another request: only its own, if that is still running.
LateUnlockHarmless ==
    [][ \A c \in Conn :
          /\ serverUp[c] /\ serverUp'[c] /\ toServer[c] # <<>>
          /\ toServer'[c] = Tail(toServer[c]) /\ Head(toServer[c]).type = "Unlock"
          => \A r \in Req : holding[r] /\ ~holding'[r] => r = Head(toServer[c]).req ]_vars

\* While the connection stands, a lock its client was granted is listed for it:
\* release() is never answered with "Unknown lock", and close() unlocks it.
GrantIsListed ==
    \A r \in Req : call[r] = "held" /\ Up(conn[r]) => r \in Items(locks[conn[r]])

\* When calls of an item are awaited one by one, a lock held on the broker for a
\* living connection can be released: the item knows it or is about to be told.
HeldCanBeReleased ==
    Sequential =>
        \A r \in Req : holding[r] /\ Up(conn[r]) =>
            \/ releaser[ItemOf[r]] = r
            \/ \E m \in Items(toClient[conn[r]]) : m.type = "ResponseLock" /\ m.req = r

\* What a client was granted stays releasable, from the grant on the broker over
\* its answer to the releaser of the item, whatever connections break meanwhile.
GrantsReleasable == TypeOK /\ GrantIsListed /\ HeldCanBeReleased

\* What a closed connection still holds on the broker was granted to a waiting
\* request after the close(), and its client was never told: every lock a client
\* had been granted, answered yet or not, was given back by close().
CloseReleases ==
    closing = <<>> =>
        \A r \in Req : holding[r] /\ ~serverUp[conn[r]] => call[r] \in {"acquiring", "failed"}

\* What is over for the client is over on the broker: after release() has returned the
\* request never holds the lock, and a call that was refused or timed out over a
\* connection that stands has left nothing, no tenure that the hand-over gave it at the
\* same time, no place in the queue and no message that would still ask for one.
OverOnBroker ==
    \A r \in Req :
        /\ call[r] = "released" => ~holding[r]
        /\ call[r] = "failed" /\ clientUp[conn[r]] = "up" =>
             /\ ~holding[r] /\ promise[r] # "pending"
             /\ \A c \in Conn : \A m \in Items(toServer[c]) : m.req # r

\* acquire(), try() and release() settle, even when the connection breaks at any
\* point and no other holder ever releases. Of several release() calls for a request
\* that is the last; those in hanging never do: a release() that a later one overtook,
\* and one after a loss.
EveryCallSettles ==
    \A r \in Req : call[r] \in {"acquiring", "trying", "releasing"} ~>
                   call[r] \notin {"acquiring", "trying", "releasing"}

\* No tenure lasts forever, not even one granted to a connection long closed.
EveryTenureEnds == \A r \in Req : holding[r] ~> ~holding[r]

=============================================================================
