------------------------------ MODULE MongoPool ------------------------------
(***************************************************************************)
(* packages/mongo/src/client/connection.ts: the connection pool of one     *)
(* standalone host with its wait queue, heartbeats, idle timers, socket    *)
(* events and transactions.                                                *)
(*                                                                         *)
(* Whoever has a connection is a Holder: a user (MongoClient.execute() or  *)
(* pool.getConnection()) or the heartbeat of the host. A user of           *)
(* Transactional works in transactions, one at a time; the others get a    *)
(* connection, run commands and release it. A connection object that is    *)
(* closed and forgotten by everybody is used again as a new one.           *)
(***************************************************************************)
EXTENDS Arrays, FiniteSets

CONSTANTS
    User,           \* callers of the pool
    Transactional,  \* those that work in transactions
    Heartbeat,      \* the heartbeat of the host
    Conn,           \* MongoConnection objects; its size bounds how many live at once
    None,
    MaxPoolSize,    \* options.maxPoolSize
    WaitTimeout     \* is options.waitQueueTimeoutMS set?

ASSUME PoolAssumption ==
    /\ Transactional \subseteq User
    /\ Heartbeat \notin User
    /\ None \notin Conn \cup User \cup {Heartbeat}
    /\ IsFiniteSet(Conn)
    /\ MaxPoolSize \in Nat
    /\ WaitTimeout \in BOOLEAN

Holder == User \cup {Heartbeat}

VARIABLES
    connections,  \* host.connections: created, and onClose not yet called
    status,       \* MongoConnection.status
    reserved,     \* MongoConnection.reserved
    idle,         \* is cleanupTimeout armed?
    attached,     \* whose living transaction connection.transaction refers to
    queue,        \* the waiters
    late,         \* the waiters whose waitQueueTimeoutMS is over
    phase,        \* how far each holder is
    conn,         \* the connection it has
    started,      \* that transaction's started: the monitor has it registered
    known,        \* host.type: "standalone" or unknown
    dead,         \* host.dead
    topology,     \* config.topology; "unknown" while heartbeats = 0
    closed        \* MongoConnectionPool.closed

vars == <<connections, status, reserved, idle, attached, queue, late, phase, conn,
          started, known, dead, topology, closed>>

\* refused: the handshake failed; the code leaves the status pending, with a
\* connectingPromise that is rejected.
Status == {"pending", "connected", "disconnected", "refused", "error"}

\* connecting: awaits connect(); sent: a command is in flight; ending: COMMIT or
\* ABORT is; failed, ended: steps of the heartbeat.
Phase == {"idle", "waiting", "connecting", "using", "sent", "ending", "failed", "ended"}

TypeOK ==
    /\ connections \subseteq Conn
    /\ status \in [Conn -> Status]
    /\ reserved \in [Conn -> BOOLEAN]
    /\ idle \in [Conn -> BOOLEAN]
    /\ attached \in [Conn -> Transactional \cup {None}]
    /\ queue \in Seq(User)
    /\ late \subseteq User
    /\ phase \in [Holder -> Phase]
    /\ conn \in [Holder -> Conn \cup {None}]
    /\ started \in [Conn -> BOOLEAN]
    /\ known \in BOOLEAN
    /\ dead \in BOOLEAN
    /\ topology \in {"unknown", "single", "none"}
    /\ closed \in BOOLEAN

Init ==
    /\ connections = {}
    /\ status = [c \in Conn |-> "disconnected"]
    /\ reserved = [c \in Conn |-> FALSE]
    /\ idle = [c \in Conn |-> FALSE]
    /\ attached = [c \in Conn |-> None]
    /\ queue = <<>>
    /\ late = {}
    /\ phase = [h \in Holder |-> "idle"]
    /\ conn = [h \in Holder |-> None]
    /\ started = [c \in Conn |-> FALSE]
    /\ known = FALSE
    /\ dead = FALSE
    /\ topology = "unknown"
    /\ closed = FALSE

-----------------------------------------------------------------------------
\* Definitions that say "Faulty" are variants for the mutation runs.

\* !connection.isConnected() and connection.reserved are passed over.
\* Faulty: reserved ones are not.
Connected(c) == c \in connections /\ status[c] = "connected"
Free(c) == c \in connections /\ status[c] = "connected" /\ ~reserved[c]

\* An object for createConnection(): nobody knows it, the monitor neither.
Unused(c) ==
    /\ c \notin connections
    /\ \A h \in Holder : conn[h] # c
    /\ attached[c] # None => ~started[c]

\* host.isUsable()
Usable == known /\ ~dead

\* findHostForRequest() of a request for the primary.
HostFound == topology = "single"

\* connection.transaction as it is when u gets the connection.
TransactionOf(u) == IF u \in Transactional THEN u ELSE None

\* c is given a new transaction, or none.
Attach(c, t) ==
    /\ attached' = [attached EXCEPT ![c] = t]
    /\ started' = [started EXCEPT ![c] = FALSE]

\* if (this.transaction?.deref()) return.
Releases(c) == attached[c] = None

\* this.cleanupTimeout of a connection that becomes reserved is cleared.
\* Faulty: it stays armed.
TimerKept(timer, c) == timer
TimerCleared(timer, c) == [timer EXCEPT ![c] = FALSE]

\* connection.reserved = false of a connection that is given back.
\* Faulty: not while others wait, as if one of them had got it.
KeptForQueue(flag, c) == [flag EXCEPT ![c] = queue # <<>>]
Unreserved(flag, c) == [flag EXCEPT ![c] = FALSE]

-----------------------------------------------------------------------------
\* getConnectionForHost(): h gets the free connection c.
Take(h, c) ==
    /\ Free(c)
    /\ reserved' = [reserved EXCEPT ![c] = TRUE]
    /\ idle' = TimerCleared(idle, c)
    /\ conn' = [conn EXCEPT ![h] = c]
    /\ phase' = [phase EXCEPT ![h] = "using"]
    /\ Attach(c, TransactionOf(h))
    /\ UNCHANGED <<connections, status>>

\* createConnection(): h awaits the new connection c.
Create(h, c) ==
    /\ Unused(c)
    /\ connections' = connections \cup {c}
    /\ status' = [status EXCEPT ![c] = "pending"]
    /\ reserved' = [reserved EXCEPT ![c] = TRUE]
    /\ idle' = [idle EXCEPT ![c] = FALSE]
    /\ Attach(c, None)
    /\ conn' = [conn EXCEPT ![h] = c]
    /\ phase' = [phase EXCEPT ![h] = "connecting"]

NoneFree == \A c \in Conn : ~Free(c)

\* pool.getConnection(). It throws, without effect, if the pool is closed or the
\* topology is known and has no usable host.
Request(u, c) ==
    /\ phase[u] = "idle"
    /\ ~closed
    /\ HostFound
    /\ \/ Take(u, c)
       \/ NoneFree /\ Cardinality(connections) < MaxPoolSize /\ Create(u, c)
    /\ UNCHANGED <<queue, late, known, dead, topology, closed>>

RequestWait(u) ==
    /\ phase[u] = "idle"
    /\ ~closed
    /\ \/ topology = "unknown"
       \/ HostFound /\ NoneFree /\ Cardinality(connections) >= MaxPoolSize
    /\ queue' = Append(queue, u)
    /\ phase' = [phase EXCEPT ![u] = "waiting"]
    /\ UNCHANGED <<connections, status, reserved, idle, attached, late, conn, started,
                   known, dead, topology, closed>>

\* The waitQueueTimeoutMS of a waiter passes. Only release() looks at it.
TimePasses(u) ==
    /\ WaitTimeout
    /\ phase[u] = "waiting"
    /\ late' = late \cup {u}
    /\ UNCHANGED <<connections, status, reserved, idle, attached, queue, phase, conn,
                   started, known, dead, topology, closed>>

-----------------------------------------------------------------------------
\* The positions the loop of release() looks at if it gives the connection to nobody.
\* A timed out waiter is spliced out, so the loop passes over the one behind it.
Walk(seen) ==
    \A i \in DOMAIN queue :
        i \in seen <=> \/ i = 1
                       \/ i - 1 \in seen /\ queue[i - 1] \notin late
                       \/ i - 2 \in seen /\ queue[i - 2] \in late

\* The waiters in gone leave the queue, the others keep their order.
Leave(gone) ==
    \E n \in 0 .. Len(queue) : \E at \in [1 .. n -> DOMAIN queue] :
        /\ \A i, j \in 1 .. n : i < j => at[i] < at[j]
        /\ { at[i] : i \in 1 .. n } = { i \in DOMAIN queue : queue[i] \notin gone }
        /\ queue' = [i \in 1 .. n |-> queue[at[i]]]

\* Who had c goes on as told in then, the timed out ones fail, u gets c.
Passed(h, then, out, u, c) ==
    /\ late' = late \ out
    /\ phase' = [x \in Holder |-> IF x = h THEN then ELSE IF x \in out THEN "idle"
                                  ELSE IF x = u THEN "using" ELSE phase[x]]
    /\ conn' = [x \in Holder |-> IF x = h THEN None ELSE IF x = u THEN c ELSE conn[x]]

\* c goes to the waiter u, whether it is closed or not.
HandOver(c, h, then, out, u) ==
    /\ Leave(out \cup {u})
    /\ Passed(h, then, out, u, c)
    /\ Attach(c, TransactionOf(u))
    /\ UNCHANGED <<reserved, idle>>

\* Nobody gets it: it becomes idle.
PutDown(c, h, then, out) ==
    /\ Leave(out)
    /\ Passed(h, then, out, None, c)
    /\ reserved' = Unreserved(reserved, c)
    /\ idle' = [idle EXCEPT ![c] = c \in connections]
    /\ Attach(c, None)

\* pool.release(): c is given back by h, if anybody has it. The loop ends with the
\* first waiter that has not timed out, if the host serves it.
GiveBack(c, h, then, usable) ==
    \E seen \in SUBSET DOMAIN queue :
        LET inTime == { i \in seen : usable /\ queue[i] \notin late }
            before(k) == { queue[i] : i \in { j \in seen : j < k } }
        IN  /\ Walk(seen)
            /\ \/ \E k \in inTime : /\ \A i \in inTime : k <= i
                                    /\ HandOver(c, h, then, before(k), queue[k])
               \/ /\ inTime = {}
                  /\ PutDown(c, h, then, { queue[i] : i \in { j \in seen : queue[j] \in late } })
            /\ UNCHANGED <<connections, status>>

\* connection.release() when the user is done with its commands.
Finish(u) ==
    /\ phase[u] = "using"
    /\ Releases(conn[u])
    /\ GiveBack(conn[u], u, "idle", Usable)
    /\ UNCHANGED <<known, dead, topology, closed>>

\* MongoConnection.execute() sends a command, the first of a transaction starts it.
\* A disconnected connection throws instead; one in error does not.
Send(h) ==
    /\ phase[h] = "using"
    /\ status[conn[h]] \in {"connected", "error"}
    /\ phase' = [phase EXCEPT ![h] = "sent"]
    /\ started' = [started EXCEPT ![conn[h]] = attached[conn[h]] # None]
    /\ UNCHANGED <<connections, status, reserved, idle, attached, queue, late, conn,
                   known, dead, topology, closed>>

\* The server answers a command.
Reply(u) ==
    /\ phase[u] = "sent"
    /\ Connected(conn[u])
    /\ phase' = [phase EXCEPT ![u] = "using"]
    /\ UNCHANGED <<connections, status, reserved, idle, attached, queue, late, conn,
                   started, known, dead, topology, closed>>

-----------------------------------------------------------------------------
InTransaction(u) == u \in Transactional /\ phase[u] = "using" /\ attached[conn[u]] = u

\* transaction.commit() or rollback() of a started transaction sends its command.
End(u) ==
    /\ InTransaction(u)
    /\ started[conn[u]]
    /\ status[conn[u]] \in {"connected", "error"}
    /\ phase' = [phase EXCEPT ![u] = "ending"]
    /\ UNCHANGED <<connections, status, reserved, idle, attached, queue, late, conn,
                   started, known, dead, topology, closed>>

\* The user has no connection any more, but nobody has released it.
Forget(u) ==
    /\ phase' = [phase EXCEPT ![u] = "idle"]
    /\ conn' = [conn EXCEPT ![u] = None]
    /\ UNCHANGED <<connections, status, reserved, idle, attached, queue, late, started,
                   known, dead, topology, closed>>

\* ended = true; connection.release(). The transaction lives, as commit() runs on
\* it, so release() returns early.
Ended(u) ==
    /\ phase[u] = "ending"
    /\ Connected(conn[u])
    /\ Forget(u)

\* The server refuses the command.
EndFails(u) ==
    /\ phase[u] = "ending"
    /\ Connected(conn[u])
    /\ phase' = [phase EXCEPT ![u] = "using"]
    /\ UNCHANGED <<connections, status, reserved, idle, attached, queue, late, conn,
                   started, known, dead, topology, closed>>

\* rollback() of a transaction that has not started returns, or the session is
\* dropped with its transaction running.
Abandon(u) ==
    /\ InTransaction(u)
    /\ Forget(u)

\* A transaction that is left behind is collected. If it had started, the finalizer
\* aborts it and releases the connection, also after commit() and rollback(): they
\* unregister() by a token register() was not given.
Collected(c) ==
    /\ attached[c] # None
    /\ \A h \in Holder : conn[h] # c
    /\ started[c]
    /\ GiveBack(c, None, "idle", Usable)
    /\ UNCHANGED <<known, dead, topology, closed>>

-----------------------------------------------------------------------------
\* heartbeatHost(): a free connection or a new one, whatever the limit.
HeartbeatStart(c) ==
    /\ phase[Heartbeat] = "idle"
    /\ ~closed
    /\ Take(Heartbeat, c) \/ (NoneFree /\ Create(Heartbeat, c))
    /\ UNCHANGED <<queue, late, known, dead, topology, closed>>

\* The IsMaster command is answered.
HeartbeatReply ==
    /\ phase[Heartbeat] = "sent"
    /\ Connected(conn[Heartbeat])
    /\ known' = (known \/ ~closed)
    /\ dead' = (dead /\ closed)
    /\ GiveBack(conn[Heartbeat], Heartbeat, "ended", known' /\ ~dead')
    /\ UNCHANGED <<topology, closed>>

\* The connection failed, or is disconnected when the command is to be sent.
HeartbeatFails ==
    /\ \/ phase[Heartbeat] = "failed"
       \/ phase[Heartbeat] = "using" /\ status[conn[Heartbeat]] = "disconnected"
    /\ known' = FALSE
    /\ dead' = TRUE
    /\ GiveBack(conn[Heartbeat], Heartbeat, "ended", FALSE)
    /\ UNCHANGED <<topology, closed>>

\* The waiters that get no connection in onTopologyProgress() are put back.
\* Faulty: they are forgotten.
NotPutBack(n) == <<>>
PutBack(n) == SubSeq(queue, n + 1, Len(queue))

\* onTopologyProgress(): the first waiters get the free connections ...
Distribute(free, n) ==
    LET to == { queue[i] : i \in 1 .. n }
    IN  \E give \in [to -> free] :
          LET given == { give[u] : u \in to }
          IN  /\ \A u, v \in to : give[u] = give[v] => u = v
              /\ conn' = [x \in Holder |-> IF x \in to THEN give[x] ELSE conn[x]]
              /\ phase' = [x \in Holder |-> IF x = Heartbeat THEN "idle"
                                            ELSE IF x \in to THEN "using" ELSE phase[x]]
              /\ reserved' = [c \in Conn |-> reserved[c] \/ c \in given]
              /\ idle' = [c \in Conn |-> idle[c] /\ c \notin given]
              /\ attached' = [c \in Conn |->
                                IF c \in given
                                THEN TransactionOf(CHOOSE u \in to : give[u] = c)
                                ELSE attached[c]]
              /\ started' = [c \in Conn |-> started[c] /\ c \notin given]
              /\ late' = late \ to
              /\ queue' = PutBack(n)

\* ... or all are rejected, if the host is not known.
RejectAll ==
    /\ queue' = <<>>
    /\ late' = {}
    /\ phase' = [x \in Holder |->
                   IF x = Heartbeat \/ phase[x] = "waiting" THEN "idle" ELSE phase[x]]
    /\ UNCHANGED <<conn, reserved, idle, attached, started>>

HeartbeatEnd ==
    /\ phase[Heartbeat] = "ended"
    /\ topology' = IF known THEN "single" ELSE "none"
    /\ \/ known /\ LET free == { c \in Conn : Free(c) }
                       few  == Len(queue) < Cardinality(free)
                   IN  Distribute(free, IF few THEN Len(queue) ELSE Cardinality(free))
       \/ ~known /\ RejectAll
    /\ UNCHANGED <<connections, status, known, dead, closed>>

-----------------------------------------------------------------------------
\* The holders of c go on: what awaits connect() fails, and what awaits an answer
\* fails if answers is TRUE.
Disturb(c, answers) ==
    LET fails(h) == conn[h] = c /\ phase[h] = "connecting"
    IN  /\ phase' = [h \in Holder |->
              IF conn[h] # c THEN phase[h]
              ELSE IF h = Heartbeat
                   THEN IF phase[h] = "connecting" \/ (answers /\ phase[h] = "sent")
                        THEN "failed" ELSE phase[h]
              ELSE IF phase[h] = "connecting" THEN "idle"
              ELSE IF answers /\ phase[h] \in {"sent", "ending"} THEN "using"
              ELSE phase[h]]
        /\ conn' = [h \in Holder |-> IF h \in User /\ fails(h) THEN None ELSE conn[h]]

\* The handshake is answered: connect() resolves, the host's type is known.
Handshake(h) ==
    /\ phase[h] = "connecting"
    /\ status[conn[h]] = "pending"
    /\ status' = [status EXCEPT ![conn[h]] = "connected"]
    /\ phase' = [phase EXCEPT ![h] = "using"]
    /\ Attach(conn[h], TransactionOf(h))
    /\ known' = TRUE
    /\ UNCHANGED <<connections, reserved, idle, queue, late, conn, dead, topology, closed>>

\* The handshake is refused: connect() rejects, the socket stays open until the
\* connect timeout.
HandshakeFails(h) ==
    /\ phase[h] = "connecting"
    /\ status[conn[h]] = "pending"
    /\ status' = [status EXCEPT ![conn[h]] = "refused"]
    /\ Disturb(conn[h], FALSE)
    /\ UNCHANGED <<connections, reserved, idle, attached, queue, late, started, known,
                   dead, topology, closed>>

\* The close event of the socket: after close(), the connect timeout or by the peer.
CloseEvent(c) ==
    /\ c \in connections
    /\ connections' = connections \ {c}
    /\ status' = [status EXCEPT ![c] = "disconnected"]
    /\ idle' = [idle EXCEPT ![c] = FALSE]
    /\ Disturb(c, TRUE)
    /\ UNCHANGED <<reserved, attached, queue, late, started, known, dead, topology, closed>>

\* The error event: lastCommand is not rejected, and the close event that follows
\* returns early as the connection is closed.
ErrorEvent(c) ==
    /\ c \in connections
    /\ status[c] # "disconnected"
    /\ connections' = connections \ {c}
    /\ status' = [status EXCEPT ![c] = "error"]
    /\ idle' = [idle EXCEPT ![c] = FALSE]
    /\ Disturb(c, FALSE)
    /\ UNCHANGED <<reserved, attached, queue, late, started, known, dead, topology, closed>>

\* The idle timer closes the connection (minPoolSize is 0).
IdleTimeout(c) ==
    /\ idle[c]
    /\ status' = [status EXCEPT ![c] = "disconnected"]
    /\ idle' = [idle EXCEPT ![c] = FALSE]
    /\ UNCHANGED <<connections, reserved, attached, queue, late, phase, conn, started,
                   known, dead, topology, closed>>

\* pool.close()
ClosePool ==
    /\ ~closed
    /\ closed' = TRUE
    /\ status' = [c \in Conn |-> IF c \in connections THEN "disconnected" ELSE status[c]]
    /\ idle' = [c \in Conn |-> FALSE]
    /\ phase' = [h \in Holder |-> IF phase[h] = "waiting" THEN "idle" ELSE phase[h]]
    /\ queue' = <<>>
    /\ late' = {}
    /\ UNCHANGED <<connections, reserved, attached, conn, started, known, dead, topology>>

\* pool.connect() of a closed pool
Reopen ==
    /\ closed
    /\ closed' = FALSE
    /\ UNCHANGED <<connections, status, reserved, idle, attached, queue, late, phase,
                   conn, started, known, dead, topology>>

Next ==
    \/ \E u \in User :
          \/ \E c \in Conn : Request(u, c)
          \/ RequestWait(u) \/ TimePasses(u) \/ Finish(u) \/ Send(u) \/ Reply(u)
    \/ \E u \in Transactional :
          End(u) \/ Ended(u) \/ EndFails(u) \/ Abandon(u)
    \/ \E c \in Conn :
          \/ Collected(c) \/ HeartbeatStart(c)
          \/ CloseEvent(c) \/ ErrorEvent(c) \/ IdleTimeout(c)
    \/ \E h \in Holder : Handshake(h) \/ HandshakeFails(h)
    \/ Send(Heartbeat) \/ HeartbeatReply \/ HeartbeatFails \/ HeartbeatEnd
    \/ ClosePool \/ Reopen

Spec == Init /\ [][Next]_vars

\* Sockets and timers go on, a user in between two commands does, and a heartbeat
\* is started in time (SF: the pool finds the place the model may lack, Conn being
\* finite). A user is done with its commands some time (SF, as it may send another
\* one first). The peer need not close, nor anybody send or ask.
Fairness ==
    /\ \A h \in Holder :
          /\ WF_vars(Handshake(h) \/ HandshakeFails(h))
          /\ WF_vars(h \in User /\ Reply(h))
    /\ \A c \in Conn :
          /\ SF_vars(HeartbeatStart(c))
          /\ WF_vars(status[c] \in {"disconnected", "refused"} /\ CloseEvent(c))
    /\ \A u \in User : SF_vars(Finish(u))
    /\ \A u \in Transactional :
          /\ SF_vars(End(u) \/ Abandon(u))
          /\ WF_vars(Ended(u) \/ EndFails(u))
    /\ WF_vars(Send(Heartbeat))
    /\ WF_vars(HeartbeatReply \/ HeartbeatFails)
    /\ WF_vars(HeartbeatEnd)

FairSpec == Spec /\ Fairness

-----------------------------------------------------------------------------
HeldAlone == \A g, h \in Holder : conn[g] # None /\ conn[g] = conn[h] => g = h
HeldIsReserved == \A h \in Holder : conn[h] # None => reserved[conn[h]]
IdleIsFree == \A c \in Conn : idle[c] => c \in connections /\ ~reserved[c]
ForItsTransaction == \A h \in Holder : conn[h] # None => attached[conn[h]] \in {None, h}
HasOneIffPast == \A h \in Holder : conn[h] = None <=> phase[h] \in {"idle", "waiting", "ended"}
WaitersQueued == Items(queue) = { h \in Holder : phase[h] = "waiting" } /\ Once(queue)

\* Whoever has a connection has it alone, and it is reserved; the idle timer runs
\* for no connection that somebody has (it would close it under him); a transaction
\* keeps its connection for itself; those who wait are in the queue, once.
\* (connection.reserved against cleanupTimeout, release() and onTopologyProgress())
Exclusive ==
    /\ TypeOK
    /\ HeldAlone
    /\ HeldIsReserved
    /\ IdleIsFree
    /\ ForItsTransaction
    /\ HasOneIffPast
    /\ WaitersQueued

\* A place of the pool is taken only by a connection that somebody has, one whose
\* handshake was refused and that its timeout will close, or one that a transaction
\* has left behind, committed or not: neither failures, nor hand-overs, nor close() lose another.
\* (connection.reserved of host.connections, getConnection() and release())
NoSlotLost ==
    \A c \in connections :
        reserved[c] => \/ \E h \in Holder : conn[h] = c
                       \/ attached[c] # None
                       \/ status[c] \in {"refused", "disconnected"}

\* A command whose connection had the error event: nobody settles its promise.
Hung(h) == phase[h] \in {"sent", "ending"} /\ conn[h] \notin connections

\* No connection object is left for the heartbeat of the model.
NoRoom == \A c \in Conn : ~Free(c) /\ ~Unused(c)

\* A heartbeat has failed, but another connection has told the host's type since.
Flapping == known /\ dead

\* Every waiter of the queue gets a connection or an error in the end, unless the
\* heartbeat hangs or the host is flapping for ever: whom release() passes over,
\* the heartbeat's own connection or onTopologyProgress() serves.
EveryRequestSettles ==
    \A u \in User : \/ []<>(phase[u] # "waiting")
                    \/ <>[]Hung(Heartbeat)
                    \/ []<>Flapping
                    \/ <>[]NoRoom

=============================================================================
