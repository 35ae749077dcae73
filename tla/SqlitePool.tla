----------------------------- MODULE SqlitePool -----------------------------
(***************************************************************************)
(* packages/sqlite/src/sqlite-adapter.ts: SQLiteConnectionPool with the    *)
(* connections, the queries that check them out and the transactions that  *)
(* keep theirs until commit() or rollback().                               *)
(*                                                                         *)
(* A query of the ORM gets a connection, runs its statements and releases  *)
(* it; the queries of a transaction share the transaction's. The code runs *)
(* on one thread, but a waiter goes on only some microtasks after          *)
(* release() has resolved its promise, and others run in between. The      *)
(* application awaits the queries of a transaction one after another, and  *)
(* does not use one again that failed to begin: NewTransaction follows it. *)
(***************************************************************************)
EXTENDS Integers, Arrays, FiniteSets

CONSTANTS
    Query,      \* callers of getConnection(), each with one query at a time
    Tx,         \* places for transactions, each with one at a time
    None,
    TxOf,       \* the transaction a query belongs to, or None
    Conn,       \* SQLiteConnection objects; a closed one is used again as new
    Limits,     \* the possible maxConnections: 1 for ':memory:', else 10
    Drift       \* bound: connections come to be shared only while activeConnections
                \* is not further than this from what it can be without that

ASSUME SqliteAssumption ==
    /\ None \notin Tx \cup Conn \cup Query
    /\ TxOf \in [Query -> Tx \cup {None}]
    /\ \A q, r \in Query : TxOf[q] # None /\ TxOf[q] = TxOf[r] => q = r
    /\ Limits \subseteq Nat \ {0}
    /\ Drift \in Nat

VARIABLES
    maxConnections,
    active,       \* activeConnections
    first,        \* firstConnection
    open,         \* the connections whose db is open
    released,     \* SQLiteConnection.released
    owner,        \* SQLiteConnection.transaction
    begun,        \* whose BEGIN is not ended yet on this connection
    txConn,       \* transaction.connection
    txState,      \* live, ending (COMMIT or ROLLBACK was run) or ended
    queue,
    phase,        \* how far each query is
    conn          \* the connection it was given

vars == <<maxConnections, active, first, open, released, owner, begun, txConn, txState,
          queue, phase, conn>>

\* given: the waiter's promise is resolved; failed: BEGIN threw.
Phase == {"idle", "waiting", "given", "failed", "using"}

TypeOK ==
    /\ maxConnections \in Limits
    /\ active \in Int
    /\ first \in Conn \cup {None}
    /\ open \subseteq Conn
    /\ released \in [Conn -> BOOLEAN]
    /\ owner \in [Conn -> Tx \cup {None}]
    /\ begun \in [Conn -> Tx \cup {None}]
    /\ txConn \in [Tx -> Conn \cup {None}]
    /\ txState \in [Tx -> {"live", "ending", "ended"}]
    /\ queue \in Seq(Query)
    /\ phase \in [Query -> Phase]
    /\ conn \in [Query -> Conn \cup {None}]

Init ==
    /\ maxConnections \in Limits
    /\ active = 0
    /\ first = None
    /\ open = {}
    /\ released = [c \in Conn |-> FALSE]
    /\ owner = [c \in Conn |-> None]
    /\ begun = [c \in Conn |-> None]
    /\ txConn = [t \in Tx |-> None]
    /\ txState = [t \in Tx |-> "live"]
    /\ queue = <<>>
    /\ phase = [q \in Query |-> "idle"]
    /\ conn = [q \in Query |-> None]

-----------------------------------------------------------------------------
\* Definitions that say "Faulty" are variants for the mutation runs.

\* The first connection is kept, and lies unused.
FirstReleased == first # None /\ released[first]

\* connection.transaction && !connection.transaction.ended, when the step is done.
\* Faulty: the transaction is not looked at.
NeverKept(c) == FALSE
Kept(c) == owner[c] # None /\ txState'[owner[c]] # "ended"

\* The first connection stays open.
\* Faulty: as any other, it does not.
ClosesAny(c) == TRUE
Closes(c) == c # first

\* The waiters are served in order.
\* Faulty: the last one is.
PutFirst(q) == <<q>> \o queue
Queued(q) == Append(queue, q)

\* No query of t is on its way.
AtRest(t) == \A q \in Query : TxOf[q] = t => phase[q] = "idle"

\* The objects for createConnection(): nobody refers to them (a closed one may still
\* tell its last owner, which has ended).
Unused == { c \in Conn \ open : /\ \A q \in Query : conn[q] # c
                                /\ \A t \in Tx : txConn[t] # c }

\* getConnection() of q goes on with c: BEGIN fails inside another transaction.
Got(q, c, t) ==
    /\ first' = IF first = None THEN c ELSE first
    /\ active' = active + 1
    /\ released' = [released EXCEPT ![c] = FALSE]
    /\ conn' = [conn EXCEPT ![q] = c]
    /\ \/ /\ t = None
          /\ phase' = [phase EXCEPT ![q] = "using"]
          /\ UNCHANGED <<owner, txConn, begun>>
       \/ /\ t # None
          /\ txConn' = [txConn EXCEPT ![t] = c]
          /\ owner' = [owner EXCEPT ![c] = t]
          /\ begun' = [begun EXCEPT ![c] = IF begun[c] = None THEN t ELSE begun[c]]
          /\ phase' = [phase EXCEPT ![q] = IF begun[c] = None THEN "using" ELSE "failed"]
    /\ UNCHANGED <<maxConnections, txState>>

-----------------------------------------------------------------------------
\* A query starts; a transaction that has ended or is about to is not used.
Starts(q) ==
    /\ phase[q] = "idle"
    /\ TxOf[q] # None => txState[TxOf[q]] = "live"

\* The bound on the drift.
WithinDrift == -Drift <= active /\ active <= maxConnections + Drift

\* if (transaction && transaction.connection)
HasConnection(q) == TxOf[q] # None /\ txConn[TxOf[q]] # None

AskSticky(q) ==
    /\ Starts(q)
    /\ HasConnection(q)
    /\ WithinDrift \/ owner[txConn[TxOf[q]]] = TxOf[q]
    /\ conn' = [conn EXCEPT ![q] = txConn[TxOf[q]]]
    /\ phase' = [phase EXCEPT ![q] = "using"]
    /\ UNCHANGED <<maxConnections, active, first, open, released, owner, begun, txConn,
                   txState, queue>>

AskFirst(q) ==
    /\ Starts(q)
    /\ ~HasConnection(q)
    /\ FirstReleased
    /\ WithinDrift \/ (owner[first] = None /\ \A r \in Query : conn[r] # first)
    /\ Got(q, first, TxOf[q])
    /\ UNCHANGED <<open, queue>>

AskWait(q) ==
    /\ Starts(q)
    /\ ~HasConnection(q)
    /\ ~FirstReleased
    /\ active >= maxConnections
    /\ queue' = Queued(q)
    /\ phase' = [phase EXCEPT ![q] = "waiting"]
    /\ UNCHANGED <<maxConnections, active, first, open, released, owner, begun, txConn,
                   txState, conn>>

\* createConnection(): one unused object is as good as another.
AskCreate(q) ==
    /\ Starts(q)
    /\ ~HasConnection(q)
    /\ ~FirstReleased
    /\ active < maxConnections
    /\ Unused # {}
    /\ LET c == CHOOSE c \in Unused : TRUE
       IN  open' = open \cup {c} /\ Got(q, c, TxOf[q])
    /\ UNCHANGED queue

\* The waiter goes on with the connection it was given, whatever has happened to
\* it, and to the transaction, since.
Resume(q) ==
    /\ phase[q] = "given"
    /\ Got(q, conn[q], TxOf[q])
    /\ UNCHANGED <<open, queue>>

-----------------------------------------------------------------------------
\* release(c), of which q lets go.
Release(c, q) ==
    /\ \/ /\ Kept(c)
          /\ phase' = [r \in Query |-> IF r = q THEN "idle" ELSE phase[r]]
          /\ conn' = [r \in Query |-> IF r = q THEN None ELSE conn[r]]
          /\ UNCHANGED <<active, released, queue, open, begun>>
       \/ /\ ~Kept(c)
          /\ active' = active - 1
          /\ released' = [released EXCEPT ![c] = TRUE]
          /\ \/ /\ queue # <<>>
                /\ queue' = Tail(queue)
                /\ phase' = [r \in Query |-> IF r = q THEN "idle"
                                             ELSE IF r = Head(queue) THEN "given" ELSE phase[r]]
                /\ conn' = [r \in Query |-> IF r = q THEN None
                                            ELSE IF r = Head(queue) THEN c ELSE conn[r]]
                /\ UNCHANGED <<open, begun>>
             \/ /\ queue = <<>>
                /\ phase' = [r \in Query |-> IF r = q THEN "idle" ELSE phase[r]]
                /\ conn' = [r \in Query |-> IF r = q THEN None ELSE conn[r]]
                /\ open' = IF Closes(c) THEN open \ {c} ELSE open
                /\ begun' = [begun EXCEPT ![c] = IF Closes(c) THEN None ELSE begun[c]]
                /\ UNCHANGED queue
    /\ UNCHANGED <<maxConnections, first>>

\* The statements are done: connection.release().
Finish(q) ==
    /\ phase[q] = "using"
    /\ UNCHANGED <<owner, txConn, txState>>
    /\ Release(conn[q], q)

\* transaction.begin() threw: the transaction is ended and the connection released.
BeginFails(q) ==
    /\ phase[q] = "failed"
    /\ txState' = [txState EXCEPT ![TxOf[q]] = "ended"]
    /\ Release(conn[q], q)
    /\ UNCHANGED <<owner, txConn>>

\* commit() or rollback(), once the application has awaited its queries.
End(t) ==
    /\ txState[t] = "live"
    /\ txConn[t] # None
    /\ AtRest(t)
    /\ begun[txConn[t]] # None
    /\ begun' = [begun EXCEPT ![txConn[t]] = None]
    /\ txState' = [txState EXCEPT ![t] = "ending"]
    /\ UNCHANGED <<maxConnections, active, first, open, released, owner, txConn, queue,
                   phase, conn>>

\* ended = true; connection.release()
Ended(t) ==
    /\ txState[t] = "ending"
    /\ txState' = [txState EXCEPT ![t] = "ended"]
    /\ Release(txConn[t], None)
    /\ UNCHANGED <<owner, txConn>>

\* The next transaction object. Connections may still refer to the old one, which has
\* ended: for release() that is as good as none.
NewTransaction(t) ==
    /\ txState[t] = "ended"
    /\ AtRest(t)
    /\ txState' = [txState EXCEPT ![t] = "live"]
    /\ txConn' = [txConn EXCEPT ![t] = None]
    /\ owner' = [c \in Conn |-> IF owner[c] = t THEN None ELSE owner[c]]
    /\ UNCHANGED <<maxConnections, active, first, open, released, begun, queue, phase, conn>>

Next ==
    \/ \E q \in Query :
          \/ AskSticky(q) \/ AskFirst(q) \/ AskWait(q) \/ AskCreate(q)
          \/ Resume(q) \/ Finish(q) \/ BeginFails(q)
    \/ \E t \in Tx : End(t) \/ Ended(t) \/ NewTransaction(t)

Spec == Init /\ [][Next]_vars

\* Promises that are settled go on; queries end; an application that has awaited its
\* queries ends its transaction some time (SF: it may send another query first).
Fairness ==
    /\ \A q \in Query :
          /\ WF_vars(Resume(q))
          /\ WF_vars(Finish(q))
          /\ WF_vars(BeginFails(q))
    /\ \A t \in Tx : SF_vars(End(t)) /\ WF_vars(Ended(t))

FairSpec == Spec /\ Fairness

-----------------------------------------------------------------------------
HoldsOpen == \A q \in Query : conn[q] # None => conn[q] \in open
OthersHeldOnce ==
    \A q, r \in Query : conn[q] = conn[r] => q = r \/ conn[q] \in {None, first}
KeepsItsOwn ==
    \A t \in Tx : txConn[t] \notin {None, first} /\ txState[t] # "ended" =>
        /\ txConn[t] \in open
        /\ owner[txConn[t]] = t
        /\ \A q \in Query : conn[q] = txConn[t] => TxOf[q] = t

\* Nobody is given a connection whose db is closed, and all but the first connection
\* are held by one query or one transaction at a time. (getConnection() takes the
\* first one whenever it is released, also while a waiter is about to get it; release()
\* closes the others. The comment at line 262 wants it of the first one as well.)
Exclusive == TypeOK /\ HoldsOpen /\ OthersHeldOnce /\ KeepsItsOwn

\* A transaction whose BEGIN succeeded stays open on its connection until its own
\* COMMIT or ROLLBACK, whoever else got the connection, released it or failed to
\* begin on it. (release() against connection.transaction, which others overwrite)
TransactionIntact ==
    \A t \in Tx : txState[t] = "live" /\ txConn[t] # None =>
        begun[txConn[t]] = t \/ \E q \in Query : TxOf[q] = t /\ phase[q] = "failed"

\* Every query that waits gets a connection in the end, although activeConnections
\* drifts when a connection is shared. (queue.push() against queue.shift())
EveryWaiterServed == \A q \in Query : []<>(phase[q] # "waiting")

=============================================================================
