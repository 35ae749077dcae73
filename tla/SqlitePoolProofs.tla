-------------------------- MODULE SqlitePoolProofs --------------------------
(***************************************************************************)
(* What the SQLite pool keeps although its first connection may be shared, *)
(* for any number of queries, transactions and connections.                *)
(*                                                                         *)
(* The inductive invariant adds where a query stands: a transaction whose  *)
(* query is on its way is live (BusyIsLive); before its query has          *)
(* checked out it has no connection, afterwards its query has the          *)
(* transaction's (HasItsTransactions); and who waits is in the queue and   *)
(* has no connection. A transaction that is ending has a connection, and   *)
(* only a transaction's query fails to begin.                              *)
(***************************************************************************)
EXTENDS SqlitePool, TLAPS

FirstIsOpen == (first = None => open = {}) /\ (first # None => first \in open)
HoldsIffPast == \A q \in Query : conn[q] # None <=> phase[q] \in {"given", "failed", "using"}
QueuedWait == (\A q \in Items(queue) : phase[q] = "waiting") /\ Once(queue)
BusyIsLive ==
    \A q \in Query : TxOf[q] # None /\ phase[q] # "idle" => txState[TxOf[q]] = "live"
HasItsTransactions ==
    \A q \in Query : TxOf[q] # None =>
        /\ phase[q] \in {"failed", "using"} => txConn[TxOf[q]] = conn[q]
        /\ phase[q] \in {"waiting", "given"} => txConn[TxOf[q]] = None
OnlyTransactionsFail == \A q \in Query : phase[q] = "failed" => TxOf[q] # None
EndingHasOne == \A t \in Tx : txState[t] = "ending" => txConn[t] # None

IInv ==
    /\ Exclusive
    /\ TransactionIntact
    /\ FirstIsOpen
    /\ HoldsIffPast
    /\ QueuedWait
    /\ BusyIsLive
    /\ HasItsTransactions
    /\ OnlyTransactionsFail
    /\ EndingHasOne

\* A new item joins the queue.
LEMMA PushItem ==
    ASSUME NEW S, NEW array \in Seq(S), NEW item \in S,
           Once(array), item \notin Items(array)
    PROVE  /\ Append(array, item) \in Seq(S)
           /\ Items(Append(array, item)) = Items(array) \cup {item}
           /\ Once(Append(array, item))
<1> DEFINE new == Append(array, item)
<1>1. /\ new \in Seq(S)
      /\ Len(new) = Len(array) + 1
      /\ \A i \in 1 .. Len(array) : new[i] = array[i]
      /\ new[Len(array) + 1] = item
  OBVIOUS
<1>2. DOMAIN new = 1 .. Len(array) + 1 /\ DOMAIN array = 1 .. Len(array) /\ Len(array) \in Nat
  BY <1>1
<1> HIDE DEF new
<1>3. Items(new) = Items(array) \cup {item}
  BY <1>1, <1>2 DEF Items
<1>4. Once(new)
  BY <1>1, <1>2 DEF Once, Items
<1> QED
  BY <1>1, <1>3, <1>4 DEF new

\* The first one of the queue is served.
LEMMA ShiftItem ==
    ASSUME NEW S, NEW array \in Seq(S), array # <<>>, Once(array)
    PROVE  /\ Head(array) \in S /\ Head(array) \in Items(array)
           /\ Tail(array) \in Seq(S)
           /\ Items(Tail(array)) = Items(array) \ {Head(array)}
           /\ Once(Tail(array))
<1> DEFINE new == Tail(array)
<1>1. /\ new \in Seq(S)
      /\ Len(array) \in Nat /\ Len(array) >= 1
      /\ Len(new) = Len(array) - 1
      /\ \A i \in 1 .. Len(array) - 1 : new[i] = array[i + 1]
      /\ Head(array) = array[1]
  OBVIOUS
<1>2. DOMAIN new = 1 .. Len(array) - 1 /\ DOMAIN array = 1 .. Len(array)
  BY <1>1
<1> HIDE DEF new
<1>3. Items(new) \subseteq Items(array) \ {array[1]}
  BY <1>1, <1>2 DEF Items, Once
<1>4. Items(array) \ {array[1]} \subseteq Items(new)
  <2> SUFFICES ASSUME NEW j \in 1 .. Len(array), array[j] # array[1]
               PROVE  \E i \in 1 .. Len(array) - 1 : new[i] = array[j]
    BY <1>2 DEF Items
  <2>1. j - 1 \in 1 .. Len(array) - 1 /\ new[j - 1] = array[j]
    BY <1>1
  <2> QED
    BY <2>1
<1>5. Once(new)
  BY <1>1, <1>2 DEF Once
<1>6. array[1] \in S /\ array[1] \in Items(array)
  BY <1>1 DEF Items
<1> QED
  BY <1>1, <1>3, <1>4, <1>5, <1>6 DEF new

\* The new pool.
LEMMA InitIInv == Init => IInv
<1> SUFFICES ASSUME Init PROVE IInv
  OBVIOUS
<1> USE SqliteAssumption DEF Init
<1>1. TypeOK
  BY DEF TypeOK, Phase
<1>2. HoldsOpen /\ OthersHeldOnce /\ KeepsItsOwn /\ TransactionIntact
  BY DEF HoldsOpen, OthersHeldOnce, KeepsItsOwn, TransactionIntact
<1>3. FirstIsOpen /\ HoldsIffPast /\ BusyIsLive /\ HasItsTransactions
  BY DEF FirstIsOpen, HoldsIffPast, BusyIsLive, HasItsTransactions
<1>5. OnlyTransactionsFail /\ EndingHasOne
  BY DEF OnlyTransactionsFail, EndingHasOne
<1>4. QueuedWait
  BY DEF QueuedWait, Items, Once
<1> QED
  BY <1>1, <1>2, <1>3, <1>4, <1>5 DEF IInv, Exclusive

\* q gets c: the released first connection, a new one, or the one it was given.
LEMMA GotKeeps ==
    ASSUME IInv, NEW q \in Query, NEW c \in Conn,
           phase[q] \in {"idle", "given"},
           conn[q] \in {None, c},
           TxOf[q] # None => txState[TxOf[q]] = "live" /\ txConn[TxOf[q]] = None,
           c # first => /\ \A r \in Query : conn[r] = c => r = q
                        /\ \A t \in Tx : txState[t] # "ended" => txConn[t] # c,
           open' \in {open, open \cup {c}}, c \in open', open' \subseteq Conn,
           Got(q, c, TxOf[q]),
           UNCHANGED queue
    PROVE  IInv'
<1> USE SqliteAssumption DEF IInv, Exclusive
<1> DEFINE t == TxOf[q]
<1>0. t \in Tx \cup {None}
  OBVIOUS
<1>1. TypeOK'
  <2> USE DEF TypeOK, Got, Phase
  <2>1. active' \in Int /\ first' \in Conn \cup {None} /\ released' \in [Conn -> BOOLEAN]
    OBVIOUS
  <2>2. conn' \in [Query -> Conn \cup {None}] /\ phase' \in [Query -> Phase]
    OBVIOUS
  <2>3. /\ txConn' \in [Tx -> Conn \cup {None}]
        /\ owner' \in [Conn -> Tx \cup {None}]
        /\ begun' \in [Conn -> Tx \cup {None}]
    <3>1. CASE t = None
      BY <3>1
    <3>2. CASE t \in Tx
      <4> DEFINE b == IF begun[c] = None THEN t ELSE begun[c]
      <4>1. b \in Tx \cup {None}
        BY <3>2
      <4>2. /\ txConn' = [txConn EXCEPT ![t] = c]
            /\ owner' = [owner EXCEPT ![c] = t]
            /\ begun' = [begun EXCEPT ![c] = b]
        BY <3>2
      <4> HIDE DEF b, t
      <4> QED
        BY <3>2, <4>1, <4>2
    <3> QED
      BY <1>0, <3>1, <3>2
  <2> QED
    BY <2>1, <2>2, <2>3
<1>2. /\ conn' = [conn EXCEPT ![q] = c] /\ first' = IF first = None THEN c ELSE first
      /\ UNCHANGED <<txState, queue>> /\ c # None
  BY DEF Got
<1>3. /\ phase'[q] \in {"failed", "using"}
      /\ \A r \in Query : r # q => phase'[r] = phase[r] /\ conn'[r] = conn[r]
      /\ conn'[q] = c
  BY DEF Got, TypeOK
<1>4. /\ \A u \in Tx : u # t => txConn'[u] = txConn[u]
      /\ \A d \in Conn : d # c => owner'[d] = owner[d] /\ begun'[d] = begun[d]
      /\ t # None => /\ txConn'[t] = c /\ owner'[c] = t
                     /\ begun'[c] = (IF begun[c] = None THEN t ELSE begun[c])
                     /\ phase'[q] = (IF begun[c] = None THEN "using" ELSE "failed")
      /\ t = None => UNCHANGED <<owner, txConn, begun>>
  BY <1>0 DEF Got, TypeOK
<1>5. HoldsOpen' /\ OthersHeldOnce' /\ HoldsIffPast'
  BY <1>2, <1>3 DEF HoldsOpen, OthersHeldOnce, HoldsIffPast, FirstIsOpen, TypeOK
<1>6. FirstIsOpen'
  BY <1>2 DEF FirstIsOpen
<1>7. KeepsItsOwn'
  <2> SUFFICES ASSUME NEW u \in Tx, txConn'[u] \notin {None, first'}, txState[u] # "ended"
               PROVE  /\ txConn'[u] \in open'
                      /\ owner'[txConn'[u]] = u
                      /\ \A r \in Query : conn'[r] = txConn'[u] => TxOf[r] = u
    BY <1>2 DEF KeepsItsOwn
  <2>1. CASE u = t
    <3>1. txConn'[u] = c /\ owner'[c] = u /\ c # first
      BY <2>1, <1>2, <1>4
    <3> QED
      BY <3>1, <2>1, <1>3
  <2>2. CASE u # t
    <3>1. txConn'[u] = txConn[u] /\ txConn[u] # None /\ txConn[u] # first
      BY <2>2, <1>2, <1>4 DEF FirstIsOpen, KeepsItsOwn
    <3>2. txConn[u] # c /\ txConn[u] \in Conn
      BY <3>1, <1>2 DEF TypeOK
    <3> QED
      BY <3>1, <3>2, <1>2, <1>3, <1>4 DEF KeepsItsOwn
  <2> QED
    BY <2>1, <2>2
<1>8. TransactionIntact'
  <2> SUFFICES ASSUME NEW u \in Tx, txState[u] = "live", txConn'[u] # None
               PROVE  \/ begun'[txConn'[u]] = u
                      \/ \E r \in Query : TxOf[r] = u /\ phase'[r] = "failed"
    BY <1>2 DEF TransactionIntact
  <2>1. CASE u = t
    BY <2>1, <1>4 DEF TypeOK
  <2>2. CASE u # t
    <3>1. txConn'[u] = txConn[u] /\ txConn[u] \in Conn
      BY <2>2, <1>4 DEF TypeOK
    <3>2. begun[txConn[u]] = u => begun'[txConn[u]] = u
      BY <3>1, <1>0, <1>4
    <3>3. (\E r \in Query : TxOf[r] = u /\ phase[r] = "failed") =>
              \E r \in Query : TxOf[r] = u /\ phase'[r] = "failed"
      BY <1>3, <2>2
    <3> QED
      BY <3>1, <3>2, <3>3 DEF TransactionIntact
  <2> QED
    BY <2>1, <2>2
<1>9. QueuedWait'
  BY <1>2, <1>3 DEF QueuedWait, Items, TypeOK
<1>10. BusyIsLive'
  BY <1>2, <1>3 DEF BusyIsLive
<1>11. HasItsTransactions'
  BY <1>2, <1>3, <1>4 DEF HasItsTransactions, TypeOK
<1>12. OnlyTransactionsFail' /\ EndingHasOne'
  BY <1>2, <1>3, <1>4 DEF OnlyTransactionsFail, EndingHasOne, Got, TypeOK
<1> QED
  BY <1>1, <1>5, <1>6, <1>7, <1>8, <1>9, <1>10, <1>11, <1>12

\* release() of c, that q lets go of, or a transaction without a query (q = None). The
\* transaction of a query whose BEGIN failed has ended.
LEMMA ReleaseKeeps ==
    ASSUME IInv, NEW c \in Conn, c \in open, NEW q \in Query \cup {None},
           q # None => phase[q] \in {"using", "failed"} /\ conn[q] = c,
           \A t \in Tx : \/ txState'[t] = txState[t]
                         \/ txState'[t] = "ended" /\ \A r \in Query : TxOf[r] = t /\ r # q => phase[r] = "idle",
           q # None /\ phase[q] = "failed" => TxOf[q] \in Tx /\ txState'[TxOf[q]] = "ended",
           c # first => \A r \in Query : conn[r] = c => r = q,
           txState' \in [Tx -> {"live", "ending", "ended"}],
           Release(c, q),
           UNCHANGED <<owner, txConn>>
    PROVE  IInv'
<1> USE SqliteAssumption DEF IInv, Exclusive
<1>1. UNCHANGED <<maxConnections, first, owner, txConn>>
  BY DEF Release
<1>2. CASE Kept(c) /\ UNCHANGED <<active, released, queue, open, begun>>
           /\ phase' = [r \in Query |-> IF r = q THEN "idle" ELSE phase[r]]
           /\ conn' = [r \in Query |-> IF r = q THEN None ELSE conn[r]]
  <2> USE <1>1, <1>2
  <2>1. TypeOK'
    BY DEF TypeOK, Phase
  <2>2. HoldsOpen' /\ OthersHeldOnce' /\ KeepsItsOwn' /\ FirstIsOpen'
    BY DEF HoldsOpen, OthersHeldOnce, KeepsItsOwn, FirstIsOpen
  <2>3. TransactionIntact'
    BY DEF TransactionIntact
  <2>4. HoldsIffPast' /\ BusyIsLive' /\ HasItsTransactions' /\ OnlyTransactionsFail' /\ EndingHasOne'
    BY DEF HoldsIffPast, BusyIsLive, HasItsTransactions, OnlyTransactionsFail, EndingHasOne
  <2>5. QueuedWait'
    BY DEF QueuedWait, Items, TypeOK
  <2> QED
    BY <2>1, <2>2, <2>3, <2>4, <2>5
<1>3. ASSUME ~Kept(c)
      PROVE  \A t \in Tx : txState'[t] # "ended" /\ txConn[t] # first => txConn[t] # c
  BY <1>3 DEF KeepsItsOwn, Kept
<1>4. CASE ~Kept(c) /\ active' = active - 1 /\ released' = [released EXCEPT ![c] = TRUE]
           /\ queue # <<>> /\ queue' = Tail(queue)
           /\ phase' = [r \in Query |-> IF r = q THEN "idle"
                                        ELSE IF r = Head(queue) THEN "given" ELSE phase[r]]
           /\ conn' = [r \in Query |-> IF r = q THEN None
                                       ELSE IF r = Head(queue) THEN c ELSE conn[r]]
           /\ UNCHANGED <<open, begun>>
  <2> DEFINE h == Head(queue)
  <2>1. /\ h \in Query /\ phase[h] = "waiting" /\ h # q
        /\ Tail(queue) \in Seq(Query) /\ Once(Tail(queue))
        /\ Items(Tail(queue)) = Items(queue) \ {h}
    BY <1>4, ShiftItem DEF TypeOK, QueuedWait
  <2>2. /\ conn[h] = None /\ phase'[h] = "given" /\ conn'[h] = c
        /\ \A r \in Query : r \notin {q, h} => phase'[r] = phase[r] /\ conn'[r] = conn[r]
        /\ q # None => phase'[q] = "idle" /\ conn'[q] = None
    BY <1>4, <2>1 DEF HoldsIffPast, TypeOK
  <2>3. /\ TxOf[h] # None => /\ txState'[TxOf[h]] = "live" /\ txConn[TxOf[h]] = None
    BY <2>1 DEF BusyIsLive, HasItsTransactions
  <2>4. TypeOK'
    BY <1>1, <1>4, <2>1 DEF TypeOK, Phase
  <2>5. HoldsOpen' /\ FirstIsOpen' /\ HoldsIffPast'
    BY <1>1, <1>4, <2>1, <2>2 DEF HoldsOpen, FirstIsOpen, HoldsIffPast
  <2>6. OthersHeldOnce'
    BY SMTT(30), <1>1, <2>1, <2>2 DEF OthersHeldOnce, TypeOK
  <2>7. KeepsItsOwn'
    BY <1>1, <1>3, <1>4, <2>1, <2>2 DEF KeepsItsOwn, TypeOK
  <2>8. TransactionIntact'
    <3> SUFFICES ASSUME NEW t \in Tx, txState'[t] = "live", txConn[t] # None
                 PROVE  \/ begun[txConn[t]] = t
                        \/ \E r \in Query : TxOf[r] = t /\ phase'[r] = "failed"
      BY <1>1, <1>4 DEF TransactionIntact
    <3>1. txState[t] = "live"
      OBVIOUS
    <3>2. ASSUME NEW r \in Query, TxOf[r] = t, phase[r] = "failed"
          PROVE  phase'[r] = "failed"
      BY <3>2, <2>1, <2>2
    <3> QED
      BY <3>1, <3>2 DEF TransactionIntact
  <2>9. QueuedWait'
    <3>1. Items(queue) \subseteq Query /\ q \notin Items(queue)
      BY DEF QueuedWait, Items, TypeOK
    <3> QED
      BY <1>4, <2>1, <2>2, <3>1 DEF QueuedWait
  <2>10. BusyIsLive' /\ HasItsTransactions' /\ OnlyTransactionsFail' /\ EndingHasOne'
    BY <1>1, <2>1, <2>2, <2>3 DEF BusyIsLive, HasItsTransactions, OnlyTransactionsFail, EndingHasOne
  <2> QED
    BY <2>4, <2>5, <2>6, <2>7, <2>8, <2>9, <2>10
<1>5. CASE ~Kept(c) /\ active' = active - 1 /\ released' = [released EXCEPT ![c] = TRUE]
           /\ phase' = [r \in Query |-> IF r = q THEN "idle" ELSE phase[r]]
           /\ conn' = [r \in Query |-> IF r = q THEN None ELSE conn[r]]
           /\ open' = (IF Closes(c) THEN open \ {c} ELSE open)
           /\ begun' = [begun EXCEPT ![c] = IF Closes(c) THEN None ELSE begun[c]]
           /\ UNCHANGED queue
  <2> USE DEF Closes
  <2>1. TypeOK'
    BY <1>1, <1>5 DEF TypeOK, Phase
  <2>2. HoldsOpen' /\ FirstIsOpen' /\ HoldsIffPast' /\ OthersHeldOnce'
    BY <1>1, <1>5 DEF HoldsOpen, FirstIsOpen, HoldsIffPast, OthersHeldOnce
  <2>3. KeepsItsOwn'
    BY <1>1, <1>3, <1>5 DEF KeepsItsOwn
  <2>4. TransactionIntact'
    <3> SUFFICES ASSUME NEW t \in Tx, txState'[t] = "live", txConn[t] # None
                 PROVE  \/ begun'[txConn[t]] = t
                        \/ \E r \in Query : TxOf[r] = t /\ phase'[r] = "failed"
      BY <1>1 DEF TransactionIntact
    <3>1. txConn[t] \in Conn /\ (Closes(c) => txConn[t] # c)
      BY <1>3, <1>5 DEF TypeOK
    <3>2. begun'[txConn[t]] = begun[txConn[t]]
      BY <3>1, <1>5 DEF TypeOK
    <3> QED
      BY <3>2, <1>5 DEF TransactionIntact
  <2>5. QueuedWait'
    BY <1>5 DEF QueuedWait, Items, TypeOK
  <2>6. BusyIsLive' /\ HasItsTransactions' /\ OnlyTransactionsFail' /\ EndingHasOne'
    BY <1>1, <1>5 DEF BusyIsLive, HasItsTransactions, OnlyTransactionsFail, EndingHasOne
  <2> QED
    BY <2>1, <2>2, <2>3, <2>4, <2>5, <2>6
<1> QED
  BY <1>2, <1>4, <1>5 DEF Release

\* Every step of the pool.
LEMMA NextIInv == IInv /\ [Next]_vars => IInv'
<1> SUFFICES ASSUME IInv, [Next]_vars PROVE IInv'
  OBVIOUS
<1> USE SqliteAssumption DEF IInv, Exclusive
<1>1. ASSUME NEW q \in Query, AskSticky(q) PROVE IInv'
  <2> DEFINE t == TxOf[q]
             c == txConn[t]
  <2>1. /\ phase[q] = "idle" /\ t \in Tx /\ txState[t] = "live" /\ c \in Conn
        /\ conn' = [conn EXCEPT ![q] = c] /\ phase' = [phase EXCEPT ![q] = "using"]
        /\ UNCHANGED <<maxConnections, active, first, open, released, owner, begun, txConn,
                       txState, queue>>
    BY <1>1 DEF AskSticky, Starts, HasConnection, TypeOK
  <2>2. c \in open
    BY <2>1 DEF KeepsItsOwn, FirstIsOpen
  <2>3. TypeOK'
    BY <2>1 DEF TypeOK, Phase
  <2>4. HoldsOpen' /\ FirstIsOpen' /\ HoldsIffPast'
    BY <2>1, <2>2 DEF HoldsOpen, FirstIsOpen, HoldsIffPast, TypeOK
  <2>5. KeepsItsOwn'
    BY <2>1 DEF KeepsItsOwn, TypeOK
  <2>9. c # first => \A r \in Query : conn[r] = c => r = q
    BY <2>1 DEF KeepsItsOwn
  <2>10. OthersHeldOnce'
    BY <2>1, <2>9 DEF OthersHeldOnce, TypeOK
  <2>6. TransactionIntact'
    BY <2>1 DEF TransactionIntact, TypeOK
  <2>7. QueuedWait'
    BY <2>1 DEF QueuedWait, Items, TypeOK
  <2>8. BusyIsLive' /\ HasItsTransactions' /\ OnlyTransactionsFail' /\ EndingHasOne'
    BY <2>1 DEF BusyIsLive, HasItsTransactions, OnlyTransactionsFail, EndingHasOne, TypeOK
  <2> QED
    BY <2>3, <2>4, <2>5, <2>6, <2>7, <2>8, <2>10
<1>2. ASSUME NEW q \in Query, AskFirst(q) PROVE IInv'
  <2>1. /\ phase[q] = "idle" /\ conn[q] = None /\ first \in Conn /\ first \in open
        /\ TxOf[q] # None => txState[TxOf[q]] = "live" /\ txConn[TxOf[q]] = None
        /\ Got(q, first, TxOf[q]) /\ open' = open /\ UNCHANGED queue
    BY <1>2 DEF AskFirst, Starts, HasConnection, FirstReleased, TypeOK, FirstIsOpen, HoldsIffPast
  <2> QED
    BY <2>1, GotKeeps DEF TypeOK
<1>3. ASSUME NEW q \in Query, AskWait(q) PROVE IInv'
  <2>1. /\ phase[q] = "idle" /\ conn[q] = None
        /\ TxOf[q] # None => txState[TxOf[q]] = "live" /\ txConn[TxOf[q]] = None
        /\ queue' = Append(queue, q) /\ phase' = [phase EXCEPT ![q] = "waiting"]
        /\ UNCHANGED <<maxConnections, active, first, open, released, owner, begun, txConn,
                       txState, conn>>
    BY <1>3 DEF AskWait, Starts, HasConnection, HoldsIffPast, Queued
  <2>2. queue \in Seq(Query) /\ Once(queue) /\ q \notin Items(queue)
    BY <2>1 DEF TypeOK, QueuedWait
  <2>3. /\ queue' \in Seq(Query) /\ Once(queue')
        /\ Items(queue') = Items(queue) \cup {q}
    BY <2>1, <2>2, PushItem
  <2>4. TypeOK'
    BY <2>1, <2>3 DEF TypeOK, Phase
  <2>5. HoldsOpen' /\ FirstIsOpen' /\ HoldsIffPast' /\ OthersHeldOnce' /\ KeepsItsOwn'
    BY <2>1 DEF HoldsOpen, FirstIsOpen, HoldsIffPast, OthersHeldOnce, KeepsItsOwn, TypeOK
  <2>6. TransactionIntact' /\ BusyIsLive' /\ HasItsTransactions' /\ OnlyTransactionsFail' /\ EndingHasOne'
    BY <2>1 DEF TransactionIntact, BusyIsLive, HasItsTransactions, OnlyTransactionsFail, EndingHasOne, TypeOK
  <2>7. QueuedWait'
    <3>1. Items(queue) \subseteq Query
      BY DEF Items, TypeOK
    <3> QED
      BY <2>1, <2>3, <3>1 DEF QueuedWait, TypeOK
  <2> QED
    BY <2>4, <2>5, <2>6, <2>7
<1>4. ASSUME NEW q \in Query, AskCreate(q) PROVE IInv'
  <2> DEFINE c == CHOOSE c \in Unused : TRUE
  <2>1. c \in Unused /\ open' = open \cup {c} /\ Got(q, c, TxOf[q]) /\ UNCHANGED queue
    BY <1>4 DEF AskCreate
  <2>2. c \in Conn /\ (\A r \in Query : conn[r] # c) /\ (\A t \in Tx : txConn[t] # c)
    BY <2>1 DEF Unused
  <2>3. /\ phase[q] = "idle" /\ conn[q] = None
        /\ TxOf[q] # None => txState[TxOf[q]] = "live" /\ txConn[TxOf[q]] = None
    BY <1>4 DEF AskCreate, Starts, HasConnection, HoldsIffPast
  <2> HIDE DEF c
  <2>4. open' \subseteq Conn /\ c \in open'
    BY <2>1, <2>2 DEF TypeOK
  <2> QED
    BY <2>1, <2>2, <2>3, <2>4, GotKeeps
<1>5. ASSUME NEW q \in Query, Resume(q) PROVE IInv'
  <2> DEFINE c == conn[q]
  <2>1. /\ phase[q] = "given" /\ c \in Conn /\ c \in open
        /\ Got(q, c, TxOf[q]) /\ open' = open /\ UNCHANGED queue
    BY <1>5 DEF Resume, HoldsIffPast, HoldsOpen, TypeOK
  <2>2. TxOf[q] # None => txState[TxOf[q]] = "live" /\ txConn[TxOf[q]] = None
    BY <2>1 DEF BusyIsLive, HasItsTransactions
  <2>3. c # first => \A r \in Query : conn[r] = c => r = q
    BY <2>1 DEF OthersHeldOnce
  <2>4. c # first => \A t \in Tx : txState[t] # "ended" => txConn[t] # c
    BY <2>1, <2>2 DEF KeepsItsOwn
  <2> QED
    BY <2>1, <2>2, <2>3, <2>4, GotKeeps DEF TypeOK
<1>6. ASSUME NEW q \in Query, Finish(q) PROVE IInv'
  <2>0. PICK c \in Conn : c = conn[q]
    BY <1>6 DEF Finish, HoldsIffPast, TypeOK
  <2>1. /\ phase[q] = "using" /\ c \in open /\ txState' = txState
        /\ Release(c, q) /\ UNCHANGED <<owner, txConn>>
    BY <1>6, <2>0 DEF Finish, HoldsOpen
  <2>2. c # first => \A r \in Query : conn[r] = c => r = q
    BY <2>0 DEF OthersHeldOnce
  <2>3. txState' \in [Tx -> {"live", "ending", "ended"}] /\ \A t \in Tx : txState'[t] = txState[t]
    BY <2>1 DEF TypeOK
  <2>4. q # None /\ phase[q] # "failed" /\ conn[q] = c
    BY <2>0, <2>1
  <2> HIDE DEF IInv, Exclusive
  <2> QED
    BY <2>1, <2>2, <2>3, <2>4, ReleaseKeeps
<1>7. ASSUME NEW q \in Query, BeginFails(q) PROVE IInv'
  <2> DEFINE t == TxOf[q]
  <2>0. PICK c \in Conn : c = conn[q]
    BY <1>7 DEF BeginFails, HoldsIffPast, TypeOK
  <2>1. /\ phase[q] = "failed" /\ c \in open
        /\ txState' = [txState EXCEPT ![t] = "ended"]
        /\ Release(c, q) /\ UNCHANGED <<owner, txConn>>
    BY <1>7, <2>0 DEF BeginFails, HoldsOpen
  <2>2. c # first => \A r \in Query : conn[r] = c => r = q
    BY <2>0 DEF OthersHeldOnce
  <2>3. t \in Tx
    BY <2>1 DEF OnlyTransactionsFail
  <2>4. /\ txState' \in [Tx -> {"live", "ending", "ended"}] /\ txState'[t] = "ended"
        /\ \A u \in Tx : u # t => txState'[u] = txState[u]
    BY <2>1, <2>3 DEF TypeOK
  <2>5. \A r \in Query : TxOf[r] = t => r = q
    BY <2>3
  <2>6. \A u \in Tx : \/ txState'[u] = txState[u]
                      \/ /\ txState'[u] = "ended"
                         /\ \A r \in Query : TxOf[r] = u /\ r # q => phase[r] = "idle"
    BY <2>4, <2>5
  <2>7. q # None /\ conn[q] = c
    BY <2>0
  <2> HIDE DEF IInv, Exclusive
  <2> QED
    BY <2>1, <2>2, <2>3, <2>4, <2>6, <2>7, ReleaseKeeps
<1>8. ASSUME NEW t \in Tx, End(t) PROVE IInv'
  <2> USE <1>8 DEF End
  <2>1. TypeOK'
    BY DEF TypeOK
  <2>2. HoldsOpen' /\ FirstIsOpen' /\ HoldsIffPast' /\ OthersHeldOnce' /\ KeepsItsOwn'
    BY DEF HoldsOpen, FirstIsOpen, HoldsIffPast, OthersHeldOnce, KeepsItsOwn, TypeOK
  <2>3. TransactionIntact'
    <3>1. txConn[t] \in Conn /\ begun[txConn[t]] = t
      BY DEF TransactionIntact, AtRest, TypeOK
    <3> QED
      BY <3>1 DEF TransactionIntact, TypeOK
  <2>4. BusyIsLive' /\ HasItsTransactions' /\ OnlyTransactionsFail' /\ EndingHasOne'
    BY DEF BusyIsLive, HasItsTransactions, OnlyTransactionsFail, EndingHasOne, AtRest, TypeOK
  <2>5. QueuedWait'
    BY DEF QueuedWait, Items, TypeOK
  <2> QED
    BY <2>1, <2>2, <2>3, <2>4, <2>5
<1>9. ASSUME NEW t \in Tx, Ended(t) PROVE IInv'
  <2>0. PICK c \in Conn : c = txConn[t]
    BY <1>9 DEF Ended, EndingHasOne, TypeOK
  <2>1. /\ txState[t] = "ending" /\ txState' = [txState EXCEPT ![t] = "ended"]
        /\ Release(c, None) /\ UNCHANGED <<owner, txConn>>
    BY <1>9, <2>0 DEF Ended
  <2>2. \A r \in Query : TxOf[r] = t => phase[r] = "idle"
    BY <2>1 DEF BusyIsLive
  <2>3. c \in open
    BY <2>0, <2>1 DEF KeepsItsOwn, FirstIsOpen
  <2>4. c # first => \A r \in Query : conn[r] # c
    BY <2>0, <2>1, <2>2 DEF KeepsItsOwn, HoldsIffPast
  <2>5. /\ txState' \in [Tx -> {"live", "ending", "ended"}] /\ txState'[t] = "ended"
        /\ \A u \in Tx : u # t => txState'[u] = txState[u]
    BY <2>1 DEF TypeOK
  <2>6. None \notin Query
    OBVIOUS
  <2>7. \A u \in Tx : \/ txState'[u] = txState[u]
                      \/ /\ txState'[u] = "ended"
                         /\ \A r \in Query : TxOf[r] = u /\ r # None => phase[r] = "idle"
    BY <2>2, <2>5
  <2> HIDE DEF IInv, Exclusive
  <2> QED
    BY <2>1, <2>3, <2>4, <2>5, <2>6, <2>7, ReleaseKeeps
<1>10. ASSUME NEW t \in Tx, NewTransaction(t) PROVE IInv'
  <2> USE <1>10 DEF NewTransaction
  <2>1. TypeOK'
    BY DEF TypeOK
  <2>2. HoldsOpen' /\ FirstIsOpen' /\ HoldsIffPast' /\ OthersHeldOnce'
    BY DEF HoldsOpen, FirstIsOpen, HoldsIffPast, OthersHeldOnce, TypeOK
  <2>3. KeepsItsOwn'
    BY DEF KeepsItsOwn, TypeOK
  <2>4. TransactionIntact'
    BY DEF TransactionIntact, TypeOK
  <2>5. BusyIsLive' /\ HasItsTransactions' /\ OnlyTransactionsFail' /\ EndingHasOne'
    BY DEF BusyIsLive, HasItsTransactions, OnlyTransactionsFail, EndingHasOne, AtRest, TypeOK
  <2>6. QueuedWait'
    BY DEF QueuedWait, Items, TypeOK
  <2> QED
    BY <2>1, <2>2, <2>3, <2>4, <2>5, <2>6
<1>11. CASE UNCHANGED vars
  <2> USE <1>11 DEF vars
  <2>1. TypeOK' /\ HoldsOpen' /\ OthersHeldOnce' /\ KeepsItsOwn'
    BY DEF TypeOK, HoldsOpen, OthersHeldOnce, KeepsItsOwn
  <2>2. TransactionIntact' /\ FirstIsOpen' /\ HoldsIffPast'
    BY DEF TransactionIntact, FirstIsOpen, HoldsIffPast
  <2>3. QueuedWait' /\ BusyIsLive' /\ HasItsTransactions' /\ OnlyTransactionsFail' /\ EndingHasOne'
    BY DEF QueuedWait, Items, BusyIsLive, HasItsTransactions, OnlyTransactionsFail, EndingHasOne
  <2> QED
    BY <2>1, <2>2, <2>3
<1> QED
  BY <1>1, <1>2, <1>3, <1>4, <1>5, <1>6, <1>7, <1>8, <1>9, <1>10, <1>11 DEF Next

\* The inductive invariant holds in every reachable state of the pool.
THEOREM Invariance == Spec => []IInv
BY InitIInv, NextIInv, PTL DEF Spec

\* Every connection but the first is exclusive and open while it is held, for any
\* number of queries, transactions and connections and any maxConnections.
THEOREM OthersExclusive == Spec => []Exclusive
<1>1. IInv => Exclusive
  BY DEF IInv
<1> QED
  BY <1>1, Invariance, PTL

\* A transaction stays open until its own COMMIT or ROLLBACK, although others may
\* get its connection, overwrite connection.transaction and fail to begin on it.
THEOREM TransactionsKept == Spec => []TransactionIntact
<1>1. IInv => TransactionIntact
  BY DEF IInv
<1> QED
  BY <1>1, Invariance, PTL

=============================================================================
