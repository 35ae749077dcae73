----------------------------- MODULE BrokerQueue -----------------------------
(***************************************************************************)
(* One queue of packages/broker: BrokerState.queueSubscribe,               *)
(* queueUnsubscribe, queuePublish and queueMessageHandled (kernel.ts), the *)
(* deduplication of utils.ts and BrokerDeepkitAdapter.consume() and its    *)
(* message callback (deepkit-adapter.ts).                                  *)
(*                                                                         *)
(* A client is one BrokerDeepkitConnection object: it keeps its consumers  *)
(* map over a reconnect, but to the broker every connection is a new       *)
(* BrokerConnection. A connection breaks for both ends at once: the broker *)
(* does nothing for queues when it closes. A transport may hand over       *)
(* several messages of one buffer in a row, before any promise reaction of *)
(* the first one runs (BSONStreamReader.feed): Receive takes such a buffer *)
(* as one step.                                                            *)
(*                                                                         *)
(* queuePublish() is modelled where the broker handles it. Left out: its   *)
(* early return for a delay beyond Date.now(), which produce() cannot      *)
(* cause as it sends the delay relative to now, and its errors for a       *)
(* missing interval or hash.                                               *)
(***************************************************************************)
EXTENDS Naturals, Sequences, FiniteSets

CONSTANTS
    Message,      \* what is produced, each once
    HashOf,       \* its hash, or Nothing when it is to be processed at least once
    Client, Sub,  \* clients, and their calls of consume()
    ClientOf,     \* the client that makes the call
    Connection, ConnectionsOf,  \* the connections a client may open, one after the other
    OneAtATime,   \* does a client release a consumer before it consumes again?
    Batched,      \* does the transport hand over several messages in a row?
    Nothing

ASSUME BrokerQueueAssumption ==
    /\ ClientOf \in [Sub -> Client]
    /\ ConnectionsOf \in [Client -> SUBSET Connection]
    /\ \A p, q \in Client : p # q => ConnectionsOf[p] \cap ConnectionsOf[q] = {}
    /\ OneAtATime \in BOOLEAN /\ Batched \in BOOLEAN
    /\ Nothing \notin Message \cup Sub \cup Connection

VARIABLES
    consumers,  \* queue.consumers
    hashes,     \* queue.deduplicateMessageHashes, each with its timer armed
    state,      \* QueueMessage.state; "new" before, "refused" if a duplicate
    tries,      \* QueueMessage.tries
    up,         \* "new", "up" or "down": a connection
    toBroker, toClient,  \* messages under way on it
    sub,        \* how far a consume() has come
    callback,   \* the consumers map of a client: whose callback is registered?
    running,    \* the calls of a callback that are running: <<message, which one for it>>
    processed,  \* how many calls of a callback a message had so far
    expired     \* messages whose deduplication interval is over

brokerVars == <<consumers, hashes, state, tries, expired>>
netVars == <<up, toBroker, toClient>>
clientVars == <<sub, callback, running, processed>>
queueVars == <<brokerVars, netVars, clientVars>>

SubState == {"new", "subscribing", "consuming", "unsubscribing", "over"}

Packet == [type : {"Subscribe", "Unsubscribe", "Ack"}, sub : Sub]
          \cup [type : {"Handle", "Error", "Success", "Neither"}, msg : Message]

In(seq) == { seq[i] : i \in DOMAIN seq }

QueueTypeOK ==
    /\ In(consumers) \subseteq [con : Connection, handling : SUBSET Message]
    /\ hashes \subseteq { HashOf[m] : m \in Message } \ {Nothing}
    /\ state \in [Message -> {"new", "refused", "pending", "inFlight", "done", "error"}]
    /\ tries \in [Message -> Nat]
    /\ up \in [Connection -> {"new", "up", "down"}]
    /\ \A c \in Connection : In(toBroker[c]) \cup In(toClient[c]) \subseteq Packet
    /\ sub \in [Sub -> SubState]
    /\ callback \in [Client -> Sub \cup {Nothing}]
    /\ running \in [Client -> SUBSET (Message \X (Nat \ {0}))]
    /\ processed \in [Message -> Nat]
    /\ expired \subseteq Message

QueueInit ==
    /\ consumers = <<>>
    /\ hashes = {}
    /\ state = [m \in Message |-> "new"]
    /\ tries = [m \in Message |-> 0]
    /\ up = [c \in Connection |-> "new"]
    /\ toBroker = [c \in Connection |-> <<>>]
    /\ toClient = [c \in Connection |-> <<>>]
    /\ sub = [k \in Sub |-> "new"]
    /\ callback = [p \in Client |-> Nothing]
    /\ running = [p \in Client |-> {}]
    /\ processed = [m \in Message |-> 0]
    /\ expired = {}

-----------------------------------------------------------------------------
(* The connections.                                                        *)

Open(p, c) ==
    /\ c \in ConnectionsOf[p] /\ up[c] = "new"
    /\ \A d \in ConnectionsOf[p] : up[d] # "up"
    /\ up' = [up EXCEPT ![c] = "up"]
    /\ UNCHANGED <<brokerVars, toBroker, toClient, clientVars>>

\* The connection is lost, and with it what was under way. Calls that wait for an
\* answer are rejected; the broker keeps the consumer.
Break(p, c) ==
    /\ c \in ConnectionsOf[p] /\ up[c] = "up"
    /\ \E d \in ConnectionsOf[p] : up[d] = "new"  \* bound: the last one stays
    /\ up' = [up EXCEPT ![c] = "down"]
    /\ toBroker' = [toBroker EXCEPT ![c] = <<>>]
    /\ toClient' = [toClient EXCEPT ![c] = <<>>]
    /\ sub' = [k \in Sub |-> IF ClientOf[k] = p /\ sub[k] \in {"subscribing", "unsubscribing"}
                             THEN "over" ELSE sub[k]]
    /\ UNCHANGED <<brokerVars, callback, running, processed>>

\* A client sends over the connection it has.
Send(p, packet) ==
    \E c \in ConnectionsOf[p] :
        /\ up[c] = "up"
        /\ toBroker' = [toBroker EXCEPT ![c] = Append(@, packet)]

Respond(c, packet) == toClient' = [toClient EXCEPT ![c] = Append(@, packet)]

\* The next message the broker handles.
Next1(c) == Head(toBroker[c])
Take(c, types) ==
    /\ toBroker[c] # <<>> /\ Next1(c).type \in types
    /\ toBroker' = [toBroker EXCEPT ![c] = Tail(@)]

-----------------------------------------------------------------------------
(* The client.                                                             *)

Active(k) == sub[k] \in {"subscribing", "consuming", "unsubscribing"}

\* consume() subscribes and waits for the Ack.
consume(k) ==
    /\ sub[k] = "new"
    /\ OneAtATime => \A j \in Sub : ClientOf[j] = ClientOf[k] => ~Active(j)
    /\ sub' = [sub EXCEPT ![k] = "subscribing"]
    /\ Send(ClientOf[k], [type |-> "Subscribe", sub |-> k])
    /\ UNCHANGED <<brokerVars, up, toClient, callback, running, processed>>

\* The Release that consume() returned. The callback stays in the consumers map.
release(k) ==
    /\ sub[k] = "consuming"
    /\ sub' = [sub EXCEPT ![k] = "unsubscribing"]
    /\ Send(ClientOf[k], [type |-> "Unsubscribe", sub |-> k])
    /\ UNCHANGED <<brokerVars, up, toClient, callback, running, processed>>

\* The messages of a buffer are handed over one after the other; a message for a
\* client without callback is dropped. Then the promise reactions run: consume()
\* registers its callback, in place of any other.
Receive(p, c, n) ==
    LET way == toClient[c]
        Given(m) == { i \in 1 .. n : way[i].type = "Handle" /\ way[i].msg = m }
        acked == { way[i].sub : i \in { i \in 1 .. n : way[i].type = "Ack" } }
        ready == { k \in acked : sub[k] = "subscribing" }
    IN  /\ c \in ConnectionsOf[p]
        /\ n \in 1 .. Len(way) /\ (n = 1 \/ Batched)
        /\ toClient' = [toClient EXCEPT ![c] = SubSeq(@, n + 1, Len(@))]
        /\ IF callback[p] = Nothing
           THEN UNCHANGED <<running, processed>>
           ELSE /\ processed' = [m \in Message |-> processed[m] + Cardinality(Given(m))]
                /\ running' = [running EXCEPT ![p] = @ \cup
                     UNION { {m} \X (processed[m] + 1 .. processed'[m]) : m \in Message }]
        /\ sub' = [k \in Sub |-> CASE k \in ready -> "consuming"
                                   [] k \in acked \ ready -> "over"
                                   [] OTHER -> sub[k]]
        /\ \/ ready = {} /\ UNCHANGED callback
           \/ \E k \in ready : callback' = [callback EXCEPT ![p] = k]
        /\ UNCHANGED <<brokerVars, up, toBroker>>

\* A callback of the user returns or throws, and the broker is told. success is
\* sent only if the callback itself has set the state of the message to "done".
callbackDone(p, call, answer) ==
    /\ call \in running[p]
    /\ running' = [running EXCEPT ![p] = @ \ {call}]
    /\ Send(p, [type |-> answer, msg |-> call[1]])
    /\ UNCHANGED <<brokerVars, up, toClient, sub, callback, processed>>

-----------------------------------------------------------------------------
(* The broker. Definitions that say "Faulty" are variants for the mutation *)
(* runs.                                                                   *)

\* maxMessagesInParallel is 1, whatever the client asked for.
HasCapacity(i) == Cardinality(consumers[i].handling) < 1

\* handleMessageDeduplication: is the hash known? Faulty: never.
NeverKnown(m) == FALSE
Duplicate(m) == HashOf[m] \in hashes

\* m.tries++ for each consumer
Tried(m, n) == [tries EXCEPT ![m] = @ + n]

\* m.state = inFlight.                  Faulty: it counts as done when it is sent.
DoneWhenSent == "done"
StateWhenSent == "inFlight"

\* consumer.handling.delete(id).        Faulty: it is forgotten.
KeepSlot(i, m) == consumers
FreeSlot(i, m) == [consumers EXCEPT ![i].handling = @ \ {m}]

\* consumers.splice(index, 1)
Splice(i) == SubSeq(consumers, 1, i - 1) \o SubSeq(consumers, i + 1, Len(consumers))

\* findIndex(v => v.con === connection), or 0.
ConsumerOf(c) ==
    LET found == { i \in DOMAIN consumers : consumers[i].con = c }
    IN  IF found = {} THEN 0 ELSE CHOOSE i \in found : \A j \in found : i <= j

queueSubscribe(c) ==
    /\ Take(c, {"Subscribe"})
    /\ consumers' = Append(consumers, [con |-> c, handling |-> {}])
    /\ Respond(c, [type |-> "Ack", sub |-> Next1(c).sub])
    /\ UNCHANGED <<hashes, state, tries, expired, up, clientVars>>

queueUnsubscribe(c) ==
    /\ Take(c, {"Unsubscribe"})
    /\ consumers' = IF ConsumerOf(c) = 0 THEN consumers ELSE Splice(ConsumerOf(c))
    /\ Respond(c, [type |-> "Ack", sub |-> Next1(c).sub])
    /\ UNCHANGED <<hashes, state, tries, expired, up, clientVars>>

\* A known hash: the message is refused without a word.
queuePublishDuplicate(m) ==
    /\ state[m] = "new"
    /\ HashOf[m] # Nothing /\ Duplicate(m)
    /\ state' = [state EXCEPT ![m] = "refused"]
    /\ UNCHANGED <<consumers, hashes, tries, expired, netVars, clientVars>>

\* The message goes to every consumer with capacity, also of a closed connection,
\* and nowhere else: it is not stored.
queuePublish(m) ==
    LET chosen == { i \in DOMAIN consumers : HasCapacity(i) }
        For(c) == { i \in chosen : consumers[i].con = c }
        packet == [type |-> "Handle", msg |-> m]
    IN  /\ state[m] = "new"
        /\ HashOf[m] # Nothing => ~Duplicate(m)
        /\ hashes' = hashes \cup ({HashOf[m]} \ {Nothing})
        /\ consumers' = [ i \in DOMAIN consumers |->
             IF i \in chosen THEN [consumers[i] EXCEPT !.handling = @ \cup {m}]
                             ELSE consumers[i] ]
        /\ tries' = Tried(m, Cardinality(chosen))
        /\ state' = [state EXCEPT ![m] = IF chosen = {} THEN "pending" ELSE StateWhenSent]
        /\ toClient' = [ c \in Connection |->
             IF up[c] = "up"
             THEN toClient[c] \o [ i \in 1 .. Cardinality(For(c)) |-> packet ]
             ELSE toClient[c] ]
        /\ UNCHANGED <<expired, up, toBroker, clientVars>>

\* The answer counts for the first consumer of the connection, if that one has
\* the message; otherwise it is ignored.
queueMessageHandled(c) ==
    LET i == ConsumerOf(c)
        m == Next1(c).msg
    IN  /\ Take(c, {"Error", "Success", "Neither"})
        /\ IF i # 0 /\ m \in consumers[i].handling
           THEN /\ consumers' = FreeSlot(i, m)
                /\ state' = [state EXCEPT ![m] = CASE Next1(c).type = "Error" -> "error"
                                                   [] Next1(c).type = "Success" -> "done"
                                                   [] OTHER -> @]
           ELSE UNCHANGED <<consumers, state>>
        /\ UNCHANGED <<hashes, tries, expired, up, toClient, clientVars>>

\* The deduplication interval ends.
forgetHash(h) ==
    /\ h \in hashes
    /\ hashes' = hashes \ {h}
    /\ expired' = expired \cup { m \in Message : HashOf[m] = h /\ state[m] \notin {"new", "refused"} }
    /\ UNCHANGED <<consumers, state, tries, netVars, clientVars>>

Handler(c) == queueSubscribe(c) \/ queueUnsubscribe(c) \/ queueMessageHandled(c)

Deliver(p) == \E c \in Connection : \E n \in 1 .. Len(toClient[c]) : Receive(p, c, n)

Finish(p) ==
    \E call \in running[p], answer \in {"Error", "Success", "Neither"} :
        callbackDone(p, call, answer)

QueueNext ==
    \/ \E p \in Client : Deliver(p) \/ Finish(p)
    \/ \E p \in Client, c \in Connection : Open(p, c) \/ Break(p, c)
    \/ \E k \in Sub : consume(k) \/ release(k)
    \/ \E m \in Message : queuePublish(m) \/ queuePublishDuplicate(m)
    \/ \E c \in Connection : Handler(c)
    \/ \E h \in hashes : forgetHash(h)

QueueSpec == QueueInit /\ [][QueueNext]_queueVars

-----------------------------------------------------------------------------
\* Accepted by queuePublish().
Accepted(m) == state[m] \notin {"new", "refused"}

\* A client never runs more callbacks at a time than it has called consume(): the
\* limit of one message per consumer is kept from the broker's handling map
\* through the network to the client, over unsubscribing and reconnecting.
ParallelBounded ==
    \A p \in Client :
        Cardinality(running[p]) <= Cardinality({ k \in Sub : ClientOf[k] = p /\ sub[k] # "new" })

\* Of two accepted messages of one hash, one was accepted after the deduplication
\* interval of the other had ended.
Deduplicated ==
    \A m, n \in Message :
        m # n /\ HashOf[m] = HashOf[n] /\ HashOf[m] # Nothing /\ Accepted(m) /\ Accepted(n)
        => m \in expired \/ n \in expired

\* What the broker keeps of a message agrees with what became of it: no message is
\* given to more callbacks than tries are counted, and it is done or failed only
\* after a callback has had it.
SettledWasProcessed ==
    \A m \in Message :
        /\ processed[m] <= tries[m]
        /\ state[m] \in {"done", "error"} => processed[m] > 0

\* A slot of a consumer is taken only while its message is on the way to the
\* client, in its callback, or the answer on the way back: no slot is leaked, so
\* no consumer goes deaf. This needs an open connection, one consumer at a time
\* and messages handed over one by one.
SlotsAccounted ==
    /\ QueueTypeOK /\ ParallelBounded
    /\ OneAtATime /\ ~Batched =>
         \A i \in DOMAIN consumers : \A m \in consumers[i].handling :
             LET c == consumers[i].con
             IN  up[c] = "up" =>
                   \/ \E p \in Client : c \in ConnectionsOf[p] /\ (\E j \in 1 .. processed[m] : <<m, j>> \in running[p])
                   \/ \E packet \in In(toClient[c]) \cup In(toBroker[c]) :
                        "msg" \in DOMAIN packet /\ packet.msg = m

=============================================================================
