------------------------------ MODULE BrokerBus ------------------------------
(***************************************************************************)
(* One channel of the bus of packages/broker: BrokerDeepkitAdapter         *)
(* .subscribe(), which shares one subscription among the listeners of a    *)
(* connection (deepkit-adapter.ts), and the Subscribe, Unsubscribe and     *)
(* Publish handlers and close() of the broker (kernel.ts).                 *)
(*                                                                         *)
(* Messages are numbered in the order the broker publishes them. A         *)
(* connection that breaks is replaced at once (sendMessage() connects when *)
(* it has to) and both ends notice together; the client keeps its channel, *)
(* the broker forgets the subscription, what was under way is lost.        *)
(***************************************************************************)
EXTENDS Integers, Sequences, Arrays

CONSTANTS
    Client, Listener,
    ClientOf,     \* the client whose subscribe() the listener is for
    MaxMessages,  \* bound: messages published
    MaxBreaks,    \* bound: connections lost
    SelfRelease   \* may a callback release its own listener?

ASSUME BrokerBusAssumption ==
    /\ ClientOf \in [Listener -> Client]
    /\ MaxMessages \in Nat /\ MaxBreaks \in Nat /\ SelfRelease \in BOOLEAN

VARIABLES
    listenersOf,    \* channel.listeners of a client
    callbacks,      \* channel.callbacks of a client, named by their listener
    status,         \* how far the subscribe() of a listener has come
    subscriptions,  \* BrokerState.subscriptions of the channel
    toBroker, toClient,
    published,      \* the number of messages published
    received,       \* the messages a callback was called with
    joined,         \* published when subscribe() returned
    overlooked,     \* listeners whose callback was passed over (history)
    breaks

brokerVars == <<subscriptions, published>>
clientVars == <<listenersOf, callbacks, status, received, joined, overlooked>>
busVars == <<brokerVars, clientVars, toBroker, toClient, breaks>>

\* "early": subscribe() has returned although nobody of the client is known to be
\* subscribed. "lost": subscribed over a connection that is gone.
Status == {"new", "subscribing", "subscribed", "early", "lost", "releasing", "over"}

Packet == [type : {"Subscribe", "Unsubscribe", "Ack"}, of : Listener]
          \cup [type : {"Message"}, n : 1 .. MaxMessages]

BusTypeOK ==
    /\ listenersOf \in [Client -> Int]
    /\ \A p \in Client : /\ Items(callbacks[p]) \subseteq Listener
                         /\ Items(toBroker[p]) \cup Items(toClient[p]) \subseteq Packet
    /\ status \in [Listener -> Status]
    /\ Items(subscriptions) \subseteq Client
    /\ published \in 0 .. MaxMessages
    /\ \A l \in Listener : Items(received[l]) \subseteq 1 .. MaxMessages
    /\ joined \in [Listener -> 0 .. MaxMessages]
    /\ overlooked \subseteq Listener
    /\ breaks \in 0 .. MaxBreaks

BusInit ==
    /\ listenersOf = [p \in Client |-> 0]
    /\ callbacks = [p \in Client |-> <<>>]
    /\ status = [l \in Listener |-> "new"]
    /\ subscriptions = <<>>
    /\ toBroker = [p \in Client |-> <<>>]
    /\ toClient = [p \in Client |-> <<>>]
    /\ published = 0
    /\ received = [l \in Listener |-> <<>>]
    /\ joined = [l \in Listener |-> 0]
    /\ overlooked = {}
    /\ breaks = 0

-----------------------------------------------------------------------------
(* The client.                                                             *)

Known(p) == \E l \in Listener : ClientOf[l] = p /\ status[l] = "subscribed"

\* subscribe() of the first listener sends Subscribe and waits for the Ack.
subscribeFirst(l) ==
    LET p == ClientOf[l]
    IN  /\ status[l] = "new"
        /\ listenersOf[p] = 0
        /\ listenersOf' = [listenersOf EXCEPT ![p] = 1]
        /\ callbacks' = [callbacks EXCEPT ![p] = Append(@, l)]
        /\ status' = [status EXCEPT ![l] = "subscribing"]
        /\ toBroker' = [toBroker EXCEPT ![p] = Append(@, [type |-> "Subscribe", of |-> l])]
        /\ UNCHANGED <<brokerVars, received, joined, overlooked, toClient, breaks>>

\* subscribe() of a further listener returns at once.
subscribeNext(l) ==
    LET p == ClientOf[l]
    IN  /\ status[l] = "new"
        /\ listenersOf[p] # 0
        /\ listenersOf' = [listenersOf EXCEPT ![p] = @ + 1]
        /\ callbacks' = [callbacks EXCEPT ![p] = Append(@, l)]
        /\ status' = [status EXCEPT ![l] = IF Known(p) THEN "subscribed" ELSE "early"]
        /\ joined' = [joined EXCEPT ![l] = published]
        /\ UNCHANGED <<brokerVars, received, overlooked, toBroker, toClient, breaks>>

\* Faulty: Unsubscribe is sent while another listener remains.
OneLeft(p) == listenersOf[p] <= 2

\* channel.listeners === 0 after the decrement
IsLast(p) == listenersOf[p] = 1

Released(l) == status[l] \in {"subscribed", "early", "lost"}

\* The effect of the Release of a listener; the last one sends Unsubscribe.
Leave(l) ==
    LET p == ClientOf[l]
    IN  /\ listenersOf' = [listenersOf EXCEPT ![p] = @ - 1]
        /\ callbacks' = [callbacks EXCEPT ![p] = arrayRemoveItem(@, l)]
        /\ status' = [status EXCEPT ![l] = IF IsLast(p) THEN "releasing" ELSE "over"]
        /\ toBroker' = IF IsLast(p)
                       THEN [toBroker EXCEPT ![p] = Append(@, [type |-> "Unsubscribe", of |-> l])]
                       ELSE toBroker

release(l) ==
    /\ Released(l)
    /\ Leave(l)
    /\ UNCHANGED <<brokerVars, received, joined, overlooked, toClient, breaks>>

Next1(p) == Head(toClient[p])
Arrives(p, type) ==
    /\ toClient[p] # <<>> /\ Next1(p).type = type
    /\ toClient' = [toClient EXCEPT ![p] = Tail(@)]

receiveAck(p) ==
    LET l == Next1(p).of
    IN  /\ Arrives(p, "Ack")
        /\ status' = [status EXCEPT ![l] = IF @ = "subscribing" THEN "subscribed" ELSE "over"]
        /\ joined' = [joined EXCEPT ![l] = IF status[l] = "subscribing" THEN published ELSE @]
        /\ UNCHANGED <<brokerVars, listenersOf, callbacks, received, overlooked, toBroker, breaks>>

\* for (const callback of channel.callbacks) callback(body.v)
receiveMessage(p) ==
    /\ Arrives(p, "Message")
    /\ received' = [l \in Listener |-> IF l \in Items(callbacks[p])
                                       THEN Append(received[l], Next1(p).n) ELSE received[l]]
    /\ UNCHANGED <<brokerVars, listenersOf, callbacks, status, joined, overlooked, toBroker, breaks>>

\* The same, with one callback that calls its Release: the array shrinks while it
\* is iterated, and the callback behind it is passed over.
receiveAndRelease(p, i) ==
    LET l == callbacks[p][i]
        passedOver == { callbacks[p][j] : j \in {i + 1} \cap DOMAIN callbacks[p] }
    IN  /\ SelfRelease /\ Released(l)
        /\ Arrives(p, "Message")
        /\ received' = [k \in Listener |-> IF k \in Items(callbacks[p]) \ passedOver
                                           THEN Append(received[k], Next1(p).n) ELSE received[k]]
        /\ overlooked' = overlooked \cup passedOver
        /\ Leave(l)
        /\ UNCHANGED <<brokerVars, joined, breaks>>

-----------------------------------------------------------------------------
(* The broker.                                                             *)

\* for (const c of this.subscribedChannels) state.unsubscribe(c, this)
\* Faulty: close() leaves the subscriptions.
KeepSubscription(p) == subscriptions
DropSubscription(p) == arrayRemoveItem(subscriptions, p)

Handles(p, type) ==
    /\ toBroker[p] # <<>> /\ Head(toBroker[p]).type = type
    /\ toBroker' = [toBroker EXCEPT ![p] = Tail(@)]
    /\ toClient' = [toClient EXCEPT ![p] = Append(@, [type |-> "Ack", of |-> Head(toBroker[p]).of])]

handleSubscribe(p) ==
    /\ Handles(p, "Subscribe")
    /\ subscriptions' = Append(subscriptions, p)
    /\ UNCHANGED <<published, clientVars, breaks>>

handleUnsubscribe(p) ==
    /\ Handles(p, "Unsubscribe")
    /\ subscriptions' = arrayRemoveItem(subscriptions, p)
    /\ UNCHANGED <<published, clientVars, breaks>>

\* Faulty: the last subscriber is left out.
AllButLast == { subscriptions[i] : i \in 1 .. Len(subscriptions) - 1 }
Subscribers == Items(subscriptions)

\* for (const connection of subscriptions) connection.write(message)
handlePublish ==
    /\ published < MaxMessages
    /\ published' = published + 1
    /\ toClient' = [p \in Client |->
         IF p \in Subscribers
         THEN Append(toClient[p], [type |-> "Message", n |-> published + 1])
         ELSE toClient[p]]
    /\ UNCHANGED <<subscriptions, clientVars, toBroker, breaks>>

\* The connection of the client is lost and replaced.
Break(p) ==
    /\ breaks < MaxBreaks
    /\ breaks' = breaks + 1
    /\ toBroker' = [toBroker EXCEPT ![p] = <<>>]
    /\ toClient' = [toClient EXCEPT ![p] = <<>>]
    /\ subscriptions' = DropSubscription(p)
    /\ status' = [l \in Listener |->
         IF ClientOf[l] # p THEN status[l]
         ELSE CASE status[l] \in {"subscribing", "releasing"} -> "over"
                [] status[l] \in {"subscribed", "early"} -> "lost"
                [] OTHER -> status[l]]
    /\ UNCHANGED <<published, listenersOf, callbacks, received, joined, overlooked>>

BusNext ==
    \/ \E l \in Listener : subscribeFirst(l) \/ subscribeNext(l) \/ release(l)
    \/ \E p \in Client :
         \/ receiveAck(p) \/ receiveMessage(p)
         \/ \E i \in DOMAIN callbacks[p] : receiveAndRelease(p, i)
         \/ handleSubscribe(p) \/ handleUnsubscribe(p) \/ Break(p)
    \/ handlePublish

BusSpec == BusInit /\ [][BusNext]_busVars

\* While the connection lives messages are handled and delivered.
BusFairness == \A p \in Client :
    /\ WF_busVars(handleSubscribe(p) \/ handleUnsubscribe(p))
    /\ WF_busVars(receiveAck(p) \/ receiveMessage(p))

FairBusSpec == BusSpec /\ BusFairness

-----------------------------------------------------------------------------
\* The messages on the way to a client.
OnTheWay(p) == { i \in DOMAIN toClient[p] : toClient[p][i].type = "Message" }

\* A listener gets the messages in the order they were published and none twice.
InOrder(l) ==
    LET seq == received[l]
        way == toClient[ClientOf[l]]
    IN  /\ \A i, j \in DOMAIN seq : i < j => seq[i] < seq[j]
        /\ \A i, j \in OnTheWay(ClientOf[l]) : i < j => way[i].n < way[j].n
        /\ \A i \in DOMAIN seq : \A j \in OnTheWay(ClientOf[l]) : seq[i] < way[j].n

\* What was published since subscribe() returned was received or is on the way.
Complete(l) ==
    \A n \in joined[l] + 1 .. published :
        \/ n \in Items(received[l])
        \/ \E i \in OnTheWay(ClientOf[l]) : toClient[ClientOf[l]][i].n = n

\* A listener whose client was known to be subscribed when its subscribe()
\* returned misses nothing, whatever the other listeners of the client do: unless
\* its callback was passed over, because the one before it released itself.  And
\* no listener ever gets anything twice or out of order.
NothingMissed ==
    \A l \in Listener : InOrder(l) /\ (status[l] = "subscribed" /\ l \notin overlooked => Complete(l))

\* A client nobody of which listens is not written to for ever: when all its
\* listeners are over and its requests handled, the broker has forgotten it, also
\* if the connection broke in between.
NoStaleSubscription ==
    \A p \in Client :
        /\ toBroker[p] = <<>>
        /\ \A l \in Listener : ClientOf[l] = p => status[l] \in {"new", "over", "lost"}
        => p \notin Items(subscriptions)

\* The broker has a client in its list at most once, and once the client's
\* requests are handled exactly if it has listeners. (A client that has lost a
\* connection may believe otherwise.)  And nobody is written to in vain.
SubscriptionsMatch ==
    /\ BusTypeOK /\ NoStaleSubscription
    /\ Once(subscriptions)
    /\ \A p \in Client :
         breaks = 0 /\ toBroker[p] = <<>> => (p \in Items(subscriptions) <=> listenersOf[p] > 0)

\* What is published while a listener is subscribed arrives there.
MessagesArrive ==
    \A l \in Listener, n \in 1 .. MaxMessages :
        (status[l] = "subscribed" /\ joined[l] < n /\ n <= published)
        ~> (n \in Items(received[l]) \/ status[l] # "subscribed" \/ l \in overlooked)

=============================================================================
