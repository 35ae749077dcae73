-------------------------- MODULE QueueAndRpcProofs --------------------------
(***************************************************************************)
(* Proofs about BrokerQueue and about RpcClient, for any clients,          *)
(* connections, sockets and messages. The two share no state and no lemma. *)
(*                                                                         *)
(* The queue. Its invariant has six layers, each inductive given the ones  *)
(* before it: QueueTypes; HashesKept, the life of a message's hash;        *)
(* CallsCounted, a message is on its way or given to a callback at most as *)
(* often as the broker sent it; CallsLimited, no client has more free      *)
(* slots, messages and callbacks than it called consume(); Reachable, what *)
(* connections lead where; Ordered, where one consume() and its slot are   *)
(* on their way to the broker and back.                                    *)
(*                                                                         *)
(* The RPC client. RepliesAccounted is inductive: a message is put into    *)
(* the table in the step in which it stops being idle, and only Reply and  *)
(* Drop take messages out, both with an outcome. The lemmas say what each  *)
(* operation leaves of the three variables that matter.                    *)
(***************************************************************************)
EXTENDS BrokerQueue, RpcClient, FiniteSetTheorems, SequenceTheorems, TLAPS

-----------------------------------------------------------------------------
(* Sequences and sets.                                                     *)

\* What stands in a channel that a packet is added to.
LEMMA Pushed ==
    ASSUME NEW S, NEW seq \in Seq(S), NEW e \in S
    PROVE  /\ Append(seq, e) \in Seq(S)
           /\ Len(Append(seq, e)) = Len(seq) + 1 /\ Len(seq) \in Nat
           /\ DOMAIN Append(seq, e) = 1 .. Len(seq) + 1 /\ DOMAIN seq = 1 .. Len(seq)
           /\ \A i \in 1 .. Len(seq) : Append(seq, e)[i] = seq[i]
           /\ Append(seq, e)[Len(seq) + 1] = e
OBVIOUS

\* ... that the first one is taken from.
LEMMA Pulled ==
    ASSUME NEW S, NEW seq \in Seq(S), seq # <<>>
    PROVE  /\ Tail(seq) \in Seq(S)
           /\ Len(Tail(seq)) = Len(seq) - 1 /\ Len(seq) \in Nat /\ Len(seq) >= 1
           /\ DOMAIN Tail(seq) = 1 .. Len(seq) - 1 /\ DOMAIN seq = 1 .. Len(seq)
           /\ \A i \in 1 .. Len(seq) - 1 : Tail(seq)[i] = seq[i + 1]
           /\ Head(seq) = seq[1] /\ seq[1] \in S
OBVIOUS

\* ... that the first n are taken from.
LEMMA Cut ==
    ASSUME NEW S, NEW seq \in Seq(S), NEW n \in 1 .. Len(seq)
    PROVE  LET new == SubSeq(seq, n + 1, Len(seq))
           IN  /\ new \in Seq(S)
               /\ Len(new) = Len(seq) - n /\ Len(seq) \in Nat
               /\ DOMAIN new = 1 .. Len(seq) - n /\ DOMAIN seq = 1 .. Len(seq)
               /\ \A i \in 1 .. Len(seq) - n : new[i] = seq[i + n]
OBVIOUS

\* ... that k copies of a packet are added to.
LEMMA Written ==
    ASSUME NEW S, NEW seq \in Seq(S), NEW k \in Nat, NEW e \in S
    PROVE  LET new == seq \o [i \in 1 .. k |-> e]
           IN  /\ new \in Seq(S)
               /\ Len(new) = Len(seq) + k /\ Len(seq) \in Nat
               /\ DOMAIN new = 1 .. Len(seq) + k /\ DOMAIN seq = 1 .. Len(seq)
               /\ \A i \in 1 .. Len(seq) : new[i] = seq[i]
               /\ \A i \in Len(seq) + 1 .. Len(seq) + k : new[i] = e
<1> DEFINE copies == [i \in 1 .. k |-> e]
<1>1. copies \in Seq(S) /\ Len(copies) = k /\ \A i \in 1 .. k : copies[i] = e
  OBVIOUS
<1> HIDE DEF copies
<1>2. /\ seq \o copies \in Seq(S) /\ Len(seq \o copies) = Len(seq) + k /\ Len(seq) \in Nat
      /\ DOMAIN (seq \o copies) = 1 .. Len(seq) + k /\ DOMAIN seq = 1 .. Len(seq)
      /\ \A i \in 1 .. Len(seq) + k :
           (seq \o copies)[i] = IF i <= Len(seq) THEN seq[i] ELSE copies[i - Len(seq)]
  BY <1>1
<1> QED
  BY <1>1, <1>2 DEF copies

\* ... and in a list that loses its i-th item.
LEMMA Spliced ==
    ASSUME NEW S, NEW seq \in Seq(S), NEW i \in 1 .. Len(seq)
    PROVE  LET new == SubSeq(seq, 1, i - 1) \o SubSeq(seq, i + 1, Len(seq))
           IN  /\ new \in Seq(S)
               /\ Len(seq) \in Nat
               /\ DOMAIN new = 1 .. Len(seq) - 1 /\ DOMAIN seq = 1 .. Len(seq)
               /\ \A j \in 1 .. Len(seq) - 1 : new[j] = IF j < i THEN seq[j] ELSE seq[j + 1]
<1> DEFINE n == Len(seq)
           front == SubSeq(seq, 1, i - 1)
           back == SubSeq(seq, i + 1, n)
<1>1. n \in Nat /\ i \in 1 .. n /\ DOMAIN seq = 1 .. n
  OBVIOUS
<1>2. front \in Seq(S) /\ Len(front) = i - 1 /\ \A j \in 1 .. i - 1 : front[j] = seq[j]
  OBVIOUS
<1>3. back \in Seq(S) /\ Len(back) = n - i /\ \A j \in 1 .. n - i : back[j] = seq[i + j]
  OBVIOUS
<1> HIDE DEF n, front, back
<1>4. /\ front \o back \in Seq(S)
      /\ Len(front \o back) = (i - 1) + (n - i)
      /\ \A j \in 1 .. (i - 1) + (n - i) :
           (front \o back)[j] = IF j <= i - 1 THEN front[j] ELSE back[j - (i - 1)]
  BY <1>1, <1>2, <1>3
<1>5. (i - 1) + (n - i) = n - 1 /\ n - 1 \in Nat
  BY <1>1
<1>6. DOMAIN (front \o back) = 1 .. n - 1
  BY <1>4, <1>5
<1>7. ASSUME NEW j \in 1 .. n - 1
      PROVE  (front \o back)[j] = IF j < i THEN seq[j] ELSE seq[j + 1]
  <2>1. CASE j < i
    <3>1. j \in 1 .. i - 1 /\ j <= i - 1
      BY <1>1, <2>1
    <3> QED
      BY <1>2, <1>4, <1>5, <2>1, <3>1
  <2>2. CASE ~(j < i)
    <3>1. j - (i - 1) \in 1 .. n - i /\ i + (j - (i - 1)) = j + 1 /\ ~(j <= i - 1)
      BY <1>1, <2>2
    <3>2. back[j - (i - 1)] = seq[j + 1]
      BY <1>3, <3>1
    <3> QED
      BY <1>4, <1>5, <2>2, <3>1, <3>2
  <2> QED
    BY <2>1, <2>2
<1> QED
  BY <1>1, <1>4, <1>6, <1>7 DEF n, front, back

\* A set of indices of a sequence is finite.
LEMMA Counted ==
    ASSUME NEW n \in Nat, NEW T, T \subseteq 1 .. n
    PROVE  IsFiniteSet(T) /\ Cardinality(T) \in Nat
<1>1. IsFiniteSet(1 .. n)
  BY FS_Interval
<1>2. T \in SUBSET (1 .. n)
  OBVIOUS
<1>3. IsFiniteSet(T)
  BY <1>1, <1>2, FS_Subset
<1> QED
  BY <1>3, FS_CardinalityType

\* A set of indices has a smallest one.
LEMMA SmallestOf ==
    ASSUME NEW T, T \subseteq Nat, T # {}
    PROVE  \E x \in T : \A y \in T : x <= y
<1> DEFINE R == { ss \in Nat \X Nat : ss[1] < ss[2] }
<1>1. IsWellFoundedOn(R, Nat)
  BY NatLessThanWellFounded DEF OpToRel
<1>2. \A x, y \in Nat : y < x => <<y, x>> \in R
  OBVIOUS
<1> HIDE DEF R
<1>3. PICK x \in T : \A y \in T : ~ (<<y, x>> \in R)
  BY <1>1, WFMin
<1>4. ASSUME NEW y \in T PROVE x <= y
  <2>1. x \in Nat /\ y \in Nat
    OBVIOUS
  <2>2. ~(y < x)
    BY <1>2, <1>3, <2>1, Zenon
  <2> QED
    BY <2>1, <2>2
<1> QED
  BY <1>4

\* A set that another one can be numbered by is not larger.
LEMMA NotMore ==
    ASSUME NEW S, NEW T, IsFiniteSet(T), NEW f \in [S -> T],
           \A x, y \in S : f[x] = f[y] => x = y
    PROVE  IsFiniteSet(S) /\ Cardinality(S) <= Cardinality(T)
<1>1. f \in Injection(S, T)
  BY DEF Injection, IsInjective
<1> QED
  BY <1>1, FS_Injection

\* h numbers the members of T.
Numbers(h, T) ==
  /\ Cardinality(T) \in Nat
  /\ \A i \in 1 .. Cardinality(T) : h[i] \in T
  /\ \A i, j \in 1 .. Cardinality(T) : h[i] = h[j] => i = j

\* The members of finite sets can be numbered, of all of them at once.
LEMMA Numbered ==
    ASSUME NEW S, NEW F, \A x \in S : IsFiniteSet(F[x])
    PROVE  \E g : \A x \in S : Numbers(g[x], F[x])
<1> DEFINE Of(x) == Bijection(1 .. Cardinality(F[x]), F[x])
           g == [x \in S |-> CHOOSE b : b \in Of(x)]
<1>1. ASSUME NEW x \in S
      PROVE  Cardinality(F[x]) \in Nat /\ \E b : b \in Of(x)
  <2>1. Cardinality(F[x]) \in Nat /\ ExistsBijection(1 .. Cardinality(F[x]), F[x])
    BY <1>1, FS_CardinalityType
  <2> QED
    BY <2>1 DEF ExistsBijection
<1>2. ASSUME NEW x \in S
      PROVE  g[x] \in Of(x)
  BY <1>1, <1>2
<1> HIDE DEF g
<1>3. ASSUME NEW x \in S
      PROVE  Numbers(g[x], F[x])
  BY <1>1, <1>2, <1>3 DEF Numbers, Bijection, Injection, IsInjective
<1> QED
  BY <1>3

-----------------------------------------------------------------------------
(* What the variables are.                                                 *)

IsAnswer(packet) == packet.type \in {"Error", "Success", "Neither"}
IsControl(packet) == packet.type \in {"Subscribe", "Unsubscribe", "Ack"}
IsHandle(packet) == packet.type = "Handle"

\* A consumer has one message at most.
OneMessage(handling) == handling = {} \/ \E m \in Message : handling = {m}

\* What the variables hold.
Consumer == [con : Connection, handling : SUBSET Message]

Calls == Message \X (Nat \ {0})

Conditions == {"new", "refused", "pending", "inFlight", "done", "error"}

BrokerTypes ==
  /\ consumers \in Seq(Consumer)
  /\ \A i \in DOMAIN consumers : OneMessage(consumers[i].handling)
  /\ hashes \subseteq { HashOf[m] : m \in Message } \ {Nothing}
  /\ state \in [Message -> Conditions]
  /\ tries \in [Message -> Nat]
  /\ expired \subseteq Message

NetTypes ==
  /\ up \in [Connection -> {"new", "up", "down"}]
  /\ toBroker \in [Connection -> Seq(Packet)]
  /\ toClient \in [Connection -> Seq(Packet)]

ClientTypes ==
  /\ sub \in [Sub -> SubState]
  /\ callback \in [Client -> Sub \cup {Nothing}]
  /\ running \in [Client -> SUBSET Calls]
  /\ processed \in [Message -> Nat]

QueueTypes == BrokerTypes /\ NetTypes /\ ClientTypes

\* What an operation leaves alone.
LEMMA LeavesAlone ==
    /\ \A p \in Client : Deliver(p) => UNCHANGED <<consumers, hashes, state, tries, expired, up, toBroker>>
    /\ \A p \in Client : Finish(p) =>
         UNCHANGED <<consumers, hashes, state, tries, expired, up, toClient, sub, callback, processed>>
    /\ \A p \in Client, c \in Connection : Open(p, c) =>
         UNCHANGED <<consumers, hashes, state, tries, expired, toBroker, toClient, sub, callback, running,
                     processed>>
    /\ \A p \in Client, c \in Connection : Break(p, c) =>
         UNCHANGED <<consumers, hashes, state, tries, expired, callback, running, processed>>
    /\ \A k \in Sub : consume(k) \/ release(k) =>
         UNCHANGED <<consumers, hashes, state, tries, expired, up, toClient, callback, running, processed>>
    /\ \A m \in Message : queuePublish(m) =>
         /\ hashes \subseteq hashes'
         /\ UNCHANGED <<expired, up, toBroker, sub, callback, running, processed>>
    /\ \A m \in Message : queuePublishDuplicate(m) =>
         UNCHANGED <<consumers, hashes, tries, expired, up, toBroker, toClient, sub, callback, running,
                     processed>>
    /\ \A c \in Connection : queueSubscribe(c) \/ queueUnsubscribe(c) =>
         UNCHANGED <<hashes, state, tries, expired, up, sub, callback, running, processed>>
    /\ \A c \in Connection : queueMessageHandled(c) =>
         UNCHANGED <<hashes, tries, expired, up, toClient, sub, callback, running, processed>>
    /\ \A h \in hashes : forgetHash(h) =>
         /\ expired \subseteq expired'
         /\ UNCHANGED <<consumers, state, tries, up, toBroker, toClient, sub, callback, running, processed>>
    /\ UNCHANGED queueVars =>
         UNCHANGED <<consumers, hashes, state, tries, expired, up, toBroker, toClient, sub, callback,
                     running, processed>>
<1>1. \A p \in Client : Deliver(p) => UNCHANGED <<consumers, hashes, state, tries, expired, up, toBroker>>
  BY DEF Deliver, Receive, brokerVars
<1>2. \A p \in Client : Finish(p) =>
        UNCHANGED <<consumers, hashes, state, tries, expired, up, toClient, sub, callback, processed>>
  BY DEF Finish, callbackDone, brokerVars
<1>3. \A p \in Client, c \in Connection : Open(p, c) =>
        UNCHANGED <<consumers, hashes, state, tries, expired, toBroker, toClient, sub, callback, running,
                    processed>>
  BY DEF Open, brokerVars, clientVars
<1>4. \A p \in Client, c \in Connection : Break(p, c) =>
        UNCHANGED <<consumers, hashes, state, tries, expired, callback, running, processed>>
  BY DEF Break, brokerVars
<1>5. \A k \in Sub : consume(k) \/ release(k) =>
        UNCHANGED <<consumers, hashes, state, tries, expired, up, toClient, callback, running, processed>>
  BY DEF consume, release, brokerVars
<1>6. \A m \in Message : queuePublish(m) =>
        /\ hashes \subseteq hashes'
        /\ UNCHANGED <<expired, up, toBroker, sub, callback, running, processed>>
  BY DEF queuePublish, clientVars
<1>7. \A m \in Message : queuePublishDuplicate(m) =>
        UNCHANGED <<consumers, hashes, tries, expired, up, toBroker, toClient, sub, callback, running,
                    processed>>
  BY DEF queuePublishDuplicate, netVars, clientVars
<1>8. \A c \in Connection : queueSubscribe(c) \/ queueUnsubscribe(c) =>
        UNCHANGED <<hashes, state, tries, expired, up, sub, callback, running, processed>>
  BY DEF queueSubscribe, queueUnsubscribe, clientVars
<1>9. \A c \in Connection : queueMessageHandled(c) =>
        UNCHANGED <<hashes, tries, expired, up, toClient, sub, callback, running, processed>>
  BY DEF queueMessageHandled, clientVars
<1>10. \A h \in hashes : forgetHash(h) =>
        /\ expired \subseteq expired'
        /\ UNCHANGED <<consumers, state, tries, up, toBroker, toClient, sub, callback, running, processed>>
  BY DEF forgetHash, netVars, clientVars
<1>11. UNCHANGED queueVars =>
        UNCHANGED <<consumers, hashes, state, tries, expired, up, toBroker, toClient, sub, callback,
                    running, processed>>
  BY DEF queueVars, brokerVars, netVars, clientVars
<1> QED
  BY <1>1, <1>2, <1>3, <1>4, <1>5, <1>6, <1>7, <1>8, <1>9, <1>10, <1>11

\* What the packets of each kind carry.
LEMMA PacketKinds ==
    /\ \A packet \in Packet :
         /\ IsControl(packet) \/ IsAnswer(packet) \/ IsHandle(packet)
         /\ IsControl(packet) => packet.sub \in Sub
         /\ IsAnswer(packet) \/ IsHandle(packet) => packet.msg \in Message /\ "msg" \in DOMAIN packet
    /\ \A k \in Sub : \A type \in {"Subscribe", "Unsubscribe", "Ack"} :
         [type |-> type, sub |-> k] \in Packet
    /\ \A m \in Message : \A type \in {"Handle", "Error", "Success", "Neither"} :
         [type |-> type, msg |-> m] \in Packet
  BY DEF Packet, IsControl, IsAnswer, IsHandle

\* A client writes to the end of its open connection.
LEMMA Sends ==
    ASSUME QueueTypes, NEW p \in Client, NEW packet \in Packet, Send(p, packet)
    PROVE  \E c \in ConnectionsOf[p] :
             /\ c \in Connection /\ up[c] = "up"
             /\ toBroker' = [toBroker EXCEPT ![c] = Append(@, packet)]
             /\ toBroker' \in [Connection -> Seq(Packet)]
<1>1. PICK c \in ConnectionsOf[p] :
        up[c] = "up" /\ toBroker' = [toBroker EXCEPT ![c] = Append(@, packet)]
  BY DEF Send
<1>2. c \in Connection
  BY BrokerQueueAssumption
<1>3. toBroker[c] \in Seq(Packet) /\ toBroker \in [Connection -> Seq(Packet)]
  BY <1>2 DEF QueueTypes, NetTypes
<1>4. Append(toBroker[c], packet) \in Seq(Packet)
  BY <1>3
<1> QED
  BY <1>1, <1>2, <1>3, <1>4

\* The broker takes the first packet of a connection.
LEMMA Takes ==
    ASSUME QueueTypes, NEW c \in Connection, NEW types, Take(c, types)
    PROVE  /\ toBroker[c] \in Seq(Packet) /\ toBroker[c] # <<>>
           /\ Next1(c) = toBroker[c][1] /\ Next1(c) \in Packet /\ Next1(c).type \in types
           /\ 1 \in DOMAIN toBroker[c]
           /\ toBroker' = [toBroker EXCEPT ![c] = Tail(@)]
           /\ toBroker' \in [Connection -> Seq(Packet)]
<1>1. toBroker[c] \in Seq(Packet) /\ toBroker \in [Connection -> Seq(Packet)]
  BY DEF QueueTypes, NetTypes
<1>2. /\ toBroker[c] # <<>> /\ Next1(c).type \in types
      /\ toBroker' = [toBroker EXCEPT ![c] = Tail(@)]
  BY DEF Take
<1>3. PICK seq \in Seq(Packet) : seq = toBroker[c] /\ seq # <<>>
  BY <1>1, <1>2
<1>4. /\ Tail(seq) \in Seq(Packet) /\ Head(seq) = seq[1] /\ seq[1] \in Packet
      /\ 1 \in DOMAIN seq
  BY <1>3, Pulled
<1> QED
  BY <1>1, <1>2, <1>3, <1>4 DEF Next1

\* The broker writes to the end of a connection.
LEMMA Responds ==
    ASSUME QueueTypes, NEW c \in Connection, NEW packet \in Packet, Respond(c, packet)
    PROVE  /\ toClient' = [toClient EXCEPT ![c] = Append(@, packet)]
           /\ toClient' \in [Connection -> Seq(Packet)]
<1>1. toClient[c] \in Seq(Packet) /\ toClient \in [Connection -> Seq(Packet)]
  BY DEF QueueTypes, NetTypes
<1>2. Append(toClient[c], packet) \in Seq(Packet)
  BY <1>1
<1> QED
  BY <1>1, <1>2 DEF Respond

\* A consumer has capacity exactly if it has no message.
LEMMA Capacity ==
    ASSUME BrokerTypes, NEW i \in DOMAIN consumers
    PROVE  HasCapacity(i) <=> consumers[i].handling = {}
<1>1. CASE consumers[i].handling = {}
  BY <1>1, FS_EmptySet DEF HasCapacity
<1>2. CASE \E m \in Message : consumers[i].handling = {m}
  <2>1. PICK m \in Message : consumers[i].handling = {m}
    BY <1>2
  <2>2. Cardinality({m}) = 1
    BY FS_Singleton
  <2>3. consumers[i].handling # {} /\ Cardinality(consumers[i].handling) = 1
    BY <2>1, <2>2
  <2> QED
    BY <2>3 DEF HasCapacity
<1> QED
  BY <1>1, <1>2 DEF BrokerTypes, OneMessage

Chosen == { i \in DOMAIN consumers : HasCapacity(i) }
ChosenOn(c) == { i \in Chosen : consumers[i].con = c }

\* queuePublish() chooses the consumers that have no message.
LEMMA ChosenAre ==
    ASSUME BrokerTypes
    PROVE  /\ Chosen = { i \in DOMAIN consumers : consumers[i].handling = {} }
           /\ IsFiniteSet(Chosen) /\ Cardinality(Chosen) \in Nat
           /\ \A c : IsFiniteSet(ChosenOn(c)) /\ Cardinality(ChosenOn(c)) \in Nat
<1>1. Chosen = { i \in DOMAIN consumers : consumers[i].handling = {} }
  BY Capacity DEF Chosen
<1>2. PICK n \in Nat : DOMAIN consumers = 1 .. n
  BY DEF BrokerTypes
<1>3. Chosen \subseteq 1 .. n
  BY <1>2 DEF Chosen
<1>4. \A c : ChosenOn(c) \subseteq 1 .. n
  BY <1>3 DEF ChosenOn
<1> QED
  BY <1>1, <1>3, <1>4, Counted

\* findIndex() finds a consumer of the connection, if there is one.
LEMMA ConsumerFound ==
    ASSUME BrokerTypes, NEW c
    PROVE  /\ ConsumerOf(c) = 0 => \A i \in DOMAIN consumers : consumers[i].con # c
           /\ ConsumerOf(c) # 0 =>
                ConsumerOf(c) \in DOMAIN consumers /\ consumers[ConsumerOf(c)].con = c
<1> DEFINE found == { i \in DOMAIN consumers : consumers[i].con = c }
<1>1. CASE found = {}
  BY <1>1 DEF ConsumerOf
<1>2. CASE found # {}
  <2>1. PICK n \in Nat : DOMAIN consumers = 1 .. n
    BY DEF BrokerTypes
  <2>2. found \subseteq Nat
    BY <2>1
  <2>3. \E i \in found : \A j \in found : i <= j
    BY <1>2, <2>2, SmallestOf
  <2>4. ConsumerOf(c) \in found
    BY <1>2, <2>3 DEF ConsumerOf
  <2> QED
    BY <1>2, <2>1, <2>4
<1> QED
  BY <1>1, <1>2

\* The variables have their types at first, and (TypesStep) keep them.
LEMMA TypesInit == QueueInit => QueueTypes
<1> SUFFICES ASSUME QueueInit PROVE QueueTypes
  OBVIOUS
<1>1. BrokerTypes
  BY DEF QueueInit, BrokerTypes, Consumer, Conditions
<1>2. NetTypes
  BY DEF QueueInit, NetTypes
<1>3. ClientTypes
  BY DEF QueueInit, ClientTypes, SubState
<1> QED
  BY <1>1, <1>2, <1>3 DEF QueueTypes

\* What a consumer is after it has changed.
LEMMA ConsumersChange ==
    ASSUME BrokerTypes, UNCHANGED <<hashes, state, tries, expired>>,
           consumers' \in Seq(Consumer),
           \A i \in DOMAIN consumers' : OneMessage(consumers'[i].handling)
    PROVE  BrokerTypes'
  BY DEF BrokerTypes, OneMessage

\* queueSubscribe() adds a consumer after the others.
LEMMA NewConsumer ==
    ASSUME BrokerTypes, NEW c \in Connection,
           consumers' = Append(consumers, [con |-> c, handling |-> {}])
    PROVE  /\ consumers' \in Seq(Consumer)
           /\ Len(consumers) \in Nat /\ DOMAIN consumers = 1 .. Len(consumers)
           /\ DOMAIN consumers' = 1 .. Len(consumers) + 1
           /\ \A i \in DOMAIN consumers : consumers'[i] = consumers[i]
           /\ consumers'[Len(consumers) + 1] = [con |-> c, handling |-> {}]
           /\ \A i \in DOMAIN consumers' : OneMessage(consumers'[i].handling)
<1>1. [con |-> c, handling |-> {}] \in Consumer /\ consumers \in Seq(Consumer)
  BY DEF Consumer, BrokerTypes
<1>2. PICK seq \in Seq(Consumer) : seq = consumers
  BY <1>1
<1>3. PICK entry \in Consumer : entry = [con |-> c, handling |-> {}]
  BY <1>1
<1>4. consumers' = Append(seq, entry)
  BY <1>2, <1>3
<1>5. /\ consumers' \in Seq(Consumer)
      /\ Len(seq) \in Nat /\ DOMAIN seq = 1 .. Len(seq)
      /\ DOMAIN consumers' = 1 .. Len(seq) + 1
      /\ \A i \in 1 .. Len(seq) : consumers'[i] = seq[i]
      /\ consumers'[Len(seq) + 1] = entry
  <2> DEFINE new == Append(seq, entry)
  <2>1. /\ new \in Seq(Consumer)
        /\ Len(seq) \in Nat /\ DOMAIN seq = 1 .. Len(seq) /\ DOMAIN new = 1 .. Len(seq) + 1
        /\ \A i \in 1 .. Len(seq) : new[i] = seq[i]
        /\ new[Len(seq) + 1] = entry
    BY Pushed
  <2> HIDE DEF new
  <2>2. consumers' = new
    BY <1>4 DEF new
  <2> QED
    BY <2>1, <2>2
<1>6. \A i \in DOMAIN consumers : OneMessage(consumers[i].handling)
  BY DEF BrokerTypes
<1>7. \A i \in DOMAIN consumers' : OneMessage(consumers'[i].handling)
  BY <1>2, <1>3, <1>5, <1>6 DEF OneMessage
<1> QED
  BY <1>2, <1>3, <1>5, <1>7

\* queueUnsubscribe() closes the gap it makes.
LEMMA ConsumerLeaves ==
    ASSUME BrokerTypes, NEW i \in DOMAIN consumers, consumers' = Splice(i)
    PROVE  /\ consumers' \in Seq(Consumer)
           /\ Len(consumers) \in Nat /\ DOMAIN consumers = 1 .. Len(consumers)
           /\ DOMAIN consumers' = 1 .. Len(consumers) - 1
           /\ \A j \in DOMAIN consumers' :
                consumers'[j] = IF j < i THEN consumers[j] ELSE consumers[j + 1]
           /\ \A j \in DOMAIN consumers' : OneMessage(consumers'[j].handling)
<1>1. PICK seq \in Seq(Consumer) : seq = consumers
  BY DEF BrokerTypes
<1>2. i \in 1 .. Len(seq) /\ Len(seq) \in Nat
  BY <1>1
<1>3. consumers' = SubSeq(seq, 1, i - 1) \o SubSeq(seq, i + 1, Len(seq))
  BY <1>1 DEF Splice
<1>4. /\ consumers' \in Seq(Consumer)
      /\ Len(seq) \in Nat /\ DOMAIN seq = 1 .. Len(seq)
      /\ DOMAIN consumers' = 1 .. Len(seq) - 1
      /\ \A j \in 1 .. Len(seq) - 1 : consumers'[j] = IF j < i THEN seq[j] ELSE seq[j + 1]
  <2> DEFINE new == SubSeq(seq, 1, i - 1) \o SubSeq(seq, i + 1, Len(seq))
  <2>1. /\ new \in Seq(Consumer) /\ DOMAIN new = 1 .. Len(seq) - 1
        /\ \A j \in 1 .. Len(seq) - 1 : new[j] = IF j < i THEN seq[j] ELSE seq[j + 1]
    BY <1>2, Spliced
  <2> HIDE DEF new
  <2>2. consumers' = new
    BY <1>3 DEF new
  <2> QED
    BY <1>2, <2>1, <2>2
<1>5. \A j \in DOMAIN consumers : OneMessage(consumers[j].handling)
  BY DEF BrokerTypes
<1>6. ASSUME NEW j \in DOMAIN consumers'
      PROVE  OneMessage(consumers'[j].handling)
  <2>1. j \in DOMAIN consumers /\ j + 1 \in DOMAIN consumers
    BY <1>1, <1>4, <1>6
  <2>2. consumers'[j] = consumers[j] \/ consumers'[j] = consumers[j + 1]
    BY <1>1, <1>4, <1>6
  <2> QED
    BY <1>5, <2>1, <2>2
<1> QED
  BY <1>1, <1>4, <1>6

\* queueMessageHandled() frees one slot.
LEMMA SlotFreed ==
    ASSUME BrokerTypes, NEW i \in DOMAIN consumers, NEW m \in Message, consumers' = FreeSlot(i, m)
    PROVE  /\ consumers' \in Seq(Consumer)
           /\ DOMAIN consumers' = DOMAIN consumers
           /\ \A j \in DOMAIN consumers : consumers'[j].con = consumers[j].con
           /\ \A j \in DOMAIN consumers :
                consumers'[j].handling = IF j = i THEN consumers[j].handling \ {m} ELSE consumers[j].handling
           /\ \A j \in DOMAIN consumers' : OneMessage(consumers'[j].handling)
<1>1. PICK seq \in Seq(Consumer) : seq = consumers
  BY DEF BrokerTypes
<1> DEFINE entry == [seq[i] EXCEPT !.handling = @ \ {m}]
<1>2. Len(seq) \in Nat /\ DOMAIN seq = 1 .. Len(seq) /\ \A j \in 1 .. Len(seq) : seq[j] \in Consumer
  OBVIOUS
<1>3. /\ seq[i] \in Consumer /\ entry \in Consumer /\ entry.con = seq[i].con
      /\ entry.handling = seq[i].handling \ {m}
  BY <1>1, <1>2 DEF Consumer
<1>4. consumers' = [seq EXCEPT ![i] = entry]
  BY <1>1 DEF FreeSlot
<1> HIDE DEF entry
<1>5. consumers' \in Seq(Consumer) /\ DOMAIN consumers' = DOMAIN seq
  BY <1>1, <1>2, <1>3, <1>4
<1>6. \A j \in DOMAIN seq : consumers'[j] = IF j = i THEN entry ELSE seq[j]
  BY <1>4
<1>7. \A j \in DOMAIN consumers : OneMessage(consumers[j].handling)
  BY DEF BrokerTypes
<1>8. ASSUME NEW j \in DOMAIN consumers'
      PROVE  OneMessage(consumers'[j].handling)
  <2>1. CASE j = i
    <3>1. OneMessage(seq[i].handling) /\ consumers'[j].handling = seq[i].handling \ {m}
      BY <1>1, <1>3, <1>6, <1>7, <2>1
    <3> QED
      BY <3>1 DEF OneMessage
  <2>2. CASE j # i
    BY <1>1, <1>5, <1>6, <1>7, <2>2
  <2> QED
    BY <2>1, <2>2
<1> QED
  BY <1>1, <1>3, <1>5, <1>6, <1>8

\* The message goes to the consumers that are chosen, and to no other.
LEMMA Dispatched ==
    ASSUME BrokerTypes, NEW m \in Message, queuePublish(m)
    PROVE  /\ consumers' \in Seq(Consumer)
           /\ DOMAIN consumers' = DOMAIN consumers
           /\ \A i \in DOMAIN consumers : consumers'[i].con = consumers[i].con
           /\ \A i \in DOMAIN consumers :
                consumers'[i].handling = IF i \in Chosen THEN {m} ELSE consumers[i].handling
           /\ \A i \in DOMAIN consumers' : OneMessage(consumers'[i].handling)
<1>1. PICK seq \in Seq(Consumer) : seq = consumers
  BY DEF BrokerTypes
<1> DEFINE entry(i) == IF i \in Chosen THEN [seq[i] EXCEPT !.handling = @ \cup {m}] ELSE seq[i]
<1>2. Len(seq) \in Nat /\ DOMAIN seq = 1 .. Len(seq) /\ \A i \in 1 .. Len(seq) : seq[i] \in Consumer
  OBVIOUS
<1>3. \A i \in 1 .. Len(seq) : i \in Chosen => seq[i].handling = {}
  BY <1>1, <1>2, ChosenAre
<1>4. ASSUME NEW i \in 1 .. Len(seq)
      PROVE  /\ entry(i) \in Consumer /\ entry(i).con = seq[i].con
             /\ entry(i).handling = IF i \in Chosen THEN {m} ELSE seq[i].handling
  BY <1>2, <1>3, <1>4 DEF Consumer
<1>5. consumers' = [i \in DOMAIN seq |-> entry(i)]
  BY <1>1 DEF queuePublish, Chosen
<1> HIDE DEF entry
<1>6. /\ consumers' \in Seq(Consumer) /\ DOMAIN consumers' = DOMAIN seq
      /\ \A i \in DOMAIN seq : consumers'[i] = entry(i)
  BY <1>2, <1>4, <1>5
<1>7. \A j \in DOMAIN consumers : OneMessage(consumers[j].handling)
  BY DEF BrokerTypes
<1>8. ASSUME NEW j \in DOMAIN consumers'
      PROVE  OneMessage(consumers'[j].handling)
  <2>1. consumers'[j].handling = IF j \in Chosen THEN {m} ELSE seq[j].handling
    BY <1>2, <1>4, <1>6
  <2>2. OneMessage(seq[j].handling)
    BY <1>1, <1>6, <1>7
  <2> QED
    BY <2>1, <2>2 DEF OneMessage
<1> QED
  BY <1>1, <1>2, <1>4, <1>6, <1>8

\* What is written to the clients when a message is published.
LEMMA Writes ==
    ASSUME QueueTypes, NEW m \in Message, queuePublish(m)
    PROVE  /\ toClient' \in [Connection -> Seq(Packet)]
           /\ \A c \in Connection : up[c] # "up" => toClient'[c] = toClient[c]
           /\ \A c \in Connection : up[c] = "up" =>
                LET n == Len(toClient[c])
                    k == Cardinality(ChosenOn(c))
                IN  /\ n \in Nat /\ k \in Nat
                    /\ DOMAIN toClient'[c] = 1 .. n + k /\ DOMAIN toClient[c] = 1 .. n
                    /\ \A i \in 1 .. n : toClient'[c][i] = toClient[c][i]
                    /\ \A i \in n + 1 .. n + k : toClient'[c][i] = [type |-> "Handle", msg |-> m]
<1> DEFINE packet == [type |-> "Handle", msg |-> m]
<1>1. packet \in Packet
  BY PacketKinds
<1>2. toClient \in [Connection -> Seq(Packet)] /\ BrokerTypes
  BY DEF QueueTypes, NetTypes
<1>3. \A c : Cardinality(ChosenOn(c)) \in Nat
  BY <1>2, ChosenAre
<1>4. toClient' = [ c \in Connection |->
             IF up[c] = "up"
             THEN toClient[c] \o [ i \in 1 .. Cardinality(ChosenOn(c)) |-> packet ]
             ELSE toClient[c] ]
  BY DEF queuePublish, Chosen, ChosenOn
<1> HIDE DEF packet
<1>5. ASSUME NEW c \in Connection, up[c] = "up"
      PROVE  LET n == Len(toClient[c])
                 k == Cardinality(ChosenOn(c))
             IN  /\ toClient'[c] \in Seq(Packet) /\ n \in Nat /\ k \in Nat
                 /\ DOMAIN toClient'[c] = 1 .. n + k /\ DOMAIN toClient[c] = 1 .. n
                 /\ \A i \in 1 .. n : toClient'[c][i] = toClient[c][i]
                 /\ \A i \in n + 1 .. n + k : toClient'[c][i] = packet
  <2>1. PICK seq \in Seq(Packet) : seq = toClient[c]
    BY <1>2
  <2>2. PICK k \in Nat : k = Cardinality(ChosenOn(c))
    BY <1>3
  <2> DEFINE new == seq \o [i \in 1 .. k |-> packet]
  <2>3. /\ new \in Seq(Packet) /\ Len(seq) \in Nat
        /\ DOMAIN new = 1 .. Len(seq) + k /\ DOMAIN seq = 1 .. Len(seq)
        /\ \A i \in 1 .. Len(seq) : new[i] = seq[i]
        /\ \A i \in Len(seq) + 1 .. Len(seq) + k : new[i] = packet
    BY <1>1, Written
  <2>4. toClient'[c] = new
    BY <1>4, <1>5, <2>1, <2>2
  <2> HIDE DEF new
  <2> QED
    BY <2>1, <2>2, <2>3, <2>4
<1>6. ASSUME NEW c \in Connection, up[c] # "up"
      PROVE  toClient'[c] = toClient[c]
  BY <1>4, <1>6
<1>7. toClient' \in [Connection -> Seq(Packet)]
  <2>1. \A c \in Connection : toClient'[c] \in Seq(Packet)
    BY <1>2, <1>5, <1>6
  <2>2. toClient' = [c \in Connection |-> toClient'[c]]
    BY <1>4
  <2> QED
    BY <2>1, <2>2
<1> QED
  BY <1>5, <1>6, <1>7 DEF packet

\* What a client does with a buffer.
Given(c, n, m) == { i \in 1 .. n : toClient[c][i].type = "Handle" /\ toClient[c][i].msg = m }
Acked(c, n) == { toClient[c][i].sub : i \in { i \in 1 .. n : toClient[c][i].type = "Ack" } }
Ready(c, n) == { k \in Acked(c, n) : sub[k] = "subscribing" }

\* A client takes the first n packets, and calls its callback once for each message.
LEMMA Receives ==
    ASSUME QueueTypes, NEW p \in Client, NEW c \in Connection, NEW n \in 1 .. Len(toClient[c]),
           Receive(p, c, n)
    PROVE  /\ c \in ConnectionsOf[p] /\ (n = 1 \/ Batched)
           /\ toClient' \in [Connection -> Seq(Packet)]
           /\ \A d \in Connection \ {c} : toClient'[d] = toClient[d]
           /\ Len(toClient[c]) \in Nat /\ DOMAIN toClient[c] = 1 .. Len(toClient[c])
           /\ DOMAIN toClient'[c] = 1 .. Len(toClient[c]) - n
           /\ \A i \in DOMAIN toClient'[c] : toClient'[c][i] = toClient[c][i + n]
           /\ Acked(c, n) \subseteq Sub
           /\ \A m : IsFiniteSet(Given(c, n, m)) /\ Cardinality(Given(c, n, m)) \in Nat
           /\ ClientTypes'
<1>1. toClient \in [Connection -> Seq(Packet)]
  BY DEF QueueTypes, NetTypes
<1>2. PICK seq \in Seq(Packet) : seq = toClient[c]
  BY <1>1
<1> DEFINE new == SubSeq(seq, n + 1, Len(seq))
<1>3. /\ new \in Seq(Packet) /\ Len(seq) \in Nat
      /\ DOMAIN new = 1 .. Len(seq) - n /\ DOMAIN seq = 1 .. Len(seq)
      /\ \A i \in 1 .. Len(seq) - n : new[i] = seq[i + n]
  <2>1. n \in 1 .. Len(seq)
    BY <1>2
  <2> QED
    BY <2>1, Cut
<1>4. /\ c \in ConnectionsOf[p] /\ (n = 1 \/ Batched)
      /\ toClient' = [toClient EXCEPT ![c] = new]
  BY <1>2 DEF Receive
<1> HIDE DEF new
<1>5. n \in Nat /\ n <= Len(seq)
  BY <1>2, <1>3
<1>6. Acked(c, n) \subseteq Sub
  <2> SUFFICES ASSUME NEW i \in 1 .. n, toClient[c][i].type = "Ack"
               PROVE  toClient[c][i].sub \in Sub
    BY DEF Acked
  <2>1. i \in DOMAIN seq /\ seq[i] \in Packet
    BY <1>3, <1>5
  <2> QED
    BY <1>2, <2>1, PacketKinds DEF IsControl
<1>7. ASSUME NEW m
      PROVE  IsFiniteSet(Given(c, n, m)) /\ Cardinality(Given(c, n, m)) \in Nat
  <2>1. Given(c, n, m) \subseteq 1 .. n
    BY DEF Given
  <2> QED
    BY <1>5, <2>1, Counted
<1>8. ClientTypes'
  <2>1. ClientTypes
    BY DEF QueueTypes
  <2>2. sub' \in [Sub -> SubState]
    <3>1. sub' = [k \in Sub |-> CASE k \in Ready(c, n) -> "consuming"
                                  [] k \in Acked(c, n) \ Ready(c, n) -> "over"
                                  [] OTHER -> sub[k]]
      BY DEF Receive, Acked, Ready
    <3> QED
      BY <2>1, <3>1 DEF ClientTypes, SubState
  <2>3. callback' \in [Client -> Sub \cup {Nothing}]
    <3>1. \/ UNCHANGED callback
          \/ \E k \in Ready(c, n) : callback' = [callback EXCEPT ![p] = k]
      BY DEF Receive, Ready, Acked
    <3>2. Ready(c, n) \subseteq Sub
      BY <1>6 DEF Ready
    <3> QED
      BY <2>1, <3>1, <3>2 DEF ClientTypes
  <2>4. CASE callback[p] = Nothing
    <3>1. UNCHANGED <<running, processed>>
      BY <2>4 DEF Receive
    <3> QED
      BY <2>1, <2>2, <2>3, <3>1 DEF ClientTypes
  <2>5. CASE callback[p] # Nothing
    <3>1. /\ processed' = [m \in Message |-> processed[m] + Cardinality(Given(c, n, m))]
          /\ running' = [running EXCEPT ![p] = @ \cup
                     UNION { {m} \X (processed[m] + 1 .. processed'[m]) : m \in Message }]
      BY <2>5 DEF Receive, Given
    <3>2. processed' \in [Message -> Nat]
      BY <1>7, <2>1, <3>1 DEF ClientTypes
    <3>3. ASSUME NEW m \in Message
          PROVE  {m} \X (processed[m] + 1 .. processed'[m]) \subseteq Calls
      <4>1. processed[m] \in Nat
        BY <2>1 DEF ClientTypes
      <4>2. (processed[m] + 1 .. processed'[m]) \subseteq Nat \ {0}
        BY <3>2, <4>1
      <4> QED
        BY <4>2 DEF Calls
    <3>4. UNION { {m} \X (processed[m] + 1 .. processed'[m]) : m \in Message } \subseteq Calls
      BY <3>3
    <3>5. running' \in [Client -> SUBSET Calls]
      BY <2>1, <3>1, <3>4 DEF ClientTypes
    <3> QED
      BY <2>2, <2>3, <3>2, <3>5 DEF ClientTypes
  <2> QED
    BY <2>4, <2>5
<1> QED
  BY <1>1, <1>2, <1>3, <1>4, <1>6, <1>7, <1>8

\* Every step keeps the types.
LEMMA TypesStep == QueueTypes /\ [QueueNext]_queueVars => QueueTypes'
<1> SUFFICES ASSUME QueueTypes, [QueueNext]_queueVars PROVE QueueTypes'
  OBVIOUS
<1>1. BrokerTypes /\ NetTypes /\ ClientTypes
  BY DEF QueueTypes
<1>2. CASE UNCHANGED queueVars
  <2>1. UNCHANGED <<consumers, hashes, state, tries, expired>>
    BY <1>2 DEF queueVars, brokerVars
  <2>2. BrokerTypes'
    BY <1>1, <2>1 DEF BrokerTypes, OneMessage
  <2>3. NetTypes'
    BY <1>1, <1>2 DEF NetTypes, queueVars, netVars
  <2>4. ClientTypes'
    BY <1>1, <1>2 DEF ClientTypes, queueVars, clientVars
  <2> QED
    BY <2>2, <2>3, <2>4 DEF QueueTypes
<1>3. ASSUME UNCHANGED brokerVars PROVE BrokerTypes'
  BY <1>1, <1>3 DEF BrokerTypes, OneMessage, brokerVars
<1>4. ASSUME UNCHANGED clientVars PROVE ClientTypes'
  BY <1>1, <1>4 DEF ClientTypes, clientVars
<1>5. ASSUME NEW p \in Client, Deliver(p) PROVE QueueTypes'
  <2>1. PICK c \in Connection : \E n \in 1 .. Len(toClient[c]) : Receive(p, c, n)
    BY <1>5 DEF Deliver
  <2> PICK n \in 1 .. Len(toClient[c]) : Receive(p, c, n)
    BY <2>1
  <2>2. toClient' \in [Connection -> Seq(Packet)] /\ ClientTypes'
    BY Receives
  <2>3. UNCHANGED <<brokerVars, up, toBroker>>
    BY DEF Receive
  <2> QED
    BY <1>1, <1>3, <2>2, <2>3 DEF QueueTypes, NetTypes
<1>6. ASSUME NEW p \in Client, Finish(p) PROVE QueueTypes'
  <2>1. PICK call \in running[p], answer \in {"Error", "Success", "Neither"} :
          callbackDone(p, call, answer)
    BY <1>6 DEF Finish
  <2>2. running[p] \subseteq Calls
    BY <1>1 DEF ClientTypes
  <2>3. [type |-> answer, msg |-> call[1]] \in Packet
    BY <2>2, PacketKinds DEF Calls
  <2>4. toBroker' \in [Connection -> Seq(Packet)]
    <3>1. Send(p, [type |-> answer, msg |-> call[1]])
      BY <2>1 DEF callbackDone
    <3> QED
      BY <2>3, <3>1, Sends
  <2>5. UNCHANGED <<brokerVars, up, toClient, sub, callback, processed>>
        /\ running' = [running EXCEPT ![p] = @ \ {call}]
    BY <2>1 DEF callbackDone
  <2>6. ClientTypes'
    BY <1>1, <2>5 DEF ClientTypes
  <2> QED
    BY <1>1, <1>3, <2>4, <2>5, <2>6 DEF QueueTypes, NetTypes
<1>7. ASSUME NEW p \in Client, NEW c \in Connection, Open(p, c) \/ Break(p, c) PROVE QueueTypes'
  <2>1. UNCHANGED brokerVars
    BY <1>7 DEF Open, Break
  <2>2. NetTypes'
    <3>1. up' \in [Connection -> {"new", "up", "down"}]
      BY <1>1, <1>7 DEF Open, Break, NetTypes
    <3>2. <<>> \in Seq(Packet)
      OBVIOUS
    <3>3. /\ UNCHANGED toBroker \/ toBroker' = [toBroker EXCEPT ![c] = <<>>]
          /\ UNCHANGED toClient \/ toClient' = [toClient EXCEPT ![c] = <<>>]
      BY <1>7 DEF Open, Break
    <3>4. toBroker' \in [Connection -> Seq(Packet)] /\ toClient' \in [Connection -> Seq(Packet)]
      BY <1>1, <3>2, <3>3 DEF NetTypes
    <3> QED
      BY <3>1, <3>4 DEF NetTypes
  <2>3. ClientTypes'
    <3>1. CASE Open(p, c)
      BY <1>4, <3>1 DEF Open
    <3>2. CASE Break(p, c)
      BY <1>1, <3>2 DEF Break, ClientTypes, SubState
    <3> QED
      BY <1>7, <3>1, <3>2
  <2> QED
    BY <1>3, <2>1, <2>2, <2>3 DEF QueueTypes
<1>8. ASSUME NEW k \in Sub, consume(k) \/ release(k) PROVE QueueTypes'
  <2>1. UNCHANGED <<brokerVars, up, toClient, callback, running, processed>>
    BY <1>8 DEF consume, release
  <2>2. ClientOf[k] \in Client
    BY BrokerQueueAssumption
  <2>3. toBroker' \in [Connection -> Seq(Packet)]
    <3>1. PICK packet \in Packet : Send(ClientOf[k], packet)
      BY <1>8, PacketKinds DEF consume, release
    <3> QED
      BY <2>2, <3>1, Sends
  <2>4. sub' \in [Sub -> SubState]
    BY <1>1, <1>8 DEF consume, release, ClientTypes, SubState
  <2> QED
    BY <1>1, <1>3, <2>1, <2>3, <2>4 DEF QueueTypes, NetTypes, ClientTypes
<1>9. ASSUME NEW m \in Message, queuePublish(m) PROVE QueueTypes'
  <2>1. toClient' \in [Connection -> Seq(Packet)]
    BY <1>9, Writes
  <2>2. UNCHANGED <<expired, up, toBroker, clientVars>>
    BY <1>9 DEF queuePublish
  <2>3. /\ consumers' \in Seq(Consumer)
        /\ \A i \in DOMAIN consumers' : OneMessage(consumers'[i].handling)
    BY <1>1, <1>9, Dispatched
  <2>4. tries' \in [Message -> Nat]
    <3>1. tries' = [tries EXCEPT ![m] = @ + Cardinality(Chosen)]
      BY <1>9 DEF queuePublish, Chosen, Tried
    <3>2. Cardinality(Chosen) \in Nat
      BY <1>1, ChosenAre
    <3> QED
      BY <1>1, <3>1, <3>2 DEF BrokerTypes
  <2>5. state' \in [Message -> Conditions]
    <3>1. \E s \in Conditions : state' = [state EXCEPT ![m] = s]
      BY <1>9 DEF queuePublish, StateWhenSent, Conditions
    <3> QED
      BY <1>1, <3>1 DEF BrokerTypes
  <2>6. hashes' \subseteq { HashOf[k] : k \in Message } \ {Nothing}
    <3>1. hashes' = hashes \cup ({HashOf[m]} \ {Nothing})
      BY <1>9 DEF queuePublish
    <3> QED
      BY <1>1, <3>1 DEF BrokerTypes
  <2>7. BrokerTypes'
    BY <1>1, <2>2, <2>3, <2>4, <2>5, <2>6 DEF BrokerTypes, OneMessage
  <2> QED
    BY <1>1, <1>4, <2>1, <2>2, <2>7 DEF QueueTypes, NetTypes
<1>10. ASSUME NEW m \in Message, queuePublishDuplicate(m) PROVE QueueTypes'
  <2>1. /\ state' = [state EXCEPT ![m] = "refused"]
        /\ UNCHANGED <<consumers, hashes, tries, expired, netVars, clientVars>>
    BY <1>10 DEF queuePublishDuplicate
  <2>2. BrokerTypes'
    BY <1>1, <2>1 DEF BrokerTypes, OneMessage, Conditions
  <2> QED
    BY <1>1, <1>4, <2>1, <2>2 DEF QueueTypes, NetTypes, netVars
<1>11. ASSUME NEW c \in Connection, queueSubscribe(c) \/ queueUnsubscribe(c) PROVE QueueTypes'
  <2>1. UNCHANGED <<hashes, state, tries, expired, up, clientVars>>
    BY <1>11 DEF queueSubscribe, queueUnsubscribe
  <2>2. PICK types : Take(c, types) /\ types \subseteq {"Subscribe", "Unsubscribe"}
    BY <1>11 DEF queueSubscribe, queueUnsubscribe
  <2>3. Respond(c, [type |-> "Ack", sub |-> Next1(c).sub])
    BY <1>11 DEF queueSubscribe, queueUnsubscribe
  <2>4. toBroker' \in [Connection -> Seq(Packet)] /\ Next1(c) \in Packet /\ Next1(c).type \in types
    BY <2>2, Takes
  <2>5. [type |-> "Ack", sub |-> Next1(c).sub] \in Packet
    BY <2>2, <2>4, PacketKinds DEF IsControl
  <2>6. toClient' \in [Connection -> Seq(Packet)]
    BY <2>3, <2>5, Responds
  <2>7. BrokerTypes'
    <3>1. CASE queueSubscribe(c)
      <4>1. consumers' = Append(consumers, [con |-> c, handling |-> {}])
        BY <3>1 DEF queueSubscribe
      <4> QED
        BY <1>1, <2>1, <4>1, NewConsumer, ConsumersChange
    <3>2. CASE queueUnsubscribe(c) /\ ConsumerOf(c) = 0
      <4>1. UNCHANGED consumers
        BY <3>2 DEF queueUnsubscribe
      <4> QED
        BY <1>3, <2>1, <4>1 DEF brokerVars
    <3>3. CASE queueUnsubscribe(c) /\ ConsumerOf(c) # 0
      <4>1. consumers' = Splice(ConsumerOf(c))
        BY <3>3 DEF queueUnsubscribe
      <4>2. ConsumerOf(c) \in DOMAIN consumers
        BY <1>1, <3>3, ConsumerFound
      <4>3. /\ consumers' \in Seq(Consumer)
            /\ \A i \in DOMAIN consumers' : OneMessage(consumers'[i].handling)
        BY <1>1, <4>1, <4>2, ConsumerLeaves
      <4> QED
        BY <1>1, <2>1, <4>3, ConsumersChange
    <3> QED
      BY <1>11, <3>1, <3>2, <3>3
  <2> QED
    BY <1>1, <1>4, <2>1, <2>4, <2>6, <2>7 DEF QueueTypes, NetTypes
<1>12. ASSUME NEW c \in Connection, queueMessageHandled(c) PROVE QueueTypes'
  <2> DEFINE i == ConsumerOf(c)
             m == Next1(c).msg
  <2>1. Take(c, {"Error", "Success", "Neither"})
        /\ UNCHANGED <<hashes, tries, expired, up, toClient, clientVars>>
    BY <1>12 DEF queueMessageHandled
  <2>2. /\ toBroker' \in [Connection -> Seq(Packet)]
        /\ Next1(c) \in Packet /\ Next1(c).type \in {"Error", "Success", "Neither"}
    BY <2>1, Takes
  <2>3. m \in Message
    BY <2>2, PacketKinds DEF IsAnswer
  <2>4. BrokerTypes'
    <3>1. CASE i # 0 /\ m \in consumers[i].handling
      <4>1. consumers' = FreeSlot(i, m)
        BY <1>12, <3>1 DEF queueMessageHandled
      <4>2. i \in DOMAIN consumers
        BY <1>1, <3>1, ConsumerFound
      <4> HIDE DEF i, m
      <4>3. /\ consumers' \in Seq(Consumer)
            /\ \A j \in DOMAIN consumers' : OneMessage(consumers'[j].handling)
        BY <1>1, <2>3, <4>1, <4>2, SlotFreed
      <4>4. \E s \in Conditions \cup {state[m]} : state' = [state EXCEPT ![m] = s]
        BY <1>12, <3>1 DEF queueMessageHandled, Conditions, i, m
      <4>5. state' \in [Message -> Conditions]
        BY <1>1, <2>3, <4>4 DEF BrokerTypes
      <4> QED
        BY <1>1, <2>1, <4>3, <4>5 DEF BrokerTypes, OneMessage
    <3>2. CASE ~(i # 0 /\ m \in consumers[i].handling)
      <4>1. UNCHANGED <<consumers, state>>
        BY <1>12, <3>2 DEF queueMessageHandled
      <4> QED
        BY <1>3, <2>1, <4>1 DEF brokerVars
    <3> QED
      BY <3>1, <3>2
  <2> QED
    BY <1>1, <1>4, <2>1, <2>2, <2>4 DEF QueueTypes, NetTypes
<1>13. ASSUME NEW h \in hashes, forgetHash(h) PROVE QueueTypes'
  <2>1. /\ hashes' = hashes \ {h}
        /\ expired' = expired \cup { m \in Message : HashOf[m] = h /\ state[m] \notin {"new", "refused"} }
        /\ UNCHANGED <<consumers, state, tries, netVars, clientVars>>
    BY <1>13 DEF forgetHash
  <2>2. BrokerTypes'
    BY <1>1, <2>1 DEF BrokerTypes, OneMessage
  <2> QED
    BY <1>1, <1>4, <2>1, <2>2 DEF QueueTypes, NetTypes, netVars
<1> QED
  BY <1>2, <1>5, <1>6, <1>7, <1>8, <1>9, <1>10, <1>11, <1>12, <1>13 DEF QueueNext, Handler

-----------------------------------------------------------------------------
(* The deduplication.                                                      *)

\* A consumer gets a message by being sent it.
LEMMA HandlingStep ==
    ASSUME QueueTypes, [QueueNext]_queueVars, NEW i \in DOMAIN consumers', NEW m \in consumers'[i].handling
    PROVE  \/ \E j \in DOMAIN consumers : consumers[j].con = consumers'[i].con /\ m \in consumers[j].handling
           \/ m \in Message /\ queuePublish(m) /\ i \in Chosen /\ consumers'[i].con = consumers[i].con
<1>1. BrokerTypes
  BY DEF QueueTypes
<1>2. CASE UNCHANGED consumers
  BY <1>2
<1>3. CASE \E c \in Connection : queueSubscribe(c)
  <2>1. PICK c \in Connection : consumers' = Append(consumers, [con |-> c, handling |-> {}])
    BY <1>3 DEF queueSubscribe
  <2>2. /\ Len(consumers) \in Nat /\ DOMAIN consumers = 1 .. Len(consumers)
        /\ DOMAIN consumers' = 1 .. Len(consumers) + 1
        /\ \A j \in DOMAIN consumers : consumers'[j] = consumers[j]
        /\ consumers'[Len(consumers) + 1] = [con |-> c, handling |-> {}]
    BY <1>1, <2>1, NewConsumer
  <2>3. i \in DOMAIN consumers
    BY <2>2
  <2> QED
    BY <2>2, <2>3
<1>4. CASE \E c \in Connection : queueUnsubscribe(c)
  <2>1. CASE UNCHANGED consumers
    BY <2>1
  <2>2. CASE ~UNCHANGED consumers
    <3>1. PICK c \in Connection : consumers' = Splice(ConsumerOf(c)) /\ ConsumerOf(c) # 0
      BY <1>4, <2>2 DEF queueUnsubscribe
    <3>2. PICK k \in DOMAIN consumers : k = ConsumerOf(c)
      BY <1>1, <3>1, ConsumerFound
    <3>3. /\ Len(consumers) \in Nat /\ DOMAIN consumers = 1 .. Len(consumers)
          /\ DOMAIN consumers' = 1 .. Len(consumers) - 1
          /\ \A j \in DOMAIN consumers' :
               consumers'[j] = IF j < k THEN consumers[j] ELSE consumers[j + 1]
      BY <1>1, <3>1, <3>2, ConsumerLeaves
    <3> QED
      BY <3>3
  <2> QED
    BY <2>1, <2>2
<1>5. CASE \E c \in Connection : queueMessageHandled(c)
  <2>1. CASE UNCHANGED consumers
    BY <2>1
  <2>2. CASE ~UNCHANGED consumers
    <3>1. PICK c \in Connection : queueMessageHandled(c)
      BY <1>5
    <3>2. /\ ConsumerOf(c) # 0 /\ consumers' = FreeSlot(ConsumerOf(c), Next1(c).msg)
          /\ Take(c, {"Error", "Success", "Neither"})
      BY <2>2, <3>1 DEF queueMessageHandled
    <3>3. PICK n \in Message : n = Next1(c).msg
      <4>1. Next1(c) \in Packet /\ Next1(c).type \in {"Error", "Success", "Neither"}
        BY <3>2, Takes
      <4> QED
        BY <4>1, PacketKinds DEF IsAnswer
    <3>4. PICK k \in DOMAIN consumers : k = ConsumerOf(c)
      BY <1>1, <3>2, ConsumerFound
    <3>5. consumers' = FreeSlot(k, n)
      BY <3>2, <3>3, <3>4
    <3>6. /\ DOMAIN consumers' = DOMAIN consumers
          /\ \A j \in DOMAIN consumers : consumers'[j].con = consumers[j].con
          /\ \A j \in DOMAIN consumers :
               consumers'[j].handling = IF j = k THEN consumers[j].handling \ {n} ELSE consumers[j].handling
      BY <1>1, <3>5, SlotFreed
    <3> QED
      BY <3>6
  <2> QED
    BY <2>1, <2>2
<1>6. CASE \E n \in Message : queuePublish(n)
  <2>1. PICK n \in Message : queuePublish(n)
    BY <1>6
  <2>2. /\ DOMAIN consumers' = DOMAIN consumers
        /\ \A j \in DOMAIN consumers : consumers'[j].con = consumers[j].con
        /\ \A j \in DOMAIN consumers :
             consumers'[j].handling = IF j \in Chosen THEN {n} ELSE consumers[j].handling
    BY <1>1, <2>1, Dispatched
  <2> QED
    BY <2>1, <2>2
<1>7. \/ UNCHANGED consumers
      \/ \E c \in Connection : queueSubscribe(c) \/ queueUnsubscribe(c) \/ queueMessageHandled(c)
      \/ \E n \in Message : queuePublish(n)
  BY LeavesAlone DEF QueueNext, Handler
<1> QED
  BY <1>2, <1>3, <1>4, <1>5, <1>6, <1>7

\* The state of a message.
LEMMA StateStep ==
    ASSUME QueueTypes, [QueueNext]_queueVars, NEW m \in Message
    PROVE  \/ state'[m] = state[m]
           \/ queuePublish(m)
           \/ state[m] = "new" /\ state'[m] = "refused"
           \/ \E c \in Connection :
                /\ queueMessageHandled(c) /\ Next1(c).msg = m
                /\ \E i \in DOMAIN consumers : m \in consumers[i].handling
                /\ state'[m] \in {"error", "done"}
<1>1. BrokerTypes /\ state \in [Message -> Conditions]
  BY DEF QueueTypes, BrokerTypes
<1>2. CASE UNCHANGED state
  BY <1>2
<1>3. ASSUME NEW n \in Message, queuePublish(n)
      PROVE  state'[m] = state[m] \/ queuePublish(m)
  <2>1. PICK s : state' = [state EXCEPT ![n] = s]
    BY <1>3 DEF queuePublish
  <2>2. n # m => state'[m] = state[m]
    BY <1>1, <2>1
  <2> QED
    BY <1>3, <2>2
<1>4. ASSUME NEW n \in Message, queuePublishDuplicate(n)
      PROVE  state'[m] = state[m] \/ (state[m] = "new" /\ state'[m] = "refused")
  BY <1>1, <1>4 DEF queuePublishDuplicate
<1>5. ASSUME NEW c \in Connection, queueMessageHandled(c), state'[m] # state[m]
      PROVE  /\ Next1(c).msg = m
             /\ \E i \in DOMAIN consumers : m \in consumers[i].handling
             /\ state'[m] \in {"error", "done"}
  <2> DEFINE i == ConsumerOf(c)
             n == Next1(c).msg
  <2>1. /\ i # 0 /\ n \in consumers[i].handling
        /\ state' = [state EXCEPT ![n] = CASE Next1(c).type = "Error" -> "error"
                                           [] Next1(c).type = "Success" -> "done"
                                           [] OTHER -> @]
    BY <1>5 DEF queueMessageHandled
  <2>2. i \in DOMAIN consumers
    BY <1>1, <2>1, ConsumerFound
  <2> HIDE DEF i, n
  <2>3. m = n
    BY <1>1, <1>5, <2>1
  <2>4. state'[m] = CASE Next1(c).type = "Error" -> "error"
                      [] Next1(c).type = "Success" -> "done"
                      [] OTHER -> state[m]
    BY <1>1, <2>1, <2>3
  <2>5. state'[m] \in {"error", "done"}
    BY <1>5, <2>4
  <2> QED
    BY <2>1, <2>2, <2>3, <2>5 DEF n
<1>6. \/ UNCHANGED state
      \/ \E c \in Connection : queueMessageHandled(c)
      \/ \E n \in Message : queuePublish(n) \/ queuePublishDuplicate(n)
  BY LeavesAlone DEF QueueNext, Handler
<1> QED
  BY <1>2, <1>3, <1>4, <1>5, <1>6

\* The hash of an accepted message is known until its interval ends, and what a
\* consumer has was accepted.
HashesKept ==
  /\ Deduplicated
  /\ \A m \in Message : Accepted(m) /\ HashOf[m] # Nothing => HashOf[m] \in hashes \/ m \in expired
  /\ \A i \in DOMAIN consumers : \A m \in consumers[i].handling : Accepted(m)

\* The hashes are kept at first, and (HashesStep) by every step.
LEMMA HashesInit == QueueInit => HashesKept
  BY DEF QueueInit, HashesKept, Deduplicated, Accepted

\* queuePublish() adds the hash of what it accepts; only its timer takes it away.
LEMMA HashesStep == QueueTypes /\ HashesKept /\ [QueueNext]_queueVars => HashesKept'
<1> SUFFICES ASSUME QueueTypes, HashesKept, [QueueNext]_queueVars PROVE HashesKept'
  OBVIOUS
<1>1. BrokerTypes
  BY DEF QueueTypes
<1>2. ASSUME NEW m \in Message
      PROVE  Accepted(m) => Accepted(m)'
  <2>1. ~queuePublish(m) \/ ~Accepted(m)
    BY DEF queuePublish, Accepted
  <2> QED
    BY <2>1, StateStep DEF Accepted
<1>3. ASSUME NEW m \in Message
      PROVE  Accepted(m)' => Accepted(m) \/ queuePublish(m)
  <2>1. ASSUME NEW i \in DOMAIN consumers, m \in consumers[i].handling PROVE Accepted(m)
    BY <2>1 DEF HashesKept
  <2> QED
    BY <2>1, StateStep DEF Accepted
<1>4. ASSUME NEW m \in Message, queuePublish(m)
      PROVE  /\ Accepted(m)' /\ hashes' = hashes \cup ({HashOf[m]} \ {Nothing})
             /\ HashOf[m] # Nothing => HashOf[m] \notin hashes
             /\ UNCHANGED expired
  BY <1>1, <1>4 DEF queuePublish, Accepted, BrokerTypes, StateWhenSent, Duplicate
<1>5. expired \subseteq expired'
  BY LeavesAlone DEF QueueNext, Handler
<1>6. ASSUME NEW m \in Message, Accepted(m), HashOf[m] # Nothing
      PROVE  HashOf[m] \in hashes' \/ m \in expired'
  <2>1. HashOf[m] \in hashes \/ m \in expired
    BY <1>6 DEF HashesKept
  <2>2. CASE hashes \subseteq hashes'
    BY <1>5, <2>1, <2>2
  <2>3. ASSUME NEW h \in hashes, forgetHash(h)
        PROVE  HashOf[m] \in hashes' \/ m \in expired'
    BY <1>5, <1>6, <2>1, <2>3 DEF forgetHash, Accepted
  <2>4. hashes \subseteq hashes' \/ \E h \in hashes : forgetHash(h)
    BY LeavesAlone DEF QueueNext, Handler
  <2> QED
    BY <2>2, <2>3, <2>4
<1>7. ASSUME NEW m \in Message, Accepted(m)', HashOf[m] # Nothing
      PROVE  HashOf[m] \in hashes' \/ m \in expired'
  BY <1>3, <1>4, <1>6, <1>7
<1>8. ASSUME NEW m \in Message, NEW n \in Message, m # n, HashOf[m] = HashOf[n], HashOf[m] # Nothing,
             Accepted(m)', Accepted(n)'
      PROVE  m \in expired' \/ n \in expired'
  <2>1. CASE Accepted(m) /\ Accepted(n)
    BY <1>5, <1>8, <2>1 DEF HashesKept, Deduplicated
  <2>2. ASSUME NEW x \in Message, NEW y \in Message, Accepted(x), queuePublish(y), HashOf[x] = HashOf[y],
               HashOf[x] # Nothing
        PROVE  x \in expired'
    BY <1>4, <1>5, <2>2 DEF HashesKept
  <2>3. queuePublish(m) /\ queuePublish(n) => m = n
    <3> SUFFICES ASSUME queuePublish(m), queuePublish(n), m # n PROVE FALSE
      OBVIOUS
    <3>1. Accepted(n)' /\ state[n] = "new" /\ state \in [Message -> Conditions]
      BY <1>1, <1>4 DEF queuePublish, BrokerTypes
    <3>2. state'[n] = state[n]
      BY <3>1 DEF queuePublish
    <3> QED
      BY <3>1, <3>2 DEF Accepted
  <2> QED
    BY <1>3, <1>8, <2>1, <2>2, <2>3
<1>9. ASSUME NEW i \in DOMAIN consumers', NEW m \in consumers'[i].handling
      PROVE  Accepted(m)'
  <2>1. CASE \E j \in DOMAIN consumers : m \in consumers[j].handling
    <3>1. PICK j \in DOMAIN consumers : m \in consumers[j].handling
      BY <2>1
    <3>2. consumers[j] \in Consumer
      BY <1>1 DEF BrokerTypes
    <3>3. m \in Message /\ Accepted(m)
      BY <3>1, <3>2 DEF HashesKept, Consumer
    <3> QED
      BY <1>2, <3>3
  <2>2. CASE m \in Message /\ queuePublish(m)
    BY <1>4, <2>2
  <2> QED
    BY <2>1, <2>2, HandlingStep
<1> QED
  BY <1>7, <1>8, <1>9 DEF HashesKept, Deduplicated

\* Of two accepted messages of one hash, one was accepted after the interval of the
\* other, for any messages and hashes (kernel.ts queuePublish and utils.ts
\* handleMessageDeduplication).
THEOREM NoDuplicates == QueueSpec => []Deduplicated
<1>1. QueueInit => QueueTypes /\ HashesKept
  BY TypesInit, HashesInit
<1>2. QueueTypes /\ HashesKept /\ [QueueNext]_queueVars => QueueTypes' /\ HashesKept'
  BY TypesStep, HashesStep
<1>3. HashesKept => Deduplicated
  BY DEF HashesKept
<1> QED
  BY <1>1, <1>2, <1>3, PTL DEF QueueSpec

-----------------------------------------------------------------------------
(* The messages on the way to the clients.                                 *)

\* A message stands at a place of the channel to a client.
HandleAt(c, i) == i \in DOMAIN toClient[c] /\ IsHandle(toClient[c][i])

\* Where a message is under way.
Way(m) == { t \in Connection \X Nat : HandleAt(t[1], t[2]) /\ toClient[t[1]][t[2]].msg = m }

\* No message is written but by queuePublish(), and none is taken but by its client.
LEMMA HandlesElse ==
    ASSUME QueueTypes, [QueueNext]_queueVars,
           \A m \in Message : ~queuePublish(m), \A p \in Client : ~Deliver(p),
           NEW c \in Connection, NEW i, HandleAt(c, i)'
    PROVE  HandleAt(c, i) /\ toClient'[c][i] = toClient[c][i]
<1>1. CASE UNCHANGED toClient
  BY <1>1 DEF HandleAt
<1>2. CASE \E d \in Connection : queueSubscribe(d) \/ queueUnsubscribe(d)
  <2>1. PICK d \in Connection : queueSubscribe(d) \/ queueUnsubscribe(d)
    BY <1>2
  <2>2. /\ Respond(d, [type |-> "Ack", sub |-> Next1(d).sub])
        /\ Take(d, {"Subscribe"}) \/ Take(d, {"Unsubscribe"})
    BY <2>1 DEF queueSubscribe, queueUnsubscribe
  <2>3. Next1(d) \in Packet /\ Next1(d).type \in {"Subscribe", "Unsubscribe"}
    BY <2>2, Takes
  <2>4. PICK ack \in Packet : ack = [type |-> "Ack", sub |-> Next1(d).sub]
    BY <2>3, PacketKinds DEF IsControl
  <2>5. toClient' = [toClient EXCEPT ![d] = Append(@, ack)]
    BY <2>2, <2>4, Responds
  <2>6. PICK seq \in Seq(Packet) : seq = toClient[d]
    BY DEF QueueTypes, NetTypes
  <2>7. /\ Len(seq) \in Nat
        /\ DOMAIN Append(seq, ack) = 1 .. Len(seq) + 1 /\ DOMAIN seq = 1 .. Len(seq)
        /\ \A j \in 1 .. Len(seq) : Append(seq, ack)[j] = seq[j]
        /\ Append(seq, ack)[Len(seq) + 1] = ack
    BY Pushed
  <2>8. CASE c # d
    <3>1. toClient'[c] = toClient[c]
      BY <2>5, <2>8
    <3> QED
      BY <3>1 DEF HandleAt
  <2>9. CASE c = d
    <3>1. toClient'[c] = Append(seq, ack)
      BY <2>5, <2>6, <2>9 DEF QueueTypes, NetTypes
    <3>2. i \in 1 .. Len(seq) + 1 /\ IsHandle(Append(seq, ack)[i])
      BY <2>7, <3>1 DEF HandleAt
    <3>3. i # Len(seq) + 1
      BY <2>4, <2>7, <3>2 DEF IsHandle
    <3>4. i \in 1 .. Len(seq)
      BY <2>7, <3>2, <3>3
    <3> QED
      BY <2>6, <2>7, <2>9, <3>1, <3>2, <3>4 DEF HandleAt
  <2> QED
    BY <2>8, <2>9
<1>3. CASE \E p \in Client, d \in Connection : Break(p, d)
  <2>1. PICK d \in Connection : toClient' = [toClient EXCEPT ![d] = <<>>]
    BY <1>3 DEF Break
  <2>2. toClient \in [Connection -> Seq(Packet)]
    BY DEF QueueTypes, NetTypes
  <2>3. c # d
    BY <2>1, <2>2 DEF HandleAt
  <2>4. toClient'[c] = toClient[c]
    BY <2>1, <2>3
  <2> QED
    BY <2>4 DEF HandleAt
<1>4. \/ UNCHANGED toClient
      \/ \E d \in Connection : queueSubscribe(d) \/ queueUnsubscribe(d)
      \/ \E p \in Client, d \in Connection : Break(p, d)
  BY LeavesAlone DEF QueueNext, Handler
<1> QED
  BY <1>1, <1>2, <1>3, <1>4

\* A published message is sent to no more places than there are consumers chosen.
LEMMA WayPublished ==
    ASSUME QueueTypes, NEW m \in Message, queuePublish(m), NEW n \in Message, IsFiniteSet(Way(n))
    PROVE  /\ IsFiniteSet(Way(n)')
           /\ Cardinality(Way(n)') <= Cardinality(Way(n)) + (IF n = m THEN Cardinality(Chosen) ELSE 0)
<1>1. /\ \A c \in Connection : up[c] # "up" => toClient'[c] = toClient[c]
      /\ \A c \in Connection : up[c] = "up" =>
                LET l == Len(toClient[c])
                    k == Cardinality(ChosenOn(c))
                IN  /\ l \in Nat /\ k \in Nat
                    /\ DOMAIN toClient'[c] = 1 .. l + k /\ DOMAIN toClient[c] = 1 .. l
                    /\ \A i \in 1 .. l : toClient'[c][i] = toClient[c][i]
                    /\ \A i \in l + 1 .. l + k : toClient'[c][i] = [type |-> "Handle", msg |-> m]
  BY Writes
<1>2. /\ IsFiniteSet(Chosen) /\ Cardinality(Chosen) \in Nat
      /\ \A c : IsFiniteSet(ChosenOn(c))
  BY ChosenAre DEF QueueTypes
<1>3. PICK g : \A c \in Connection : Numbers(g[c], ChosenOn(c))
  <2>1. PICK F : F = [c \in Connection |-> ChosenOn(c)]
    OBVIOUS
  <2>2. \A c \in Connection : F[c] = ChosenOn(c) /\ IsFiniteSet(F[c])
    BY <1>2, <2>1
  <2>3. \E g : \A c \in Connection : Numbers(g[c], F[c])
    BY <2>2, Numbered
  <2> QED
    BY <2>2, <2>3
<1> DEFINE New == Way(n)' \ Way(n)
<1>4. ASSUME NEW t \in New
      PROVE  /\ n = m /\ t[1] \in Connection /\ t = <<t[1], t[2]>>
             /\ Len(toClient[t[1]]) \in Nat /\ t[2] \in Nat
             /\ t[2] - Len(toClient[t[1]]) \in 1 .. Cardinality(ChosenOn(t[1]))
  <2>1. /\ t \in Connection \X Nat
        /\ t[2] \in DOMAIN toClient'[t[1]] /\ IsHandle(toClient'[t[1]][t[2]])
        /\ toClient'[t[1]][t[2]].msg = n
    BY <1>4 DEF Way, HandleAt
  <2>2. ~(t[2] \in DOMAIN toClient[t[1]] /\ toClient[t[1]][t[2]] = toClient'[t[1]][t[2]])
    BY <1>4, <2>1 DEF Way, HandleAt
  <2>3. PICK c \in Connection, i \in Nat : t = <<c, i>>
    BY <2>1
  <2>4. up[c] = "up"
    BY <1>1, <2>1, <2>2, <2>3
  <2>5. i \in Len(toClient[c]) + 1 .. Len(toClient[c]) + Cardinality(ChosenOn(c))
    BY <1>1, <2>1, <2>2, <2>3, <2>4
  <2>6. toClient'[c][i] = [type |-> "Handle", msg |-> m] /\ Len(toClient[c]) \in Nat
        /\ Cardinality(ChosenOn(c)) \in Nat
    BY <1>1, <2>4, <2>5
  <2>7. n = m
    BY <2>1, <2>3, <2>6
  <2> QED
    BY <2>3, <2>5, <2>6, <2>7
<1>5. IsFiniteSet(New) /\ Cardinality(New) <= Cardinality(Chosen)
  <2> DEFINE f == [t \in New |-> g[t[1]][t[2] - Len(toClient[t[1]])]]
  <2>1. ASSUME NEW t \in New
        PROVE  f[t] \in Chosen /\ f[t] \in ChosenOn(t[1]) /\ consumers[f[t]].con = t[1]
    BY <1>3, <1>4, <2>1 DEF ChosenOn, Numbers
  <2>2. f \in [New -> Chosen]
    BY <2>1
  <2>3. ASSUME NEW s \in New, NEW t \in New, f[s] = f[t]
        PROVE  s = t
    <3>1. s[1] = t[1]
      BY <2>1, <2>3
    <3>2. g[s[1]][s[2] - Len(toClient[s[1]])] = g[s[1]][t[2] - Len(toClient[s[1]])]
      BY <2>3, <3>1
    <3>3. /\ s[2] - Len(toClient[s[1]]) \in 1 .. Cardinality(ChosenOn(s[1]))
          /\ t[2] - Len(toClient[s[1]]) \in 1 .. Cardinality(ChosenOn(s[1]))
      BY <1>4, <3>1
    <3>4. s[2] - Len(toClient[s[1]]) = t[2] - Len(toClient[s[1]])
      BY <1>3, <1>4, <3>2, <3>3 DEF Numbers
    <3> QED
      BY <1>4, <3>1, <3>4
  <2> QED
    BY <1>2, <2>2, <2>3, NotMore
<1>6. Cardinality(Way(n)) \in Nat /\ Cardinality(New) \in Nat
  BY <1>5, FS_CardinalityType
<1>7. CASE n = m
  <2>1. Way(n)' \subseteq Way(n) \cup New
    OBVIOUS
  <2>2. /\ IsFiniteSet(Way(n) \cup New)
        /\ Cardinality(Way(n) \cup New) = Cardinality(Way(n)) + Cardinality(New) - Cardinality(Way(n) \cap New)
    BY <1>5, FS_Union
  <2>3. Cardinality(Way(n) \cap New) = 0
    <3>1. Way(n) \cap New = {}
      OBVIOUS
    <3> HIDE DEF New
    <3> QED
      BY <3>1, FS_EmptySet
  <2>4. Cardinality(Way(n) \cup New) = Cardinality(Way(n)) + Cardinality(New)
    <3> HIDE DEF New
    <3> QED
      BY <1>6, <2>2, <2>3
  <2>5. IsFiniteSet(Way(n)') /\ Cardinality(Way(n)') <= Cardinality(Way(n) \cup New)
    BY <2>1, <2>2, FS_Subset
  <2>6. Cardinality(Way(n)') \in Nat
    BY <2>5, FS_CardinalityType
  <2> QED
    BY <1>2, <1>5, <1>6, <1>7, <2>4, <2>5, <2>6
<1>8. CASE n # m
  <2>1. Way(n)' \subseteq Way(n)
    BY <1>4, <1>8
  <2>2. IsFiniteSet(Way(n)') /\ Cardinality(Way(n)') <= Cardinality(Way(n))
    BY <2>1, FS_Subset
  <2> QED
    BY <1>6, <1>8, <2>2
<1> QED
  BY <1>7, <1>8

\* What a client takes is not on the way any more.
LEMMA WayReceived ==
    ASSUME QueueTypes, NEW p \in Client, NEW c \in Connection, NEW n \in 1 .. Len(toClient[c]),
           Receive(p, c, n), NEW m \in Message, IsFiniteSet(Way(m))
    PROVE  /\ IsFiniteSet(Way(m)')
           /\ Cardinality(Way(m)') + Cardinality(Given(c, n, m)) <= Cardinality(Way(m))
<1>1. /\ \A d \in Connection \ {c} : toClient'[d] = toClient[d]
      /\ Len(toClient[c]) \in Nat /\ DOMAIN toClient[c] = 1 .. Len(toClient[c])
      /\ DOMAIN toClient'[c] = 1 .. Len(toClient[c]) - n
      /\ \A i \in DOMAIN toClient'[c] : toClient'[c][i] = toClient[c][i + n]
      /\ IsFiniteSet(Given(c, n, m)) /\ Cardinality(Given(c, n, m)) \in Nat
  BY Receives
<1> DEFINE Taken == { t \in Way(m) : t[1] = c /\ t[2] \in 1 .. n }
           Left == Way(m) \ Taken
<1>2. Taken \subseteq Way(m) /\ IsFiniteSet(Taken)
  BY FS_Subset
<1>3. Cardinality(Given(c, n, m)) <= Cardinality(Taken)
  <2> DEFINE f == [i \in Given(c, n, m) |-> <<c, i>>]
  <2>1. ASSUME NEW i \in Given(c, n, m) PROVE <<c, i>> \in Taken
    <3>1. i \in 1 .. n /\ i \in DOMAIN toClient[c] /\ i \in Nat
      BY <1>1, <2>1 DEF Given
    <3> QED
      BY <2>1, <3>1 DEF Given, Way, HandleAt, IsHandle
  <2>2. f \in [Given(c, n, m) -> Taken]
    BY <2>1
  <2>3. \A i, j \in Given(c, n, m) : f[i] = f[j] => i = j
    OBVIOUS
  <2> HIDE DEF f, Taken
  <2> QED
    BY <1>2, <2>2, <2>3, NotMore
<1>4. IsFiniteSet(Left) /\ Cardinality(Left) = Cardinality(Way(m)) - Cardinality(Taken)
  <2>1. /\ IsFiniteSet(Way(m) \ Taken)
        /\ Cardinality(Way(m) \ Taken) = Cardinality(Way(m)) - Cardinality(Way(m) \cap Taken)
    BY FS_Difference
  <2>2. Way(m) \cap Taken = Taken
    BY <1>2
  <2> QED
    BY <2>1, <2>2
<1>5. IsFiniteSet(Way(m)') /\ Cardinality(Way(m)') <= Cardinality(Left)
  <2> DEFINE f == [t \in Way(m)' |-> IF t[1] = c THEN <<c, t[2] + n>> ELSE t]
  <2>1. ASSUME NEW t \in Way(m)'
        PROVE  /\ t[1] \in Connection /\ t[2] \in Nat /\ t = <<t[1], t[2]>>
               /\ f[t] \in Left
    <3>1. /\ t \in Connection \X Nat
          /\ t[2] \in DOMAIN toClient'[t[1]] /\ IsHandle(toClient'[t[1]][t[2]])
          /\ toClient'[t[1]][t[2]].msg = m
      BY <2>1 DEF Way, HandleAt
    <3>2. PICK d \in Connection, i \in Nat : t = <<d, i>>
      BY <3>1
    <3>3. CASE d # c
      <4>1. t \in Way(m) /\ t \notin Taken
        BY <1>1, <3>1, <3>2, <3>3 DEF Way, HandleAt
      <4> QED
        BY <3>2, <3>3, <4>1
    <3>4. CASE d = c
      <4>1. i + n \in DOMAIN toClient[c] /\ i + n \in Nat /\ i + n \notin 1 .. n
            /\ toClient'[c][i] = toClient[c][i + n]
        BY <1>1, <3>1, <3>2, <3>4
      <4>2. <<c, i + n>> \in Way(m)
        BY <3>1, <3>2, <3>4, <4>1 DEF Way, HandleAt
      <4>3. f[t] = <<c, i + n>>
        BY <3>2, <3>4
      <4> QED
        BY <3>2, <4>1, <4>2, <4>3
    <3> QED
      BY <3>3, <3>4
  <2>2. f \in [Way(m)' -> Left]
    <3>1. \A t \in Way(m)' : f[t] \in Left
      BY <2>1
    <3>2. f = [t \in Way(m)' |-> f[t]]
      OBVIOUS
    <3> QED
      BY <3>1, <3>2
  <2>3. ASSUME NEW s \in Way(m)', NEW t \in Way(m)', f[s] = f[t]
        PROVE  s = t
    <3>1. f[s] = (IF s[1] = c THEN <<c, s[2] + n>> ELSE s) /\ f[t] = (IF t[1] = c THEN <<c, t[2] + n>> ELSE t)
      OBVIOUS
    <3> HIDE DEF f
    <3>2. /\ s = <<s[1], s[2]>> /\ t = <<t[1], t[2]>> /\ s[2] \in Nat /\ t[2] \in Nat
          /\ n \in Nat
      BY <1>1, <2>1
    <3>3. (IF s[1] = c THEN <<c, s[2] + n>> ELSE s) = (IF t[1] = c THEN <<c, t[2] + n>> ELSE t)
      BY <2>3, <3>1
    <3>4. CASE s[1] = c /\ t[1] = c
      <4>1. s[2] + n = t[2] + n
        BY <3>3, <3>4
      <4> QED
        BY <3>2, <3>4, <4>1
    <3>5. CASE s[1] = c /\ t[1] # c
      <4>1. t = <<c, s[2] + n>>
        BY <3>3, <3>5
      <4> QED
        BY <3>5, <4>1
    <3>6. CASE s[1] # c /\ t[1] = c
      <4>1. s = <<c, t[2] + n>>
        BY <3>3, <3>6
      <4> QED
        BY <3>6, <4>1
    <3>7. CASE s[1] # c /\ t[1] # c
      BY <3>3, <3>7
    <3> QED
      BY <3>4, <3>5, <3>6, <3>7
  <2> HIDE DEF f, Left
  <2> QED
    BY <1>4, <2>2, <2>3, NotMore
<1>6. Cardinality(Way(m)) \in Nat /\ Cardinality(Taken) \in Nat /\ Cardinality(Way(m)') \in Nat
  BY <1>2, <1>5, FS_CardinalityType
<1> HIDE DEF Taken, Left
<1> QED
  BY <1>1, <1>3, <1>4, <1>5, <1>6

\* No more calls of a callback and messages under way than tries; who is answered
\* for has been processed.
CallsCounted ==
  /\ \A m \in Message : IsFiniteSet(Way(m)) /\ Cardinality(Way(m)) + processed[m] <= tries[m]
  /\ \A p \in Client : \A call \in running[p] : call[2] <= processed[call[1]]
  /\ \A c \in Connection : \A i \in DOMAIN toBroker[c] :
       IsAnswer(toBroker[c][i]) => processed[toBroker[c][i].msg] > 0
  /\ \A m \in Message : state[m] \in {"done", "error"} => processed[m] > 0

\* Nothing is on its way, and nothing was tried.
LEMMA CountedInit == QueueInit => CallsCounted
<1> SUFFICES ASSUME QueueInit PROVE CallsCounted
  OBVIOUS
<1>1. ASSUME NEW m \in Message
      PROVE  IsFiniteSet(Way(m)) /\ Cardinality(Way(m)) + processed[m] <= tries[m]
  <2>1. Way(m) = {}
    BY DEF Way, HandleAt, QueueInit
  <2>2. IsFiniteSet(Way(m)) /\ Cardinality(Way(m)) = 0
    BY <2>1, FS_EmptySet
  <2> QED
    BY <2>2 DEF QueueInit
<1> QED
  BY <1>1 DEF CallsCounted, QueueInit

\* What is on the way to the broker was there before, or is sent by a client.
LEMMA RequestStep ==
    ASSUME QueueTypes, [QueueNext]_queueVars, NEW c \in Connection, NEW i \in DOMAIN toBroker'[c]
    PROVE  \/ \E j \in DOMAIN toBroker[c] : toBroker[c][j] = toBroker'[c][i]
           \/ \E p \in Client : \E call \in running[p] : \E answer \in {"Error", "Success", "Neither"} :
                callbackDone(p, call, answer) /\ toBroker'[c][i] = [type |-> answer, msg |-> call[1]]
           \/ \E k \in Sub : consume(k) /\ toBroker'[c][i] = [type |-> "Subscribe", sub |-> k]
           \/ \E k \in Sub : release(k) /\ toBroker'[c][i] = [type |-> "Unsubscribe", sub |-> k]
<1>1. toBroker \in [Connection -> Seq(Packet)]
  BY DEF QueueTypes, NetTypes
<1>2. CASE UNCHANGED toBroker
  BY <1>2
<1>3. ASSUME NEW p \in Client, NEW packet \in Packet, Send(p, packet)
      PROVE  (\E j \in DOMAIN toBroker[c] : toBroker[c][j] = toBroker'[c][i]) \/ toBroker'[c][i] = packet
  <2>1. PICK d \in Connection : toBroker' = [toBroker EXCEPT ![d] = Append(@, packet)]
    BY <1>3, Sends
  <2>2. CASE c # d
    <3>1. toBroker'[c] = toBroker[c]
      BY <2>1, <2>2
    <3> QED
      BY <3>1
  <2>3. CASE c = d
    <3>1. PICK seq \in Seq(Packet) : seq = toBroker[c]
      BY <1>1
    <3>2. toBroker'[c] = Append(seq, packet)
      BY <1>1, <2>1, <2>3, <3>1
    <3>3. /\ DOMAIN Append(seq, packet) = 1 .. Len(seq) + 1 /\ DOMAIN seq = 1 .. Len(seq) /\ Len(seq) \in Nat
          /\ \A j \in 1 .. Len(seq) : Append(seq, packet)[j] = seq[j]
          /\ Append(seq, packet)[Len(seq) + 1] = packet
      BY Pushed
    <3>4. i \in 1 .. Len(seq) \/ i = Len(seq) + 1
      BY <3>2, <3>3
    <3> QED
      BY <3>1, <3>2, <3>3, <3>4
  <2> QED
    BY <2>2, <2>3
<1>4. ASSUME NEW p \in Client, Finish(p)
      PROVE  \/ \E j \in DOMAIN toBroker[c] : toBroker[c][j] = toBroker'[c][i]
             \/ \E call \in running[p] : \E answer \in {"Error", "Success", "Neither"} :
                  callbackDone(p, call, answer) /\ toBroker'[c][i] = [type |-> answer, msg |-> call[1]]
  <2>1. PICK call \in running[p], answer \in {"Error", "Success", "Neither"} :
          callbackDone(p, call, answer)
    BY <1>4 DEF Finish
  <2>2. call[1] \in Message
    BY DEF QueueTypes, ClientTypes, Calls
  <2>3. [type |-> answer, msg |-> call[1]] \in Packet
    BY <2>2, PacketKinds
  <2>4. Send(p, [type |-> answer, msg |-> call[1]])
    BY <2>1 DEF callbackDone
  <2> QED
    BY <1>3, <2>1, <2>3, <2>4
<1>5. ASSUME NEW k \in Sub, consume(k)
      PROVE  \/ \E j \in DOMAIN toBroker[c] : toBroker[c][j] = toBroker'[c][i]
             \/ toBroker'[c][i] = [type |-> "Subscribe", sub |-> k]
  <2>1. ClientOf[k] \in Client /\ [type |-> "Subscribe", sub |-> k] \in Packet
    BY BrokerQueueAssumption, PacketKinds
  <2>2. Send(ClientOf[k], [type |-> "Subscribe", sub |-> k])
    BY <1>5 DEF consume
  <2> QED
    BY <1>3, <2>1, <2>2
<1>6. ASSUME NEW k \in Sub, release(k)
      PROVE  \/ \E j \in DOMAIN toBroker[c] : toBroker[c][j] = toBroker'[c][i]
             \/ toBroker'[c][i] = [type |-> "Unsubscribe", sub |-> k]
  <2>1. ClientOf[k] \in Client /\ [type |-> "Unsubscribe", sub |-> k] \in Packet
    BY BrokerQueueAssumption, PacketKinds
  <2>2. Send(ClientOf[k], [type |-> "Unsubscribe", sub |-> k])
    BY <1>6 DEF release
  <2> QED
    BY <1>3, <2>1, <2>2
<1>7. ASSUME NEW d \in Connection, Handler(d)
      PROVE  \E j \in DOMAIN toBroker[c] : toBroker[c][j] = toBroker'[c][i]
  <2>1. PICK types : Take(d, types)
    BY <1>7 DEF Handler, queueSubscribe, queueUnsubscribe, queueMessageHandled
  <2>2. toBroker' = [toBroker EXCEPT ![d] = Tail(@)] /\ toBroker[d] # <<>>
    BY <2>1, Takes
  <2>3. CASE c # d
    <3>1. toBroker'[c] = toBroker[c]
      BY <2>2, <2>3
    <3> QED
      BY <3>1
  <2>4. CASE c = d
    <3>1. PICK seq \in Seq(Packet) : seq = toBroker[c] /\ seq # <<>>
      BY <1>1, <2>2, <2>4
    <3>2. toBroker'[c] = Tail(seq)
      BY <1>1, <2>2, <2>4, <3>1
    <3>3. /\ DOMAIN Tail(seq) = 1 .. Len(seq) - 1 /\ DOMAIN seq = 1 .. Len(seq) /\ Len(seq) \in Nat
          /\ \A j \in 1 .. Len(seq) - 1 : Tail(seq)[j] = seq[j + 1]
      BY <3>1, Pulled
    <3>4. i + 1 \in DOMAIN seq /\ toBroker'[c][i] = seq[i + 1]
      BY <3>2, <3>3
    <3> QED
      BY <3>1, <3>4
  <2> QED
    BY <2>3, <2>4
<1>8. ASSUME NEW p \in Client, NEW d \in Connection, Break(p, d)
      PROVE  \E j \in DOMAIN toBroker[c] : toBroker[c][j] = toBroker'[c][i]
  <2>1. toBroker' = [toBroker EXCEPT ![d] = <<>>]
    BY <1>8 DEF Break
  <2>2. c # d
    BY <1>1, <2>1
  <2>3. toBroker'[c] = toBroker[c]
    BY <2>1, <2>2
  <2> QED
    BY <2>3
<1>9. \/ UNCHANGED toBroker
      \/ \E p \in Client : Finish(p) \/ \E d \in Connection : Break(p, d)
      \/ \E k \in Sub : consume(k) \/ release(k)
      \/ \E d \in Connection : Handler(d)
  BY LeavesAlone DEF QueueNext, Handler
<1> QED
  BY <1>2, <1>4, <1>5, <1>6, <1>7, <1>8, <1>9

\* queuePublish() counts a try for every copy it writes; a call takes a copy with it.
LEMMA CountedStep ==
    QueueTypes /\ HashesKept /\ CallsCounted /\ [QueueNext]_queueVars => CallsCounted'
<1> SUFFICES ASSUME QueueTypes, HashesKept, CallsCounted, [QueueNext]_queueVars PROVE CallsCounted'
  OBVIOUS
<1>1. /\ QueueTypes'
      /\ processed \in [Message -> Nat] /\ processed' \in [Message -> Nat]
      /\ tries \in [Message -> Nat] /\ tries' \in [Message -> Nat]
      /\ running \in [Client -> SUBSET Calls]
  BY TypesStep DEF QueueTypes, BrokerTypes, ClientTypes
<1>2. ASSUME NEW m \in Message
      PROVE  Cardinality(Way(m)) \in Nat
  BY FS_CardinalityType DEF CallsCounted
<1>3. ASSUME NEW p \in Client, NEW c \in Connection, NEW n \in 1 .. Len(toClient[c]), Receive(p, c, n)
      PROVE  /\ UNCHANGED tries
             /\ \A m \in Message :
                  processed'[m] = processed[m] \/ processed'[m] = processed[m] + Cardinality(Given(c, n, m))
             /\ \A q \in Client : \A call \in running'[q] :
                  \/ call \in running[q]
                  \/ \E m \in Message : call \in {m} \X (processed[m] + 1 .. processed'[m])
  <2>1. UNCHANGED tries
    BY <1>3 DEF Receive, brokerVars
  <2>2. CASE callback[p] = Nothing
    <3>1. UNCHANGED <<running, processed>>
      BY <1>3, <2>2 DEF Receive
    <3> QED
      BY <2>1, <3>1
  <2>3. CASE callback[p] # Nothing
    <3> DEFINE new == UNION { {m} \X (processed[m] + 1 .. processed'[m]) : m \in Message }
    <3>1. /\ processed' = [m \in Message |-> processed[m] + Cardinality(Given(c, n, m))]
          /\ running' = [running EXCEPT ![p] = @ \cup new]
      BY <1>3, <2>3 DEF Receive, Given
    <3>2. \A call \in new : \E m \in Message : call \in {m} \X (processed[m] + 1 .. processed'[m])
      OBVIOUS
    <3> HIDE DEF new
    <3>3. \A q \in Client : running'[q] \subseteq running[q] \cup new
      BY <1>1, <3>1
    <3>4. \A m \in Message : processed'[m] = processed[m] + Cardinality(Given(c, n, m))
      BY <3>1
    <3> QED
      BY <2>1, <3>2, <3>3, <3>4
  <2> QED
    BY <2>2, <2>3
<1>4. (\E p \in Client : Deliver(p)) \/ UNCHANGED processed
  BY LeavesAlone DEF QueueNext, Handler
<1>5. ASSUME NEW m \in Message
      PROVE  IsFiniteSet(Way(m)') /\ Cardinality(Way(m)') + processed'[m] <= tries'[m]
  <2>1. IsFiniteSet(Way(m)) /\ Cardinality(Way(m)) + processed[m] <= tries[m]
    BY DEF CallsCounted
  <2>2. CASE \E p \in Client : Deliver(p)
    <3>1. PICK p \in Client, c \in Connection : \E n \in 1 .. Len(toClient[c]) : Receive(p, c, n)
      BY <2>2 DEF Deliver
    <3>2. PICK n \in 1 .. Len(toClient[c]) : Receive(p, c, n)
      BY <3>1
    <3>3. /\ IsFiniteSet(Way(m)')
          /\ Cardinality(Way(m)') + Cardinality(Given(c, n, m)) <= Cardinality(Way(m))
      BY <2>1, <3>2, WayReceived
    <3>4. Cardinality(Given(c, n, m)) \in Nat /\ Cardinality(Way(m)') \in Nat
      BY <3>2, <3>3, Receives, FS_CardinalityType
    <3>5. tries'[m] = tries[m] /\ processed'[m] <= processed[m] + Cardinality(Given(c, n, m))
      <4>1. /\ UNCHANGED tries
            /\ processed'[m] = processed[m] \/ processed'[m] = processed[m] + Cardinality(Given(c, n, m))
        BY <1>3, <3>2
      <4> QED
        BY <1>1, <3>4, <4>1
    <3> QED
      BY <1>1, <1>2, <2>1, <3>3, <3>4, <3>5
  <2>3. CASE \E n \in Message : queuePublish(n)
    <3>1. PICK n \in Message : queuePublish(n)
      BY <2>3
    <3>2. /\ IsFiniteSet(Way(m)')
          /\ Cardinality(Way(m)') <= Cardinality(Way(m)) + (IF m = n THEN Cardinality(Chosen) ELSE 0)
      BY <2>1, <3>1, WayPublished
    <3>3. tries' = [tries EXCEPT ![n] = @ + Cardinality(Chosen)] /\ UNCHANGED processed
      BY <3>1 DEF queuePublish, Chosen, Tried, clientVars
    <3>4. Cardinality(Chosen) \in Nat /\ Cardinality(Way(m)') \in Nat
      BY <3>2, ChosenAre, FS_CardinalityType DEF QueueTypes
    <3>5. tries'[m] = tries[m] + (IF m = n THEN Cardinality(Chosen) ELSE 0) /\ processed'[m] = processed[m]
      BY <1>1, <3>3, <3>4
    <3> QED
      BY <1>1, <1>2, <2>1, <3>2, <3>4, <3>5
  <2>4. CASE ~(\E p \in Client : Deliver(p)) /\ ~(\E n \in Message : queuePublish(n))
    <3>1. UNCHANGED tries
      BY <2>4, LeavesAlone DEF QueueNext, Handler
    <3>2. \A c \in Connection : \A i : HandleAt(c, i)' => HandleAt(c, i) /\ toClient'[c][i] = toClient[c][i]
      BY <2>4, HandlesElse
    <3>3. Way(m)' \subseteq Way(m)
      BY <3>2 DEF Way
    <3>4. IsFiniteSet(Way(m)') /\ Cardinality(Way(m)') <= Cardinality(Way(m))
      BY <2>1, <3>3, FS_Subset
    <3>5. Cardinality(Way(m)') \in Nat
      BY <3>4, FS_CardinalityType
    <3> QED
      BY <1>1, <1>2, <1>4, <2>1, <2>4, <3>1, <3>4, <3>5
  <2> QED
    BY <2>2, <2>3, <2>4
<1>6. ASSUME NEW m \in Message
      PROVE  processed[m] <= processed'[m]
  <2>1. CASE UNCHANGED processed
    BY <1>1, <2>1
  <2>2. ASSUME NEW p \in Client, Deliver(p) PROVE processed[m] <= processed'[m]
    <3>1. PICK c \in Connection : \E n \in 1 .. Len(toClient[c]) : Receive(p, c, n)
      BY <2>2 DEF Deliver
    <3>2. PICK n \in 1 .. Len(toClient[c]) : Receive(p, c, n)
      BY <3>1
    <3>3. Cardinality(Given(c, n, m)) \in Nat
      BY <3>2, Receives
    <3>4. processed'[m] = processed[m] \/ processed'[m] = processed[m] + Cardinality(Given(c, n, m))
      BY <1>3, <3>2
    <3> QED
      BY <1>1, <3>3, <3>4
  <2> QED
    BY <1>4, <2>1, <2>2
<1>7. ASSUME NEW p \in Client, NEW call \in running'[p]
      PROVE  call[2] <= processed'[call[1]]
  <2>1. ASSUME call \in running[p] PROVE call[2] <= processed'[call[1]]
    <3>1. call[1] \in Message /\ call[2] \in Nat
      BY <1>1, <2>1 DEF Calls
    <3>2. call[2] <= processed[call[1]]
      BY <2>1 DEF CallsCounted
    <3> QED
      BY <1>1, <1>6, <3>1, <3>2
  <2>2. ASSUME NEW q \in Client, Deliver(q) PROVE call[2] <= processed'[call[1]]
    <3>1. PICK c \in Connection : \E n \in 1 .. Len(toClient[c]) : Receive(q, c, n)
      BY <2>2 DEF Deliver
    <3>2. PICK n \in 1 .. Len(toClient[c]) : Receive(q, c, n)
      BY <3>1
    <3>3. CASE call \in running[p]
      BY <2>1, <3>3
    <3>4. CASE call \notin running[p]
      <4>1. PICK m \in Message : call \in {m} \X (processed[m] + 1 .. processed'[m])
        BY <1>3, <3>2, <3>4
      <4> QED
        BY <1>1, <4>1
    <3> QED
      BY <3>3, <3>4
  <2>3. CASE ~(\E q \in Client : Deliver(q))
    <3>1. UNCHANGED running \/ \E q \in Client : \E x : running' = [running EXCEPT ![q] = @ \ {x}]
      <4>1. UNCHANGED running \/ \E q \in Client : Finish(q)
        BY <2>3, LeavesAlone DEF QueueNext, Handler
      <4>2. \A q \in Client : Finish(q) => \E x : running' = [running EXCEPT ![q] = @ \ {x}]
        BY DEF Finish, callbackDone
      <4> QED
        BY <4>1, <4>2
    <3>2. call \in running[p]
      BY <1>1, <3>1
    <3> QED
      BY <2>1, <3>2
  <2> QED
    BY <2>2, <2>3
<1>8. ASSUME NEW c \in Connection, NEW i \in DOMAIN toBroker'[c], IsAnswer(toBroker'[c][i])
      PROVE  processed'[toBroker'[c][i].msg] > 0
  <2>1. PICK packet \in Packet : packet = toBroker'[c][i]
    <3>1. toBroker'[c] \in Seq(Packet)
      BY <1>1 DEF QueueTypes, NetTypes
    <3> QED
      BY <3>1
  <2>2. packet.msg \in Message
    BY <1>8, <2>1, PacketKinds
  <2>3. ASSUME NEW j \in DOMAIN toBroker[c], toBroker[c][j] = packet
        PROVE  processed[packet.msg] > 0
    BY <1>8, <2>1, <2>3 DEF CallsCounted
  <2>4. ASSUME NEW p \in Client, NEW call \in running[p], packet.msg = call[1]
        PROVE  processed[packet.msg] > 0
    <3>1. call[1] \in Message /\ call[2] \in Nat \ {0} /\ call[2] <= processed[call[1]]
      BY <1>1, <2>4 DEF Calls, CallsCounted
    <3> QED
      BY <1>1, <2>4, <3>1
  <2>5. processed[packet.msg] > 0
    <3>1. CASE \E j \in DOMAIN toBroker[c] : toBroker[c][j] = toBroker'[c][i]
      BY <2>1, <2>3, <3>1
    <3>2. CASE \E p \in Client : \E call \in running[p] : \E answer \in {"Error", "Success", "Neither"} :
                 toBroker'[c][i] = [type |-> answer, msg |-> call[1]]
      BY <2>1, <2>4, <3>2
    <3>3. CASE \E k \in Sub : \E type \in {"Subscribe", "Unsubscribe"} :
                 toBroker'[c][i] = [type |-> type, sub |-> k]
      BY <1>8, <3>3 DEF IsAnswer
    <3> QED
      BY <3>1, <3>2, <3>3, RequestStep
  <2> QED
    BY <1>1, <1>6, <2>1, <2>2, <2>5
<1>9. ASSUME NEW m \in Message, state'[m] \in {"done", "error"}
      PROVE  processed'[m] > 0
  <2>1. CASE state'[m] = state[m]
    BY <1>1, <1>6, <1>9, <2>1 DEF CallsCounted
  <2>2. CASE queuePublish(m)
    <3>1. state'[m] \in {"pending", "inFlight"}
      BY <2>2 DEF queuePublish, StateWhenSent, QueueTypes, BrokerTypes
    <3> QED
      BY <1>9, <3>1
  <2>3. ASSUME NEW c \in Connection, queueMessageHandled(c), Next1(c).msg = m
        PROVE  processed'[m] > 0
    <3>1. /\ Next1(c) = toBroker[c][1] /\ Next1(c).type \in {"Error", "Success", "Neither"}
          /\ 1 \in DOMAIN toBroker[c]
      <4>1. Take(c, {"Error", "Success", "Neither"})
        BY <2>3 DEF queueMessageHandled
      <4> QED
        BY <4>1, Takes
    <3>2. processed[m] > 0
      BY <2>3, <3>1 DEF CallsCounted, IsAnswer
    <3> QED
      BY <1>1, <1>6, <3>2
  <2> QED
    BY <1>9, <2>1, <2>2, <2>3, StateStep
<1> QED
  BY <1>5, <1>7, <1>8, <1>9 DEF CallsCounted

\* A message is given to no more callbacks than tries are counted and is done or failed
\* only after a callback had it, for any clients, connections and messages
\* (kernel.ts queuePublish and queueMessageHandled).
THEOREM SettledAfterProcessing == QueueSpec => []SettledWasProcessed
<1>1. QueueInit => QueueTypes /\ HashesKept /\ CallsCounted
  BY TypesInit, HashesInit, CountedInit
<1>2. QueueTypes /\ HashesKept /\ CallsCounted /\ [QueueNext]_queueVars
        => QueueTypes' /\ HashesKept' /\ CallsCounted'
  BY TypesStep, HashesStep, CountedStep
<1>3. QueueTypes /\ CallsCounted => SettledWasProcessed
  <2> SUFFICES ASSUME QueueTypes, CallsCounted, NEW m \in Message
               PROVE  processed[m] <= tries[m] /\ (state[m] \in {"done", "error"} => processed[m] > 0)
    BY DEF SettledWasProcessed
  <2>1. IsFiniteSet(Way(m)) /\ Cardinality(Way(m)) + processed[m] <= tries[m]
    BY DEF CallsCounted
  <2>2. Cardinality(Way(m)) \in Nat /\ processed[m] \in Nat /\ tries[m] \in Nat
    BY <2>1, FS_CardinalityType DEF QueueTypes, BrokerTypes, ClientTypes
  <2> QED
    BY <2>1, <2>2 DEF CallsCounted
<1> QED
  BY <1>1, <1>2, <1>3, PTL DEF QueueSpec

-----------------------------------------------------------------------------
(* How many callbacks of a client may run.                                 *)

\* Each member of T is what has become of a member of S.
LEMMA Covered ==
    ASSUME NEW S, IsFiniteSet(S), NEW T, NEW h, \A t \in T : \E s \in S : h[s] = t
    PROVE  IsFiniteSet(T) /\ Cardinality(T) <= Cardinality(S)
<1> DEFINE f == [t \in T |-> CHOOSE s \in S : h[s] = t]
<1>1. ASSUME NEW t \in T PROVE f[t] \in S /\ h[f[t]] = t
  BY <1>1
<1>2. f \in [T -> S]
  BY <1>1
<1>3. \A x, y \in T : f[x] = f[y] => x = y
  BY <1>1
<1> HIDE DEF f
<1> QED
  BY <1>2, <1>3, NotMore

\* A request for a slot, or an answer that frees one; and a slot that is free.
AskAt(c, i) == i \in DOMAIN toBroker[c] /\ toBroker[c][i].type # "Unsubscribe"
FreeAt(c, i) == i \in DOMAIN consumers /\ consumers[i].con = c /\ consumers[i].handling = {}

\* What may become a call of a callback of a client, or is one.
Tokens(p) ==
  { t \in {"way"} \X ConnectionsOf[p] \X Nat : HandleAt(t[2], t[3]) }
    \cup { t \in {"ask"} \X ConnectionsOf[p] \X Nat : AskAt(t[2], t[3]) }
    \cup { t \in {"free"} \X ConnectionsOf[p] \X Nat : FreeAt(t[2], t[3]) }
    \cup { t \in {"call"} \X Message \X Nat : <<t[2], t[3]>> \in running[p] }

\* The calls of consume() a client has made.
Started(p) == { k \in Sub : ClientOf[k] = p /\ sub[k] # "new" }

\* No client has more tokens than calls of consume().
CallsLimited ==
  \A p \in Client :
    /\ IsFiniteSet(Started(p)) /\ IsFiniteSet(Tokens(p))
    /\ Cardinality(Tokens(p)) <= Cardinality(Started(p))

\* What the tokens are.
LEMMA TokenOf ==
    ASSUME NEW p \in Client
    PROVE  /\ \A c \in ConnectionsOf[p] : \A i \in Nat :
                /\ HandleAt(c, i) => <<"way", c, i>> \in Tokens(p)
                /\ AskAt(c, i) => <<"ask", c, i>> \in Tokens(p)
                /\ FreeAt(c, i) => <<"free", c, i>> \in Tokens(p)
           /\ \A m \in Message : \A j \in Nat : <<m, j>> \in running[p] => <<"call", m, j>> \in Tokens(p)
  BY DEF Tokens

\* Each token of the next state is what h makes of one.
Become(p, h) ==
  /\ \A c \in ConnectionsOf[p] : \A i \in Nat :
       /\ HandleAt(c, i)' => \E s \in Tokens(p) : h[s] = <<"way", c, i>>
       /\ AskAt(c, i)' => \E s \in Tokens(p) : h[s] = <<"ask", c, i>>
       /\ FreeAt(c, i)' => \E s \in Tokens(p) : h[s] = <<"free", c, i>>
  /\ \A m \in Message : \A j \in Nat :
       <<m, j>> \in running'[p] => \E s \in Tokens(p) : h[s] = <<"call", m, j>>

\* It is enough to say where each token comes from.
LEMMA TokensFrom ==
    ASSUME NEW p \in Client, IsFiniteSet(Tokens(p)), NEW h, Become(p, h)
    PROVE  IsFiniteSet(Tokens(p)') /\ Cardinality(Tokens(p)') <= Cardinality(Tokens(p))
<1>1. ASSUME NEW t \in Tokens(p)' PROVE \E s \in Tokens(p) : h[s] = t
  <2>1. CASE t \in { x \in {"way"} \X ConnectionsOf[p] \X Nat : HandleAt(x[2], x[3])' }
    <3>1. PICK c \in ConnectionsOf[p], i \in Nat : t = <<"way", c, i>>
      BY <2>1
    <3> QED
      BY <2>1, <3>1 DEF Become
  <2>2. CASE t \in { x \in {"ask"} \X ConnectionsOf[p] \X Nat : AskAt(x[2], x[3])' }
    <3>1. PICK c \in ConnectionsOf[p], i \in Nat : t = <<"ask", c, i>>
      BY <2>2
    <3> QED
      BY <2>2, <3>1 DEF Become
  <2>3. CASE t \in { x \in {"free"} \X ConnectionsOf[p] \X Nat : FreeAt(x[2], x[3])' }
    <3>1. PICK c \in ConnectionsOf[p], i \in Nat : t = <<"free", c, i>>
      BY <2>3
    <3> QED
      BY <2>3, <3>1 DEF Become
  <2>4. CASE t \in { x \in {"call"} \X Message \X Nat : <<x[2], x[3]>> \in running'[p] }
    <3>1. PICK m \in Message, j \in Nat : t = <<"call", m, j>>
      BY <2>4
    <3> QED
      BY <2>4, <3>1 DEF Become
  <2> QED
    BY <1>1, <2>1, <2>2, <2>3, <2>4 DEF Tokens
<1>2. PICK S : S = Tokens(p)
  OBVIOUS
<1>3. PICK T : T = Tokens(p)'
  OBVIOUS
<1> QED
  BY <1>1, <1>2, <1>3, Covered

\* Nothing is added.
LEMMA TokensKept ==
    ASSUME NEW p \in Client, IsFiniteSet(Tokens(p)),
           \A c \in ConnectionsOf[p] : \A i \in Nat :
             /\ HandleAt(c, i)' => HandleAt(c, i)
             /\ AskAt(c, i)' => AskAt(c, i)
             /\ FreeAt(c, i)' => FreeAt(c, i),
           running'[p] \subseteq running[p]
    PROVE  IsFiniteSet(Tokens(p)') /\ Cardinality(Tokens(p)') <= Cardinality(Tokens(p))
<1>1. Tokens(p)' \subseteq Tokens(p)
  BY DEF Tokens
<1> QED
  BY <1>1, FS_Subset

\* What an operation leaves of the requests.
LEMMA AskSent ==
    ASSUME QueueTypes, NEW d \in Connection, NEW packet \in Packet,
           toBroker' = [toBroker EXCEPT ![d] = Append(@, packet)],
           NEW c \in Connection, NEW i, AskAt(c, i)'
    PROVE  \/ AskAt(c, i)
           \/ c = d /\ i = Len(toBroker[d]) + 1 /\ packet.type # "Unsubscribe"
<1>1. PICK seq \in Seq(Packet) : seq = toBroker[d]
  BY DEF QueueTypes, NetTypes
<1>2. toBroker'[c] = IF c = d THEN Append(seq, packet) ELSE toBroker[c]
  BY <1>1 DEF QueueTypes, NetTypes
<1>3. CASE c = d
  <2>1. /\ DOMAIN Append(seq, packet) = 1 .. Len(seq) + 1 /\ DOMAIN seq = 1 .. Len(seq) /\ Len(seq) \in Nat
        /\ \A j \in 1 .. Len(seq) : Append(seq, packet)[j] = seq[j]
        /\ Append(seq, packet)[Len(seq) + 1] = packet
    BY Pushed
  <2>2. i \in 1 .. Len(seq) + 1 /\ Append(seq, packet)[i].type # "Unsubscribe"
    BY <1>2, <1>3, <2>1 DEF AskAt
  <2>3. i \in 1 .. Len(seq) \/ i = Len(seq) + 1
    BY <2>1, <2>2
  <2> QED
    BY <1>1, <1>3, <2>1, <2>2, <2>3 DEF AskAt
<1>4. CASE c # d
  BY <1>2, <1>4 DEF AskAt
<1> QED
  BY <1>3, <1>4

\* What stays in the channel the broker takes a packet from.
LEMMA AskTaken ==
    ASSUME QueueTypes, NEW d \in Connection, NEW types, Take(d, types),
           NEW c \in Connection, NEW i \in Nat, AskAt(c, i)'
    PROVE  IF c = d THEN AskAt(c, i + 1) /\ i >= 1 ELSE AskAt(c, i)
<1>1. toBroker' = [toBroker EXCEPT ![d] = Tail(@)] /\ toBroker[d] # <<>>
  BY Takes
<1>2. PICK seq \in Seq(Packet) : seq = toBroker[d] /\ seq # <<>>
  BY <1>1 DEF QueueTypes, NetTypes
<1>3. toBroker'[c] = IF c = d THEN Tail(seq) ELSE toBroker[c]
  BY <1>1, <1>2 DEF QueueTypes, NetTypes
<1>4. CASE c = d
  <2>1. /\ DOMAIN Tail(seq) = 1 .. Len(seq) - 1 /\ DOMAIN seq = 1 .. Len(seq) /\ Len(seq) \in Nat
        /\ \A j \in 1 .. Len(seq) - 1 : Tail(seq)[j] = seq[j + 1]
    BY <1>2, Pulled
  <2>2. i \in 1 .. Len(seq) - 1 /\ Tail(seq)[i].type # "Unsubscribe"
    BY <1>3, <1>4, <2>1 DEF AskAt
  <2>3. i + 1 \in 1 .. Len(seq) /\ i >= 1
    BY <2>1, <2>2
  <2> QED
    BY <1>2, <1>4, <2>1, <2>2, <2>3 DEF AskAt
<1>5. CASE c # d
  BY <1>3, <1>5 DEF AskAt
<1> QED
  BY <1>4, <1>5

\* No two clients have one connection.
LEMMA OthersConnection ==
    ASSUME NEW p \in Client, NEW q \in Client, p # q, NEW c \in ConnectionsOf[q]
    PROVE  c \notin ConnectionsOf[p]
  BY BrokerQueueAssumption

\* A client has connections of the network.
LEMMA Places ==
    ASSUME NEW p \in Client, NEW c \in ConnectionsOf[p]
    PROVE  c \in Connection
  BY BrokerQueueAssumption

\* consume() adds what it asks for.
LEMMA TokensConsume ==
    ASSUME QueueTypes, NEW k \in Sub, consume(k), NEW p \in Client, IsFiniteSet(Tokens(p))
    PROVE  /\ IsFiniteSet(Tokens(p)')
           /\ Cardinality(Tokens(p)') <= Cardinality(Tokens(p)) + (IF ClientOf[k] = p THEN 1 ELSE 0)
<1>1. UNCHANGED <<consumers, toClient, running>>
  BY DEF consume, brokerVars
<1>2. ClientOf[k] \in Client /\ [type |-> "Subscribe", sub |-> k] \in Packet
  BY BrokerQueueAssumption, PacketKinds
<1>3. PICK packet \in Packet : packet = [type |-> "Subscribe", sub |-> k]
  BY <1>2
<1>4. PICK d \in ConnectionsOf[ClientOf[k]] :
        d \in Connection /\ toBroker' = [toBroker EXCEPT ![d] = Append(@, packet)]
  <2>1. Send(ClientOf[k], packet)
    BY <1>3 DEF consume
  <2> QED
    BY <1>2, <2>1, Sends
<1>5. ASSUME NEW c \in ConnectionsOf[p], NEW i \in Nat
      PROVE  /\ HandleAt(c, i)' => HandleAt(c, i)
             /\ FreeAt(c, i)' => FreeAt(c, i)
             /\ AskAt(c, i)' => AskAt(c, i) \/ (c = d /\ i = Len(toBroker[d]) + 1)
  <2>1. c \in Connection
    BY Places
  <2> QED
    BY <1>1, <1>4, <2>1, AskSent DEF HandleAt, FreeAt
<1>6. CASE ClientOf[k] # p
  <2>1. d \notin ConnectionsOf[p]
    BY <1>2, <1>6, OthersConnection
  <2>2. IsFiniteSet(Tokens(p)') /\ Cardinality(Tokens(p)') <= Cardinality(Tokens(p))
    BY <1>1, <1>5, <2>1, TokensKept
  <2>3. Cardinality(Tokens(p)) \in Nat
    BY FS_CardinalityType
  <2> QED
    BY <1>6, <2>2, <2>3
<1>7. CASE ClientOf[k] = p
  <2> DEFINE new == <<"ask", d, Len(toBroker[d]) + 1>>
  <2>1. Tokens(p)' \subseteq Tokens(p) \cup {new}
    BY <1>1, <1>5 DEF Tokens
  <2> HIDE DEF new
  <2>2. /\ IsFiniteSet(Tokens(p) \cup {new})
        /\ Cardinality(Tokens(p) \cup {new}) =
             IF new \in Tokens(p) THEN Cardinality(Tokens(p)) ELSE Cardinality(Tokens(p)) + 1
    BY FS_AddElement
  <2>3. /\ IsFiniteSet(Tokens(p)')
        /\ Cardinality(Tokens(p)') <= Cardinality(Tokens(p) \cup {new})
    BY <2>1, <2>2, FS_Subset
  <2>4. Cardinality(Tokens(p)) \in Nat /\ Cardinality(Tokens(p)') \in Nat
    BY <2>3, FS_CardinalityType
  <2> QED
    BY <1>7, <2>2, <2>3, <2>4
<1> QED
  BY <1>6, <1>7

\* The end of a call becomes an answer.
LEMMA TokensFinish ==
    ASSUME QueueTypes, NEW q \in Client, Finish(q), NEW p \in Client, IsFiniteSet(Tokens(p))
    PROVE  IsFiniteSet(Tokens(p)') /\ Cardinality(Tokens(p)') <= Cardinality(Tokens(p))
<1>1. PICK call \in running[q], answer \in {"Error", "Success", "Neither"} :
          callbackDone(q, call, answer)
  BY DEF Finish
<1>2. /\ UNCHANGED <<consumers, toClient>>
      /\ running' = [running EXCEPT ![q] = @ \ {call}]
      /\ Send(q, [type |-> answer, msg |-> call[1]])
  BY <1>1 DEF callbackDone, brokerVars
<1>3. running \in [Client -> SUBSET Calls] /\ call \in Calls
  BY DEF QueueTypes, ClientTypes
<1>4. call = <<call[1], call[2]>> /\ call[1] \in Message /\ call[2] \in Nat
  BY <1>3 DEF Calls
<1>5. PICK packet \in Packet : packet = [type |-> answer, msg |-> call[1]]
  BY <1>4, PacketKinds
<1>6. PICK d \in ConnectionsOf[q] :
        d \in Connection /\ toBroker' = [toBroker EXCEPT ![d] = Append(@, packet)]
  BY <1>2, <1>5, Sends
<1>7. ASSUME NEW c \in ConnectionsOf[p], NEW i \in Nat
      PROVE  /\ HandleAt(c, i)' => HandleAt(c, i)
             /\ FreeAt(c, i)' => FreeAt(c, i)
             /\ AskAt(c, i)' => AskAt(c, i) \/ (c = d /\ i = Len(toBroker[d]) + 1)
  <2>1. c \in Connection
    BY Places
  <2> QED
    BY <1>2, <1>6, <2>1, AskSent DEF HandleAt, FreeAt
<1>8. CASE q # p
  <2>1. d \notin ConnectionsOf[p]
    BY <1>8, OthersConnection
  <2>2. running'[p] = running[p]
    BY <1>2, <1>3, <1>8
  <2> QED
    BY <1>7, <2>1, <2>2, TokensKept
<1>9. CASE q = p
  <2>1. PICK h : h = [s \in Tokens(p) |->
           IF s = <<"call", call[1], call[2]>> THEN <<"ask", d, Len(toBroker[d]) + 1>> ELSE s]
    OBVIOUS
  <2>2. <<"call", call[1], call[2]>> \in Tokens(p)
    BY <1>4, <1>9, TokenOf
  <2>3. ASSUME NEW s \in Tokens(p), s # <<"call", call[1], call[2]>>
        PROVE  h[s] = s
    BY <2>1, <2>3
  <2>4. h[<<"call", call[1], call[2]>>] = <<"ask", d, Len(toBroker[d]) + 1>>
    BY <2>1, <2>2
  <2>5. ASSUME NEW c \in ConnectionsOf[p], NEW i \in Nat
        PROVE  /\ HandleAt(c, i)' => \E s \in Tokens(p) : h[s] = <<"way", c, i>>
               /\ AskAt(c, i)' => \E s \in Tokens(p) : h[s] = <<"ask", c, i>>
               /\ FreeAt(c, i)' => \E s \in Tokens(p) : h[s] = <<"free", c, i>>
    <3>1. /\ HandleAt(c, i) => <<"way", c, i>> \in Tokens(p)
          /\ AskAt(c, i) => <<"ask", c, i>> \in Tokens(p)
          /\ FreeAt(c, i) => <<"free", c, i>> \in Tokens(p)
      BY TokenOf
    <3>2. \A tag \in {"way", "ask", "free"} :
            <<tag, c, i>> \in Tokens(p) => h[<<tag, c, i>>] = <<tag, c, i>>
      <4> SUFFICES ASSUME NEW tag \in {"way", "ask", "free"}, <<tag, c, i>> \in Tokens(p)
                   PROVE  h[<<tag, c, i>>] = <<tag, c, i>>
        OBVIOUS
      <4>1. <<tag, c, i>> # <<"call", call[1], call[2]>>
        OBVIOUS
      <4> QED
        BY <2>3, <4>1
    <3>3. CASE c = d /\ i = Len(toBroker[d]) + 1
      BY <1>7, <2>2, <2>4, <3>1, <3>2, <3>3
    <3>4. CASE ~(c = d /\ i = Len(toBroker[d]) + 1)
      BY <1>7, <3>1, <3>2, <3>4
    <3> QED
      BY <3>3, <3>4
  <2>6. ASSUME NEW m \in Message, NEW j \in Nat, <<m, j>> \in running'[p]
        PROVE  \E s \in Tokens(p) : h[s] = <<"call", m, j>>
    <3>1. <<m, j>> \in running[p] /\ <<m, j>> # call
      BY <1>2, <1>3, <1>9, <2>6
    <3>2. <<"call", m, j>> \in Tokens(p)
      BY <3>1, TokenOf
    <3>3. <<"call", m, j>> # <<"call", call[1], call[2]>>
      BY <1>4, <3>1
    <3> QED
      BY <2>3, <3>2, <3>3
  <2>7. Become(p, h)
    BY <2>5, <2>6 DEF Become
  <2> QED
    BY <2>7, TokensFrom
<1> QED
  BY <1>8, <1>9

\* A subscription or the end of a call becomes a consumer without a message.
LEMMA TokensTaken ==
    ASSUME QueueTypes, NEW d \in Connection, NEW types, Take(d, types), AskAt(d, 1),
           UNCHANGED running, NEW n \in Nat,
           \A c \in Connection : \A i \in Nat :
             /\ HandleAt(c, i)' => HandleAt(c, i)
             /\ FreeAt(c, i)' => FreeAt(c, i) \/ (c = d /\ i = n),
           NEW p \in Client, IsFiniteSet(Tokens(p))
    PROVE  IsFiniteSet(Tokens(p)') /\ Cardinality(Tokens(p)') <= Cardinality(Tokens(p))
<1>1. ASSUME NEW c \in ConnectionsOf[p], NEW i \in Nat
      PROVE  /\ c \in Connection
             /\ HandleAt(c, i)' => HandleAt(c, i)
             /\ FreeAt(c, i)' => FreeAt(c, i) \/ (c = d /\ i = n)
             /\ AskAt(c, i)' => IF c = d THEN AskAt(c, i + 1) /\ i >= 1 ELSE AskAt(c, i)
  <2>1. c \in Connection
    BY Places
  <2> QED
    BY <2>1, AskTaken
<1>2. CASE d \notin ConnectionsOf[p]
  <2>1. \A c \in ConnectionsOf[p] : \A i \in Nat :
             /\ HandleAt(c, i)' => HandleAt(c, i)
             /\ AskAt(c, i)' => AskAt(c, i)
             /\ FreeAt(c, i)' => FreeAt(c, i)
    BY <1>1, <1>2
  <2> QED
    BY <2>1, TokensKept
<1>3. CASE d \in ConnectionsOf[p]
  <2>1. PICK h : h = [s \in Tokens(p) |->
           IF s[1] = "ask" /\ s[2] = d
           THEN IF s[3] = 1 THEN <<"free", d, n>> ELSE <<"ask", d, s[3] - 1>>
           ELSE s]
    OBVIOUS
  <2>2. <<"ask", d, 1>> \in Tokens(p)
    BY <1>3, TokenOf
  <2>3. h[<<"ask", d, 1>>] = <<"free", d, n>>
    BY <2>1, <2>2
  <2>4. ASSUME NEW c \in ConnectionsOf[p], NEW i \in Nat
        PROVE  /\ HandleAt(c, i)' => \E s \in Tokens(p) : h[s] = <<"way", c, i>>
               /\ AskAt(c, i)' => \E s \in Tokens(p) : h[s] = <<"ask", c, i>>
               /\ FreeAt(c, i)' => \E s \in Tokens(p) : h[s] = <<"free", c, i>>
    <3>1. ASSUME HandleAt(c, i)'
          PROVE  \E s \in Tokens(p) : h[s] = <<"way", c, i>>
      <4>1. <<"way", c, i>> \in Tokens(p)
        BY <1>1, <3>1, TokenOf
      <4>2. h[<<"way", c, i>>] = <<"way", c, i>>
        BY <2>1, <4>1
      <4> QED
        BY <4>1, <4>2
    <3>2. ASSUME AskAt(c, i)'
          PROVE  \E s \in Tokens(p) : h[s] = <<"ask", c, i>>
      <4>1. CASE c = d
        <5>1. AskAt(d, i + 1) /\ i >= 1 /\ i + 1 \in Nat /\ i + 1 # 1 /\ (i + 1) - 1 = i
          BY <1>1, <3>2, <4>1
        <5>2. <<"ask", d, i + 1>> \in Tokens(p)
          BY <1>3, <5>1, TokenOf
        <5>3. h[<<"ask", d, i + 1>>] = <<"ask", d, i>>
          BY <2>1, <5>1, <5>2
        <5> QED
          BY <4>1, <5>2, <5>3
      <4>2. CASE c # d
        <5>1. <<"ask", c, i>> \in Tokens(p)
          BY <1>1, <3>2, <4>2, TokenOf
        <5>2. h[<<"ask", c, i>>] = <<"ask", c, i>>
          BY <2>1, <4>2, <5>1
        <5> QED
          BY <5>1, <5>2
      <4> QED
        BY <4>1, <4>2
    <3>3. ASSUME FreeAt(c, i)'
          PROVE  \E s \in Tokens(p) : h[s] = <<"free", c, i>>
      <4>1. CASE c = d /\ i = n
        BY <2>2, <2>3, <4>1
      <4>2. CASE ~(c = d /\ i = n)
        <5>1. <<"free", c, i>> \in Tokens(p)
          BY <1>1, <3>3, <4>2, TokenOf
        <5>2. h[<<"free", c, i>>] = <<"free", c, i>>
          BY <2>1, <5>1
        <5> QED
          BY <5>1, <5>2
      <4> QED
        BY <4>1, <4>2
    <3> QED
      BY <3>1, <3>2, <3>3
  <2>5. ASSUME NEW m \in Message, NEW j \in Nat, <<m, j>> \in running'[p]
        PROVE  \E s \in Tokens(p) : h[s] = <<"call", m, j>>
    <3>1. <<"call", m, j>> \in Tokens(p)
      BY <2>5, TokenOf
    <3>2. h[<<"call", m, j>>] = <<"call", m, j>>
      BY <2>1, <3>1
    <3> QED
      BY <3>1, <3>2
  <2>6. Become(p, h)
    BY <2>4, <2>5 DEF Become
  <2> QED
    BY <2>6, TokensFrom
<1> QED
  BY <1>2, <1>3

\* A Subscribe becomes a free slot.
LEMMA TokensSubscribe ==
    ASSUME QueueTypes, NEW d \in Connection, queueSubscribe(d),
           \A c \in Connection : \A i \in Nat : HandleAt(c, i)' => HandleAt(c, i),
           NEW p \in Client, IsFiniteSet(Tokens(p))
    PROVE  IsFiniteSet(Tokens(p)') /\ Cardinality(Tokens(p)') <= Cardinality(Tokens(p))
<1>1. /\ Take(d, {"Subscribe"}) /\ UNCHANGED running
      /\ consumers' = Append(consumers, [con |-> d, handling |-> {}])
  BY DEF queueSubscribe, clientVars
<1>2. AskAt(d, 1)
  <2>1. 1 \in DOMAIN toBroker[d] /\ Next1(d) = toBroker[d][1] /\ Next1(d).type \in {"Subscribe"}
    BY <1>1, Takes
  <2> QED
    BY <2>1 DEF AskAt
<1>3. /\ Len(consumers) \in Nat /\ DOMAIN consumers = 1 .. Len(consumers)
      /\ DOMAIN consumers' = 1 .. Len(consumers) + 1
      /\ \A i \in DOMAIN consumers : consumers'[i] = consumers[i]
      /\ consumers'[Len(consumers) + 1] = [con |-> d, handling |-> {}]
  BY <1>1, NewConsumer DEF QueueTypes
<1>4. PICK n \in Nat : n = Len(consumers) + 1
  BY <1>3
<1>5. ASSUME NEW c \in Connection, NEW i \in Nat, FreeAt(c, i)'
      PROVE  FreeAt(c, i) \/ (c = d /\ i = n)
  BY <1>3, <1>4, <1>5 DEF FreeAt
<1> QED
  BY <1>1, <1>2, <1>5, TokensTaken

\* An answer becomes a free slot.
LEMMA TokensHandled ==
    ASSUME QueueTypes, NEW d \in Connection, queueMessageHandled(d),
           \A c \in Connection : \A i \in Nat : HandleAt(c, i)' => HandleAt(c, i),
           NEW p \in Client, IsFiniteSet(Tokens(p))
    PROVE  IsFiniteSet(Tokens(p)') /\ Cardinality(Tokens(p)') <= Cardinality(Tokens(p))
<1>1. /\ Take(d, {"Error", "Success", "Neither"}) /\ UNCHANGED running
  BY DEF queueMessageHandled, clientVars
<1>2. /\ 1 \in DOMAIN toBroker[d] /\ Next1(d) = toBroker[d][1] /\ Next1(d) \in Packet
      /\ Next1(d).type \in {"Error", "Success", "Neither"}
  BY <1>1, Takes
<1>3. AskAt(d, 1)
  BY <1>2 DEF AskAt
<1>4. PICK m \in Message : m = Next1(d).msg
  BY <1>2, PacketKinds DEF IsAnswer
<1>5. CASE ConsumerOf(d) # 0 /\ m \in consumers[ConsumerOf(d)].handling
  <2>1. PICK n : n = ConsumerOf(d)
    OBVIOUS
  <2>2. n \in DOMAIN consumers /\ consumers[n].con = d
    BY <1>5, <2>1, ConsumerFound DEF QueueTypes
  <2>3. n \in Nat
    BY <2>2 DEF QueueTypes, BrokerTypes
  <2>4. consumers' = FreeSlot(n, m)
    BY <1>4, <1>5, <2>1 DEF queueMessageHandled
  <2>5. /\ DOMAIN consumers' = DOMAIN consumers
        /\ \A j \in DOMAIN consumers : consumers'[j].con = consumers[j].con
        /\ \A j \in DOMAIN consumers :
             consumers'[j].handling = IF j = n THEN consumers[j].handling \ {m} ELSE consumers[j].handling
    BY <2>2, <2>4, SlotFreed DEF QueueTypes
  <2>6. ASSUME NEW c \in Connection, NEW i \in Nat, FreeAt(c, i)'
        PROVE  FreeAt(c, i) \/ (c = d /\ i = n)
    BY <2>2, <2>5, <2>6 DEF FreeAt
  <2> QED
    BY <1>1, <1>3, <2>3, <2>6, TokensTaken
<1>6. CASE ~(ConsumerOf(d) # 0 /\ m \in consumers[ConsumerOf(d)].handling)
  <2>1. UNCHANGED consumers
    BY <1>4, <1>6 DEF queueMessageHandled
  <2>2. \A c \in Connection : \A i \in Nat : FreeAt(c, i)' => FreeAt(c, i) \/ (c = d /\ i = 0)
    BY <2>1 DEF FreeAt
  <2> QED
    BY <1>1, <1>3, <2>2, TokensTaken
<1> QED
  BY <1>5, <1>6

\* A consumer that leaves takes nothing with it.
LEMMA TokensUnsubscribe ==
    ASSUME QueueTypes, NEW d \in Connection, queueUnsubscribe(d),
           \A c \in Connection : \A i \in Nat : HandleAt(c, i)' => HandleAt(c, i),
           NEW p \in Client, IsFiniteSet(Tokens(p))
    PROVE  IsFiniteSet(Tokens(p)') /\ Cardinality(Tokens(p)') <= Cardinality(Tokens(p))
<1>1. Take(d, {"Unsubscribe"}) /\ UNCHANGED running
  BY DEF queueUnsubscribe, clientVars
<1>2. PICK n : n = ConsumerOf(d)
  OBVIOUS
<1>3. n \in Nat /\ (n # 0 => n \in DOMAIN consumers)
  BY <1>2, ConsumerFound DEF QueueTypes, BrokerTypes
<1>4. ASSUME NEW c \in ConnectionsOf[p], NEW i \in Nat
      PROVE  /\ c \in Connection
             /\ HandleAt(c, i)' => HandleAt(c, i)
             /\ AskAt(c, i)' => IF c = d THEN AskAt(c, i + 1) /\ i >= 1 ELSE AskAt(c, i)
             /\ FreeAt(c, i)' => IF n = 0 \/ i < n THEN FreeAt(c, i) ELSE FreeAt(c, i + 1)
  <2>1. c \in Connection
    BY Places
  <2>2. AskAt(c, i)' => IF c = d THEN AskAt(c, i + 1) /\ i >= 1 ELSE AskAt(c, i)
    BY <1>1, <2>1, AskTaken
  <2>3. CASE n = 0
    <3>1. UNCHANGED consumers
      BY <1>2, <2>3 DEF queueUnsubscribe
    <3> QED
      BY <2>1, <2>2, <2>3, <3>1 DEF FreeAt
  <2>4. CASE n # 0
    <3>1. consumers' = Splice(n) /\ n \in DOMAIN consumers
      BY <1>2, <1>3, <2>4 DEF queueUnsubscribe
    <3>2. /\ Len(consumers) \in Nat /\ DOMAIN consumers = 1 .. Len(consumers)
          /\ DOMAIN consumers' = 1 .. Len(consumers) - 1
          /\ \A j \in DOMAIN consumers' :
               consumers'[j] = IF j < n THEN consumers[j] ELSE consumers[j + 1]
      BY <3>1, ConsumerLeaves DEF QueueTypes
    <3>3. FreeAt(c, i)' => IF i < n THEN FreeAt(c, i) ELSE FreeAt(c, i + 1)
      <4> SUFFICES ASSUME FreeAt(c, i)' PROVE IF i < n THEN FreeAt(c, i) ELSE FreeAt(c, i + 1)
        OBVIOUS
      <4>1. i \in DOMAIN consumers' /\ consumers'[i].con = c /\ consumers'[i].handling = {}
        BY DEF FreeAt
      <4>2. i \in DOMAIN consumers /\ i + 1 \in DOMAIN consumers
        BY <3>2, <4>1
      <4> QED
        BY <3>2, <4>1, <4>2 DEF FreeAt
    <3> QED
      BY <2>1, <2>2, <2>4, <3>3
  <2> QED
    BY <2>3, <2>4
<1>5. PICK h : h = [s \in Tokens(p) |->
         CASE s[1] = "ask" /\ s[2] = d -> <<"ask", d, s[3] - 1>>
           [] s[1] = "free" /\ n # 0 /\ s[3] > n -> <<"free", s[2], s[3] - 1>>
           [] OTHER -> s]
  OBVIOUS
<1>6. ASSUME NEW c \in ConnectionsOf[p], NEW i \in Nat
      PROVE  /\ HandleAt(c, i)' => \E s \in Tokens(p) : h[s] = <<"way", c, i>>
             /\ AskAt(c, i)' => \E s \in Tokens(p) : h[s] = <<"ask", c, i>>
             /\ FreeAt(c, i)' => \E s \in Tokens(p) : h[s] = <<"free", c, i>>
  <2>1. ASSUME HandleAt(c, i)'
        PROVE  \E s \in Tokens(p) : h[s] = <<"way", c, i>>
    <3>1. <<"way", c, i>> \in Tokens(p)
      BY <1>4, <2>1, TokenOf
    <3>2. h[<<"way", c, i>>] = <<"way", c, i>>
      BY <1>5, <3>1
    <3> QED
      BY <3>1, <3>2
  <2>2. ASSUME AskAt(c, i)'
        PROVE  \E s \in Tokens(p) : h[s] = <<"ask", c, i>>
    <3>1. CASE c = d
      <4>1. AskAt(c, i + 1) /\ i + 1 \in Nat /\ (i + 1) - 1 = i
        BY <1>4, <2>2, <3>1
      <4>2. <<"ask", c, i + 1>> \in Tokens(p)
        BY <4>1, TokenOf
      <4>3. h[<<"ask", c, i + 1>>] = <<"ask", c, i>>
        BY <1>5, <3>1, <4>1, <4>2
      <4> QED
        BY <4>2, <4>3
    <3>2. CASE c # d
      <4>1. <<"ask", c, i>> \in Tokens(p)
        BY <1>4, <2>2, <3>2, TokenOf
      <4>2. h[<<"ask", c, i>>] = <<"ask", c, i>>
        BY <1>5, <3>2, <4>1
      <4> QED
        BY <4>1, <4>2
    <3> QED
      BY <3>1, <3>2
  <2>3. ASSUME FreeAt(c, i)'
        PROVE  \E s \in Tokens(p) : h[s] = <<"free", c, i>>
    <3>1. CASE n = 0 \/ i < n
      <4>1. <<"free", c, i>> \in Tokens(p)
        BY <1>4, <2>3, <3>1, TokenOf
      <4>2. ~(n # 0 /\ i > n)
        BY <1>3, <3>1
      <4>3. h[<<"free", c, i>>] = <<"free", c, i>>
        BY <1>5, <4>1, <4>2
      <4> QED
        BY <4>1, <4>3
    <3>2. CASE ~(n = 0 \/ i < n)
      <4>1. FreeAt(c, i + 1) /\ i + 1 \in Nat /\ (i + 1) - 1 = i /\ n # 0 /\ i + 1 > n
        BY <1>3, <1>4, <2>3, <3>2
      <4>2. <<"free", c, i + 1>> \in Tokens(p)
        BY <4>1, TokenOf
      <4>3. h[<<"free", c, i + 1>>] = <<"free", c, i>>
        BY <1>5, <4>1, <4>2
      <4> QED
        BY <4>2, <4>3
    <3> QED
      BY <3>1, <3>2
  <2> QED
    BY <2>1, <2>2, <2>3
<1>7. ASSUME NEW m \in Message, NEW j \in Nat, <<m, j>> \in running'[p]
      PROVE  \E s \in Tokens(p) : h[s] = <<"call", m, j>>
  <2>1. <<"call", m, j>> \in Tokens(p)
    BY <1>1, <1>7, TokenOf
  <2>2. h[<<"call", m, j>>] = <<"call", m, j>>
    BY <1>5, <2>1
  <2> QED
    BY <2>1, <2>2
<1>8. Become(p, h)
  BY <1>6, <1>7 DEF Become
<1> QED
  BY <1>8, TokensFrom

\* A message takes a consumer's place for each connection it is written to.
LEMMA TokensPublish ==
    ASSUME QueueTypes, NEW m \in Message, queuePublish(m),
           NEW p \in Client, IsFiniteSet(Tokens(p))
    PROVE  IsFiniteSet(Tokens(p)') /\ Cardinality(Tokens(p)') <= Cardinality(Tokens(p))
<1>1. UNCHANGED <<toBroker, running>>
  BY DEF queuePublish, clientVars
<1>2. /\ \A c \in Connection : up[c] # "up" => toClient'[c] = toClient[c]
      /\ \A c \in Connection : up[c] = "up" =>
                LET l == Len(toClient[c])
                    k == Cardinality(ChosenOn(c))
                IN  /\ l \in Nat /\ k \in Nat
                    /\ DOMAIN toClient'[c] = 1 .. l + k /\ DOMAIN toClient[c] = 1 .. l
                    /\ \A i \in 1 .. l : toClient'[c][i] = toClient[c][i]
                    /\ \A i \in l + 1 .. l + k : toClient'[c][i] = [type |-> "Handle", msg |-> m]
  BY Writes
<1>3. /\ Chosen = { i \in DOMAIN consumers : consumers[i].handling = {} }
      /\ \A c : IsFiniteSet(ChosenOn(c))
  BY ChosenAre DEF QueueTypes
<1>4. PICK g : \A c \in Connection : Numbers(g[c], ChosenOn(c))
  <2>1. PICK F : F = [c \in Connection |-> ChosenOn(c)]
    OBVIOUS
  <2>2. \A c \in Connection : F[c] = ChosenOn(c) /\ IsFiniteSet(F[c])
    BY <1>3, <2>1
  <2>3. \E g : \A c \in Connection : Numbers(g[c], F[c])
    BY <2>2, Numbered
  <2> QED
    BY <2>2, <2>3
<1> DEFINE Rank(c, i) == CHOOSE r \in 1 .. Cardinality(ChosenOn(c)) : g[c][r] = i
<1>5. ASSUME NEW c \in Connection, NEW r \in 1 .. Cardinality(ChosenOn(c))
      PROVE  g[c][r] \in ChosenOn(c) /\ Rank(c, g[c][r]) = r
  <2>1. /\ g[c][r] \in ChosenOn(c)
        /\ \A x, y \in 1 .. Cardinality(ChosenOn(c)) : g[c][x] = g[c][y] => x = y
    BY <1>4 DEF Numbers
  <2>2. Rank(c, g[c][r]) \in 1 .. Cardinality(ChosenOn(c)) /\ g[c][Rank(c, g[c][r])] = g[c][r]
    OBVIOUS
  <2> QED
    BY <2>1, <2>2
<1> HIDE DEF Rank
<1>6. PICK h : h = [s \in Tokens(p) |->
         IF s[1] = "free" THEN <<"way", s[2], Len(toClient[s[2]]) + Rank(s[2], s[3])>> ELSE s]
  OBVIOUS
<1>7. ASSUME NEW c \in ConnectionsOf[p], NEW i \in Nat
      PROVE  /\ HandleAt(c, i)' => \E s \in Tokens(p) : h[s] = <<"way", c, i>>
             /\ AskAt(c, i)' => \E s \in Tokens(p) : h[s] = <<"ask", c, i>>
             /\ FreeAt(c, i)' => \E s \in Tokens(p) : h[s] = <<"free", c, i>>
  <2>1. c \in Connection
    BY Places
  <2>2. ASSUME HandleAt(c, i)'
        PROVE  \E s \in Tokens(p) : h[s] = <<"way", c, i>>
    <3>1. CASE HandleAt(c, i)
      <4>1. <<"way", c, i>> \in Tokens(p)
        BY <3>1, TokenOf
      <4>2. h[<<"way", c, i>>] = <<"way", c, i>>
        BY <1>6, <4>1
      <4> QED
        BY <4>1, <4>2
    <3>2. CASE ~HandleAt(c, i)
      <4>1. up[c] = "up"
        BY <1>2, <2>1, <2>2, <3>2 DEF HandleAt
      <4>2. PICK l \in Nat, k \in Nat : l = Len(toClient[c]) /\ k = Cardinality(ChosenOn(c))
        BY <1>2, <2>1, <4>1
      <4>3. i \in l + 1 .. l + k
        <5>1. /\ DOMAIN toClient'[c] = 1 .. l + k /\ DOMAIN toClient[c] = 1 .. l
              /\ \A j \in 1 .. l : toClient'[c][j] = toClient[c][j]
          BY <1>2, <2>1, <4>1, <4>2
        <5>2. i \in 1 .. l + k /\ i \notin 1 .. l
          BY <2>2, <3>2, <5>1 DEF HandleAt
        <5> QED
          BY <5>2
      <4>4. PICK r \in 1 .. k : i = l + r
        <5>1. i - l \in 1 .. k /\ i = l + (i - l)
          BY <4>3
        <5> QED
          BY <5>1
      <4>5. g[c][r] \in ChosenOn(c) /\ Rank(c, g[c][r]) = r
        BY <1>5, <2>1, <4>2, <4>4
      <4>6. FreeAt(c, g[c][r]) /\ g[c][r] \in Nat
        BY <1>3, <4>5 DEF FreeAt, ChosenOn, QueueTypes, BrokerTypes
      <4>7. <<"free", c, g[c][r]>> \in Tokens(p)
        BY <4>6, TokenOf
      <4>8. h[<<"free", c, g[c][r]>>] = <<"way", c, i>>
        BY <1>6, <4>2, <4>4, <4>5, <4>7
      <4> QED
        BY <4>7, <4>8
    <3> QED
      BY <3>1, <3>2
  <2>3. ASSUME AskAt(c, i)'
        PROVE  \E s \in Tokens(p) : h[s] = <<"ask", c, i>>
    <3>1. <<"ask", c, i>> \in Tokens(p)
      BY <1>1, <2>3, TokenOf DEF AskAt
    <3>2. h[<<"ask", c, i>>] = <<"ask", c, i>>
      BY <1>6, <3>1
    <3> QED
      BY <3>1, <3>2
  <2>4. ~FreeAt(c, i)'
    <3>1. /\ DOMAIN consumers' = DOMAIN consumers
          /\ \A j \in DOMAIN consumers :
               consumers'[j].handling = IF j \in Chosen THEN {m} ELSE consumers[j].handling
      BY Dispatched DEF QueueTypes
    <3> QED
      BY <1>3, <3>1 DEF FreeAt
  <2> QED
    BY <2>2, <2>3, <2>4
<1>8. ASSUME NEW n \in Message, NEW j \in Nat, <<n, j>> \in running'[p]
      PROVE  \E s \in Tokens(p) : h[s] = <<"call", n, j>>
  <2>1. <<"call", n, j>> \in Tokens(p)
    BY <1>1, <1>8, TokenOf
  <2>2. h[<<"call", n, j>>] = <<"call", n, j>>
    BY <1>6, <2>1
  <2> QED
    BY <2>1, <2>2
<1>9. Become(p, h)
  BY <1>7, <1>8 DEF Become
<1> QED
  BY <1>9, TokensFrom

\* A message that is handed over becomes a call.
LEMMA TokensReceive ==
    ASSUME QueueTypes, NEW q \in Client, NEW d \in Connection, NEW n \in 1 .. Len(toClient[d]),
           Receive(q, d, n), NEW p \in Client, IsFiniteSet(Tokens(p))
    PROVE  IsFiniteSet(Tokens(p)') /\ Cardinality(Tokens(p)') <= Cardinality(Tokens(p))
<1>1. /\ d \in ConnectionsOf[q]
      /\ \A c \in Connection \ {d} : toClient'[c] = toClient[c]
      /\ Len(toClient[d]) \in Nat /\ DOMAIN toClient[d] = 1 .. Len(toClient[d])
      /\ DOMAIN toClient'[d] = 1 .. Len(toClient[d]) - n
      /\ \A i \in DOMAIN toClient'[d] : toClient'[d][i] = toClient[d][i + n]
      /\ \A m : IsFiniteSet(Given(d, n, m)) /\ Cardinality(Given(d, n, m)) \in Nat
  BY Receives
<1>2. UNCHANGED <<consumers, toBroker>> /\ n \in Nat /\ n >= 1
  BY <1>1 DEF Receive, brokerVars
<1>3. running \in [Client -> SUBSET Calls] /\ processed \in [Message -> Nat]
  BY DEF QueueTypes, ClientTypes
<1>4. ASSUME NEW c \in Connection, NEW i \in Nat
      PROVE  /\ HandleAt(c, i)' => IF c = d THEN HandleAt(c, i + n) ELSE HandleAt(c, i)
             /\ AskAt(c, i)' => AskAt(c, i)
             /\ FreeAt(c, i)' => FreeAt(c, i)
  <2>1. HandleAt(c, i)' => IF c = d THEN HandleAt(c, i + n) ELSE HandleAt(c, i)
    <3>1. CASE c = d
      <4> SUFFICES ASSUME HandleAt(c, i)' PROVE HandleAt(c, i + n)
        BY <3>1
      <4>1. i \in DOMAIN toClient'[d] /\ toClient'[d][i] = toClient[d][i + n]
            /\ IsHandle(toClient'[d][i])
        BY <1>1, <3>1 DEF HandleAt
      <4>2. i + n \in DOMAIN toClient[d]
        BY <1>1, <1>2, <4>1
      <4> QED
        BY <3>1, <4>1, <4>2 DEF HandleAt
    <3>2. CASE c # d
      BY <1>1, <3>2 DEF HandleAt
    <3> QED
      BY <3>1, <3>2
  <2> QED
    BY <1>2, <2>1 DEF AskAt, FreeAt
<1>5. CASE q # p
  <2>1. d \notin ConnectionsOf[p]
    BY <1>1, <1>5, OthersConnection
  <2>2. running'[p] = running[p]
    <3>1. \/ UNCHANGED running
          \/ \E x : running' = [running EXCEPT ![q] = x]
      BY DEF Receive
    <3> QED
      BY <1>3, <1>5, <3>1
  <2>3. \A c \in ConnectionsOf[p] : \A i \in Nat :
             /\ HandleAt(c, i)' => HandleAt(c, i)
             /\ AskAt(c, i)' => AskAt(c, i)
             /\ FreeAt(c, i)' => FreeAt(c, i)
    <3> SUFFICES ASSUME NEW c \in ConnectionsOf[p], NEW i \in Nat
                 PROVE  /\ HandleAt(c, i)' => HandleAt(c, i)
                        /\ AskAt(c, i)' => AskAt(c, i)
                        /\ FreeAt(c, i)' => FreeAt(c, i)
      OBVIOUS
    <3>1. c \in Connection /\ c # d
      BY <2>1, Places
    <3> QED
      BY <1>4, <3>1
  <2> QED
    BY <2>2, <2>3, TokensKept
<1>6. CASE q = p
  <2>1. PICK g : \A m \in Message : Numbers(g[m], Given(d, n, m))
    <3>1. PICK F : F = [m \in Message |-> Given(d, n, m)]
      OBVIOUS
    <3>2. \A m \in Message : F[m] = Given(d, n, m) /\ IsFiniteSet(F[m])
      BY <1>1, <3>1
    <3>3. \E g : \A m \in Message : Numbers(g[m], F[m])
      BY <3>2, Numbered
    <3> QED
      BY <3>2, <3>3
  <2> DEFINE Rank(m, i) == CHOOSE r \in 1 .. Cardinality(Given(d, n, m)) : g[m][r] = i
  <2>2. ASSUME NEW m \in Message, NEW r \in 1 .. Cardinality(Given(d, n, m))
        PROVE  g[m][r] \in Given(d, n, m) /\ Rank(m, g[m][r]) = r
    <3>1. /\ g[m][r] \in Given(d, n, m)
          /\ \A x, y \in 1 .. Cardinality(Given(d, n, m)) : g[m][x] = g[m][y] => x = y
      BY <2>1 DEF Numbers
    <3>2. Rank(m, g[m][r]) \in 1 .. Cardinality(Given(d, n, m)) /\ g[m][Rank(m, g[m][r])] = g[m][r]
      OBVIOUS
    <3> QED
      BY <3>1, <3>2
  <2> HIDE DEF Rank
  <2> DEFINE msgAt(i) == toClient[d][i].msg
  <2>3. PICK h : h = [s \in Tokens(p) |->
           IF s[1] = "way" /\ s[2] = d
           THEN IF s[3] > n THEN <<"way", d, s[3] - n>>
                ELSE <<"call", msgAt(s[3]), processed[msgAt(s[3])] + Rank(msgAt(s[3]), s[3])>>
           ELSE s]
    OBVIOUS
  <2>4. ASSUME NEW c \in ConnectionsOf[p], NEW i \in Nat
        PROVE  /\ HandleAt(c, i)' => \E s \in Tokens(p) : h[s] = <<"way", c, i>>
               /\ AskAt(c, i)' => \E s \in Tokens(p) : h[s] = <<"ask", c, i>>
               /\ FreeAt(c, i)' => \E s \in Tokens(p) : h[s] = <<"free", c, i>>
    <3>1. c \in Connection
      BY Places
    <3>2. ASSUME HandleAt(c, i)'
          PROVE  \E s \in Tokens(p) : h[s] = <<"way", c, i>>
      <4>1. CASE c = d
        <5>1. HandleAt(c, i + n) /\ i >= 1
          BY <1>1, <1>4, <3>1, <3>2, <4>1 DEF HandleAt
        <5>2. i + n \in Nat /\ i + n > n /\ (i + n) - n = i
          BY <1>2, <5>1
        <5>3. <<"way", c, i + n>> \in Tokens(p)
          BY <5>1, <5>2, TokenOf
        <5>4. h[<<"way", c, i + n>>] = <<"way", c, i>>
          BY <2>3, <4>1, <5>2, <5>3
        <5> QED
          BY <5>3, <5>4
      <4>2. CASE c # d
        <5>1. <<"way", c, i>> \in Tokens(p)
          BY <1>4, <3>1, <3>2, <4>2, TokenOf
        <5>2. h[<<"way", c, i>>] = <<"way", c, i>>
          BY <2>3, <4>2, <5>1
        <5> QED
          BY <5>1, <5>2
      <4> QED
        BY <4>1, <4>2
    <3>3. ASSUME AskAt(c, i)'
          PROVE  \E s \in Tokens(p) : h[s] = <<"ask", c, i>>
      <4>1. <<"ask", c, i>> \in Tokens(p)
        BY <1>4, <3>1, <3>3, TokenOf
      <4>2. h[<<"ask", c, i>>] = <<"ask", c, i>>
        BY <2>3, <4>1
      <4> QED
        BY <4>1, <4>2
    <3>4. ASSUME FreeAt(c, i)'
          PROVE  \E s \in Tokens(p) : h[s] = <<"free", c, i>>
      <4>1. <<"free", c, i>> \in Tokens(p)
        BY <1>4, <3>1, <3>4, TokenOf
      <4>2. h[<<"free", c, i>>] = <<"free", c, i>>
        BY <2>3, <4>1
      <4> QED
        BY <4>1, <4>2
    <3> QED
      BY <3>2, <3>3, <3>4
  <2>5. ASSUME NEW m \in Message, NEW j \in Nat, <<m, j>> \in running'[p]
        PROVE  \E s \in Tokens(p) : h[s] = <<"call", m, j>>
    <3>1. CASE <<m, j>> \in running[p]
      <4>1. <<"call", m, j>> \in Tokens(p)
        BY <3>1, TokenOf
      <4>2. h[<<"call", m, j>>] = <<"call", m, j>>
        BY <2>3, <4>1
      <4> QED
        BY <4>1, <4>2
    <3>2. CASE <<m, j>> \notin running[p]
      <4>1. callback[p] # Nothing
        BY <1>6, <2>5, <3>2 DEF Receive
      <4> DEFINE new == UNION { {x} \X (processed[x] + 1 .. processed'[x]) : x \in Message }
      <4>2. /\ processed' = [x \in Message |-> processed[x] + Cardinality(Given(d, n, x))]
            /\ running' = [running EXCEPT ![p] = @ \cup new]
        BY <1>6, <4>1 DEF Receive, Given
      <4>3. <<m, j>> \in new => j \in processed[m] + 1 .. processed'[m]
        OBVIOUS
      <4> HIDE DEF new
      <4>4. j \in processed[m] + 1 .. processed[m] + Cardinality(Given(d, n, m))
        BY <1>3, <2>5, <3>2, <4>2, <4>3
      <4>5. PICK r \in 1 .. Cardinality(Given(d, n, m)) : j = processed[m] + r
        <5>1. processed[m] \in Nat /\ Cardinality(Given(d, n, m)) \in Nat
          BY <1>1, <1>3
        <5>2. j - processed[m] \in 1 .. Cardinality(Given(d, n, m)) /\ j = processed[m] + (j - processed[m])
          BY <4>4, <5>1
        <5> QED
          BY <5>2
      <4>6. g[m][r] \in Given(d, n, m) /\ Rank(m, g[m][r]) = r
        BY <2>2
      <4>7. PICK i \in 1 .. n : i = g[m][r] /\ toClient[d][i].type = "Handle" /\ toClient[d][i].msg = m
        BY <4>6 DEF Given
      <4>8. HandleAt(d, i) /\ i \in Nat /\ ~(i > n)
        BY <1>1, <1>2, <4>7 DEF HandleAt, IsHandle
      <4>9. <<"way", d, i>> \in Tokens(p)
        BY <1>1, <1>6, <4>8, TokenOf
      <4>10. h[<<"way", d, i>>] = <<"call", m, j>>
        <5>1. h[<<"way", d, i>>] = <<"call", msgAt(i), processed[msgAt(i)] + Rank(msgAt(i), i)>>
          BY <2>3, <4>8, <4>9
        <5> QED
          BY <4>5, <4>6, <4>7, <5>1
      <4> QED
        BY <4>9, <4>10
    <3> QED
      BY <3>1, <3>2
  <2>6. Become(p, h)
    BY <2>4, <2>5 DEF Become
  <2> QED
    BY <2>6, TokensFrom
<1> QED
  BY <1>5, <1>6

\* What else does not touch them.
LEMMA TokensElse ==
    ASSUME QueueTypes, [QueueNext]_queueVars,
           \A c \in Connection : \A i \in Nat : HandleAt(c, i)' => HandleAt(c, i),
           UNCHANGED <<consumers, running>>,
           \A c \in Connection : toBroker'[c] = toBroker[c] \/ toBroker'[c] = <<>>,
           NEW p \in Client, IsFiniteSet(Tokens(p))
    PROVE  IsFiniteSet(Tokens(p)') /\ Cardinality(Tokens(p)') <= Cardinality(Tokens(p))
<1>1. \A c \in ConnectionsOf[p] : c \in Connection
  BY Places
<1>2. \A c \in Connection : \A i \in Nat :
        (AskAt(c, i)' => AskAt(c, i)) /\ (FreeAt(c, i)' => FreeAt(c, i))
  BY DEF AskAt, FreeAt
<1> QED
  BY <1>1, <1>2, TokensKept

\* release() sends what is no token.
LEMMA TokensRelease ==
    ASSUME QueueTypes, NEW k \in Sub, release(k), NEW p \in Client, IsFiniteSet(Tokens(p))
    PROVE  IsFiniteSet(Tokens(p)') /\ Cardinality(Tokens(p)') <= Cardinality(Tokens(p))
<1>1. UNCHANGED <<consumers, toClient, running>>
  BY DEF release, brokerVars
<1>2. ClientOf[k] \in Client /\ [type |-> "Unsubscribe", sub |-> k] \in Packet
  BY BrokerQueueAssumption, PacketKinds
<1>3. PICK packet \in Packet : packet = [type |-> "Unsubscribe", sub |-> k]
  BY <1>2
<1>4. PICK d \in ConnectionsOf[ClientOf[k]] :
        d \in Connection /\ toBroker' = [toBroker EXCEPT ![d] = Append(@, packet)]
  <2>1. Send(ClientOf[k], packet)
    BY <1>3 DEF release
  <2> QED
    BY <1>2, <2>1, Sends
<1>5. ASSUME NEW c \in ConnectionsOf[p], NEW i \in Nat
      PROVE  /\ HandleAt(c, i)' => HandleAt(c, i)
             /\ FreeAt(c, i)' => FreeAt(c, i)
             /\ AskAt(c, i)' => AskAt(c, i)
  <2>1. c \in Connection
    BY Places
  <2>2. packet.type = "Unsubscribe"
    BY <1>3
  <2> QED
    BY <1>1, <1>4, <2>1, <2>2, AskSent DEF HandleAt, FreeAt
<1> QED
  BY <1>1, <1>5, TokensKept

\* A consume() that has been called stays called; only consume() adds one.
LEMMA StartedStep ==
    ASSUME QueueTypes, [QueueNext]_queueVars, NEW p \in Client, IsFiniteSet(Started(p))
    PROVE  /\ IsFiniteSet(Started(p)')
           /\ Cardinality(Started(p)') >= Cardinality(Started(p))
           /\ \A k \in Sub : consume(k) /\ ClientOf[k] = p =>
                Cardinality(Started(p)') = Cardinality(Started(p)) + 1
<1>1. sub \in [Sub -> SubState]
  BY DEF QueueTypes, ClientTypes
<1>2. Cardinality(Started(p)) \in Nat
  BY FS_CardinalityType
<1>3. ASSUME NEW k \in Sub, consume(k)
      PROVE  Started(p)' = IF ClientOf[k] = p THEN Started(p) \cup {k} ELSE Started(p)
  <2>1. sub[k] = "new" /\ sub' = [sub EXCEPT ![k] = "subscribing"]
    BY <1>3 DEF consume
  <2> QED
    BY <1>1, <2>1 DEF Started
<1>4. ASSUME NEW k \in Sub, consume(k), ClientOf[k] = p
      PROVE  IsFiniteSet(Started(p)') /\ Cardinality(Started(p)') = Cardinality(Started(p)) + 1
  <2>1. Started(p)' = Started(p) \cup {k}
    BY <1>3, <1>4
  <2>2. k \notin Started(p)
    BY <1>4 DEF Started, consume
  <2>3. /\ IsFiniteSet(Started(p) \cup {k})
        /\ Cardinality(Started(p) \cup {k}) =
             IF k \in Started(p) THEN Cardinality(Started(p)) ELSE Cardinality(Started(p)) + 1
    BY FS_AddElement
  <2> QED
    BY <2>1, <2>2, <2>3
<1>5. ASSUME NEW k \in Sub, consume(k), ClientOf[k] # p
      PROVE  Started(p)' = Started(p)
  BY <1>3, <1>5
<1>6. ASSUME NEW q \in Client, Deliver(q)
      PROVE  IsFiniteSet(Started(p)') /\ Cardinality(Started(p)') >= Cardinality(Started(p))
  <2>1. PICK c \in Connection : \E n \in 1 .. Len(toClient[c]) : Receive(q, c, n)
    BY <1>6 DEF Deliver
  <2>2. PICK n \in 1 .. Len(toClient[c]) : Receive(q, c, n)
    BY <2>1
  <2>3. sub' = [k \in Sub |-> CASE k \in Ready(c, n) -> "consuming"
                                [] k \in Acked(c, n) \ Ready(c, n) -> "over"
                                [] OTHER -> sub[k]]
    BY <2>2 DEF Receive, Acked, Ready
  <2>4. Started(p) \subseteq Started(p)' /\ Started(p)' \subseteq Started(p) \cup Acked(c, n)
    BY <1>1, <2>3 DEF Started, Ready
  <2>5. IsFiniteSet(Acked(c, n))
    <3>1. n \in Nat
      BY <2>2, Receives
    <3> DEFINE places == { i \in 1 .. n : toClient[c][i].type = "Ack" }
    <3>2. IsFiniteSet(places)
      BY <3>1, Counted
    <3> HIDE DEF places
    <3>3. PICK h : h = [i \in places |-> toClient[c][i].sub]
      OBVIOUS
    <3>4. \A k \in Acked(c, n) : \E i \in places : h[i] = k
      BY <3>3 DEF Acked, places
    <3> QED
      BY <3>2, <3>4, Covered
  <2>6. IsFiniteSet(Started(p) \cup Acked(c, n))
    BY <2>5, FS_Union
  <2>7. IsFiniteSet(Started(p)')
    BY <2>4, <2>6, FS_Subset
  <2>8. Cardinality(Started(p)) <= Cardinality(Started(p)') /\ Cardinality(Started(p)') \in Nat
    BY <2>4, <2>7, FS_Subset, FS_CardinalityType
  <2> QED
    BY <1>2, <2>7, <2>8
<1>7. CASE ~(\E q \in Client : Deliver(q)) /\ ~(\E k \in Sub : consume(k))
  <2>1. Started(p)' = Started(p)
    <3>1. CASE UNCHANGED sub
      BY <3>1 DEF Started
    <3>2. ASSUME NEW k \in Sub, release(k) PROVE Started(p)' = Started(p)
      BY <1>1, <3>2 DEF release, Started
    <3>3. ASSUME NEW q \in Client, NEW c \in Connection, Break(q, c) PROVE Started(p)' = Started(p)
      <4>1. sub' = [k \in Sub |-> IF ClientOf[k] = q /\ sub[k] \in {"subscribing", "unsubscribing"}
                                  THEN "over" ELSE sub[k]]
        BY <3>3 DEF Break
      <4> QED
        BY <1>1, <4>1 DEF Started
    <3>4. \/ UNCHANGED sub
          \/ \E k \in Sub : release(k)
          \/ \E q \in Client, c \in Connection : Break(q, c)
      BY <1>7, LeavesAlone DEF QueueNext, Handler
    <3> QED
      BY <3>1, <3>2, <3>3, <3>4
  <2> QED
    BY <1>2, <1>7, <2>1
<1>8. ASSUME NEW k \in Sub, consume(k)
      PROVE  IsFiniteSet(Started(p)') /\ Cardinality(Started(p)') >= Cardinality(Started(p))
  BY <1>2, <1>4, <1>5, <1>8
<1> QED
  BY <1>4, <1>6, <1>7, <1>8

\* At first there are no tokens.
LEMMA LimitedInit == QueueInit => CallsLimited
<1> SUFFICES ASSUME QueueInit, NEW p \in Client
             PROVE  /\ IsFiniteSet(Started(p)) /\ IsFiniteSet(Tokens(p))
                    /\ Cardinality(Tokens(p)) <= Cardinality(Started(p))
  BY DEF CallsLimited
<1>1. Started(p) = {}
  BY DEF Started, QueueInit
<1>2. Tokens(p) = {}
  <2>1. ASSUME NEW c \in ConnectionsOf[p], NEW i
        PROVE  ~HandleAt(c, i) /\ ~AskAt(c, i) /\ ~FreeAt(c, i)
    <3>1. c \in Connection
      BY Places
    <3> QED
      BY <3>1 DEF HandleAt, AskAt, FreeAt, QueueInit
  <2>2. running[p] = {}
    BY DEF QueueInit
  <2> QED
    BY <2>1, <2>2 DEF Tokens
<1> QED
  BY <1>1, <1>2, FS_EmptySet

\* Only consume() makes a token; every other step turns tokens into others.
LEMMA LimitedStep == QueueTypes /\ CallsLimited /\ [QueueNext]_queueVars => CallsLimited'
<1> SUFFICES ASSUME QueueTypes, CallsLimited, [QueueNext]_queueVars, NEW p \in Client
             PROVE  /\ IsFiniteSet(Started(p)') /\ IsFiniteSet(Tokens(p)')
                    /\ Cardinality(Tokens(p)') <= Cardinality(Started(p)')
  BY DEF CallsLimited
<1>1. /\ IsFiniteSet(Started(p)) /\ IsFiniteSet(Tokens(p))
      /\ Cardinality(Tokens(p)) <= Cardinality(Started(p))
  BY DEF CallsLimited
<1>2. /\ IsFiniteSet(Started(p)')
      /\ Cardinality(Started(p)') >= Cardinality(Started(p))
      /\ \A k \in Sub : consume(k) /\ ClientOf[k] = p =>
           Cardinality(Started(p)') = Cardinality(Started(p)) + 1
  BY <1>1, StartedStep
<1>3. Cardinality(Started(p)) \in Nat /\ Cardinality(Started(p)') \in Nat /\ Cardinality(Tokens(p)) \in Nat
  BY <1>1, <1>2, FS_CardinalityType
<1>4. ASSUME IsFiniteSet(Tokens(p)'), Cardinality(Tokens(p)') <= Cardinality(Tokens(p))
      PROVE  /\ IsFiniteSet(Started(p)') /\ IsFiniteSet(Tokens(p)')
             /\ Cardinality(Tokens(p)') <= Cardinality(Started(p)')
  <2>1. Cardinality(Tokens(p)') \in Nat
    BY <1>4, FS_CardinalityType
  <2> QED
    BY <1>1, <1>2, <1>3, <1>4, <2>1
<1>5. ASSUME NEW k \in Sub, consume(k)
      PROVE  /\ IsFiniteSet(Started(p)') /\ IsFiniteSet(Tokens(p)')
             /\ Cardinality(Tokens(p)') <= Cardinality(Started(p)')
  <2>1. /\ IsFiniteSet(Tokens(p)')
        /\ Cardinality(Tokens(p)') <= Cardinality(Tokens(p)) + (IF ClientOf[k] = p THEN 1 ELSE 0)
    BY <1>1, <1>5, TokensConsume
  <2>2. Cardinality(Tokens(p)') \in Nat
    BY <2>1, FS_CardinalityType
  <2>3. CASE ClientOf[k] = p
    <3>1. Cardinality(Started(p)') = Cardinality(Started(p)) + 1
      BY <1>2, <1>5, <2>3
    <3>2. Cardinality(Tokens(p)') <= Cardinality(Tokens(p)) + 1
      BY <2>1, <2>3
    <3> QED
      BY <1>1, <1>2, <1>3, <2>1, <2>2, <3>1, <3>2
  <2>4. CASE ClientOf[k] # p
    <3>1. Cardinality(Tokens(p)') <= Cardinality(Tokens(p)) + 0
      BY <2>1, <2>4
    <3> QED
      BY <1>1, <1>2, <1>3, <2>1, <2>2, <3>1
  <2> QED
    BY <2>3, <2>4
<1>6. CASE \E m \in Message : queuePublish(m)
  BY <1>1, <1>4, <1>6, TokensPublish
<1>7. ASSUME NEW q \in Client, Deliver(q)
      PROVE  IsFiniteSet(Tokens(p)') /\ Cardinality(Tokens(p)') <= Cardinality(Tokens(p))
  <2>1. PICK c \in Connection : \E n \in 1 .. Len(toClient[c]) : Receive(q, c, n)
    BY <1>7 DEF Deliver
  <2>2. PICK n \in 1 .. Len(toClient[c]) : Receive(q, c, n)
    BY <2>1
  <2> QED
    BY <1>1, <2>2, TokensReceive
<1>8. CASE /\ ~(\E m \in Message : queuePublish(m)) /\ ~(\E q \in Client : Deliver(q))
           /\ ~(\E k \in Sub : consume(k))
  <2>1. \A c \in Connection : \A i \in Nat : HandleAt(c, i)' => HandleAt(c, i)
    <3> SUFFICES ASSUME NEW c \in Connection, NEW i \in Nat, HandleAt(c, i)' PROVE HandleAt(c, i)
      OBVIOUS
    <3> QED
      BY <1>8, HandlesElse
  <2>2. CASE \E q \in Client : Finish(q)
    BY <1>1, <1>4, <2>2, TokensFinish
  <2>3. CASE \E k \in Sub : release(k)
    BY <1>1, <1>4, <2>3, TokensRelease
  <2>4. ASSUME NEW c \in Connection, Handler(c)
        PROVE  IsFiniteSet(Tokens(p)') /\ Cardinality(Tokens(p)') <= Cardinality(Tokens(p))
    BY <1>1, <2>1, <2>4, TokensSubscribe, TokensUnsubscribe, TokensHandled DEF Handler
  <2>5. CASE /\ UNCHANGED <<consumers, running>>
             /\ \A c \in Connection : toBroker'[c] = toBroker[c] \/ toBroker'[c] = <<>>
    BY <1>1, <1>4, <2>1, <2>5, TokensElse
  <2>6. CASE \E q \in Client, d \in Connection : Break(q, d)
    <3>1. PICK q \in Client, d \in Connection : Break(q, d)
      BY <2>6
    <3>2. UNCHANGED <<consumers, running>> /\ toBroker' = [toBroker EXCEPT ![d] = <<>>]
      BY <3>1 DEF Break, brokerVars
    <3>3. \A c \in Connection : toBroker'[c] = toBroker[c] \/ toBroker'[c] = <<>>
      BY <3>2 DEF QueueTypes, NetTypes
    <3> QED
      BY <2>5, <3>2, <3>3
  <2>7. CASE UNCHANGED <<consumers, running, toBroker>>
    BY <2>5, <2>7
  <2>8. \/ UNCHANGED <<consumers, running, toBroker>>
        \/ \E q \in Client : Finish(q) \/ \E d \in Connection : Break(q, d)
        \/ \E k \in Sub : release(k)
        \/ \E c \in Connection : Handler(c)
    BY <1>8, LeavesAlone DEF QueueNext, Handler
  <2> QED
    BY <1>4, <2>2, <2>3, <2>4, <2>6, <2>7, <2>8
<1> QED
  BY <1>4, <1>5, <1>6, <1>7, <1>8

\* The calls of a client are among its tokens.
LEMMA LimitedCalls == QueueTypes /\ CallsLimited => ParallelBounded
<1> SUFFICES ASSUME QueueTypes, CallsLimited, NEW p \in Client
             PROVE  Cardinality(running[p]) <= Cardinality(Started(p))
  BY DEF ParallelBounded, Started
<1>1. /\ IsFiniteSet(Started(p)) /\ IsFiniteSet(Tokens(p))
      /\ Cardinality(Tokens(p)) <= Cardinality(Started(p))
  BY DEF CallsLimited
<1>2. PICK f : f = [call \in running[p] |-> <<"call", call[1], call[2]>>]
  OBVIOUS
<1>3. ASSUME NEW call \in running[p]
      PROVE  call = <<call[1], call[2]>> /\ call[1] \in Message /\ call[2] \in Nat
  BY DEF QueueTypes, ClientTypes, Calls
<1>4. ASSUME NEW call \in running[p] PROVE f[call] \in Tokens(p)
  BY <1>2, <1>3, TokenOf
<1>5. f \in [running[p] -> Tokens(p)]
  BY <1>2, <1>4
<1>6. \A x, y \in running[p] : f[x] = f[y] => x = y
  BY <1>2, <1>3
<1>7. IsFiniteSet(running[p]) /\ Cardinality(running[p]) <= Cardinality(Tokens(p))
  BY <1>1, <1>5, <1>6, NotMore
<1>8. Cardinality(running[p]) \in Nat /\ Cardinality(Tokens(p)) \in Nat /\ Cardinality(Started(p)) \in Nat
  BY <1>1, <1>7, FS_CardinalityType
<1> QED
  BY <1>1, <1>7, <1>8

-----------------------------------------------------------------------------
(* The connections.                                                        *)

\* The broker has a consumer for a connection; it has one at most.
Serves(c) == \E i \in DOMAIN consumers : consumers[i].con = c
OneConsumer(c) == \A i, j \in DOMAIN consumers : consumers[i].con = c /\ consumers[j].con = c => i = j

\* Nothing is under way but on an open connection, of which a client has one.
Reachable ==
  /\ \A c \in Connection :
       /\ up[c] # "up" => toBroker[c] = <<>> /\ toClient[c] = <<>>
       /\ up[c] = "new" => ~Serves(c)
       /\ up[c] # "new" => \E p \in Client : c \in ConnectionsOf[p]
  /\ \A p \in Client : \A c, d \in ConnectionsOf[p] : up[c] = "up" /\ up[d] = "up" => c = d

\* No connection was opened.
LEMMA ConnectedInit == QueueInit => Reachable
<1> SUFFICES ASSUME QueueInit PROVE Reachable
  OBVIOUS
<1>1. \A p \in Client : \A c \in ConnectionsOf[p] : c \in Connection
  BY Places
<1> QED
  BY <1>1 DEF QueueInit, Reachable, Serves

\* A connection gets a consumer by queueSubscribe().
LEMMA ServesStep ==
    ASSUME QueueTypes, [QueueNext]_queueVars, NEW c \in Connection
    PROVE  /\ Serves(c)' => Serves(c) \/ queueSubscribe(c)
           /\ OneConsumer(c) /\ (queueSubscribe(c) => ~Serves(c)) => OneConsumer(c)'
<1>1. BrokerTypes
  BY DEF QueueTypes
<1>2. CASE UNCHANGED consumers
  BY <1>2 DEF Serves, OneConsumer
<1>3. ASSUME NEW d \in Connection, queueSubscribe(d)
      PROVE  /\ Serves(c)' => Serves(c) \/ queueSubscribe(c)
             /\ OneConsumer(c) /\ (queueSubscribe(c) => ~Serves(c)) => OneConsumer(c)'
  <2>1. consumers' = Append(consumers, [con |-> d, handling |-> {}])
    BY <1>3 DEF queueSubscribe
  <2>2. PICK l \in Nat :
          /\ DOMAIN consumers = 1 .. l
          /\ DOMAIN consumers' = 1 .. l + 1
          /\ \A j \in DOMAIN consumers : consumers'[j] = consumers[j]
          /\ consumers'[l + 1] = [con |-> d, handling |-> {}]
    BY <1>1, <2>1, NewConsumer
  <2>3. \A i \in DOMAIN consumers' : i \in DOMAIN consumers \/ i = l + 1
    BY <2>2
  <2>4. \A i \in DOMAIN consumers' :
          consumers'[i].con = (IF i \in DOMAIN consumers THEN consumers[i].con ELSE d)
    <3>1. consumers'[l + 1].con = d
      BY <2>2
    <3> QED
      BY <2>2, <2>3, <3>1
  <2>5. CASE c = d
    BY <1>3, <2>3, <2>4, <2>5 DEF Serves, OneConsumer
  <2>6. CASE c # d
    BY <2>3, <2>4, <2>6 DEF Serves, OneConsumer
  <2> QED
    BY <2>5, <2>6
<1>4. CASE ~UNCHANGED consumers /\ \E d \in Connection : queueUnsubscribe(d)
  <2>1. PICK d \in Connection : consumers' = Splice(ConsumerOf(d)) /\ ConsumerOf(d) # 0
    BY <1>4 DEF queueUnsubscribe
  <2>2. PICK k \in DOMAIN consumers : k = ConsumerOf(d)
    BY <1>1, <2>1, ConsumerFound
  <2>3. PICK l \in Nat :
          /\ DOMAIN consumers = 1 .. l
          /\ DOMAIN consumers' = 1 .. l - 1
          /\ \A j \in DOMAIN consumers' :
               consumers'[j] = IF j < k THEN consumers[j] ELSE consumers[j + 1]
    BY <1>1, <2>1, <2>2, ConsumerLeaves
  <2> DEFINE old(j) == IF j < k THEN j ELSE j + 1
  <2>4. \A j \in DOMAIN consumers' : old(j) \in DOMAIN consumers /\ consumers'[j] = consumers[old(j)]
    BY <2>3
  <2>5. \A i, j \in DOMAIN consumers' : old(i) = old(j) => i = j
    BY <2>2, <2>3
  <2> HIDE DEF old
  <2> QED
    BY <2>4, <2>5 DEF Serves, OneConsumer
<1>5. CASE /\ DOMAIN consumers' = DOMAIN consumers
           /\ \A i \in DOMAIN consumers : consumers'[i].con = consumers[i].con
  BY <1>5 DEF Serves, OneConsumer
<1>6. CASE \E n \in Message : queuePublish(n)
  BY <1>1, <1>5, <1>6, Dispatched
<1>7. CASE ~UNCHANGED consumers /\ \E d \in Connection : queueMessageHandled(d)
  <2>1. PICK d \in Connection : queueMessageHandled(d)
    BY <1>7
  <2>2. /\ ConsumerOf(d) # 0 /\ consumers' = FreeSlot(ConsumerOf(d), Next1(d).msg)
        /\ Take(d, {"Error", "Success", "Neither"})
    BY <1>7, <2>1 DEF queueMessageHandled
  <2>3. PICK n \in Message : n = Next1(d).msg
    <3>1. Next1(d) \in Packet /\ Next1(d).type \in {"Error", "Success", "Neither"}
      BY <2>2, Takes
    <3> QED
      BY <3>1, PacketKinds DEF IsAnswer
  <2>4. PICK k \in DOMAIN consumers : k = ConsumerOf(d)
    BY <1>1, <2>2, ConsumerFound
  <2> QED
    BY <1>1, <1>5, <2>2, <2>3, <2>4, SlotFreed
<1>8. \/ UNCHANGED consumers
      \/ \E d \in Connection : queueSubscribe(d) \/ queueUnsubscribe(d) \/ queueMessageHandled(d)
      \/ \E n \in Message : queuePublish(n)
  BY LeavesAlone DEF QueueNext, Handler
<1> QED
  BY <1>2, <1>3, <1>4, <1>6, <1>7, <1>8

\* Connections are opened and lost by nothing else.
LEMMA UpStep ==
    ASSUME [QueueNext]_queueVars
    PROVE  \/ UNCHANGED up
           \/ \E p \in Client, c \in Connection : Open(p, c) \/ Break(p, c)
  BY LeavesAlone DEF QueueNext, Handler

\* What does not change on a connection.
OtherChannels(c) ==
  /\ \A d \in Connection \ {c} : toBroker'[d] = toBroker[d]
  /\ \A d \in Connection \ {c} : toClient'[d] = toClient[d]

\* An operation but queuePublish() concerns one connection at most.
LEMMA OneConnection ==
    ASSUME QueueTypes, Reachable
    PROVE  /\ \A p \in Client, c \in Connection : Break(p, c) => up[c] = "up" /\ OtherChannels(c)
           /\ \A p \in Client, c \in Connection : Open(p, c) => UNCHANGED <<toBroker, toClient>>
           /\ \A p \in Client, c \in Connection, n \in Nat :
                Receive(p, c, n) => up[c] = "up" /\ c \in ConnectionsOf[p] /\ OtherChannels(c)
           /\ \A p \in Client, packet \in Packet : Send(p, packet) /\ UNCHANGED toClient =>
                \E c \in ConnectionsOf[p] : c \in Connection /\ up[c] = "up" /\ OtherChannels(c)
           /\ \A c \in Connection : Handler(c) => up[c] = "up" /\ OtherChannels(c)
<1>1. ASSUME NEW p \in Client, NEW c \in Connection, Break(p, c)
      PROVE  up[c] = "up" /\ OtherChannels(c)
  BY <1>1 DEF Break, OtherChannels, QueueTypes, NetTypes
<1>2. ASSUME NEW p \in Client, NEW c \in Connection, Open(p, c)
      PROVE  UNCHANGED <<toBroker, toClient>>
  BY <1>2 DEF Open
<1>3. ASSUME NEW p \in Client, NEW c \in Connection, NEW n \in Nat, Receive(p, c, n)
      PROVE  up[c] = "up" /\ c \in ConnectionsOf[p] /\ OtherChannels(c)
  <2>1. /\ c \in ConnectionsOf[p] /\ n \in 1 .. Len(toClient[c])
        /\ toClient' = [toClient EXCEPT ![c] = SubSeq(@, n + 1, Len(@))] /\ UNCHANGED toBroker
    BY <1>3 DEF Receive
  <2>2. toClient[c] # <<>>
    <3>1. toClient[c] = <<>> => Len(toClient[c]) = 0
      OBVIOUS
    <3> QED
      BY <2>1, <3>1
  <2> QED
    BY <2>1, <2>2 DEF OtherChannels, QueueTypes, NetTypes, Reachable
<1>4. ASSUME NEW p \in Client, NEW packet \in Packet, Send(p, packet), UNCHANGED toClient
      PROVE  \E c \in ConnectionsOf[p] : c \in Connection /\ up[c] = "up" /\ OtherChannels(c)
  <2>1. PICK c \in ConnectionsOf[p] :
             /\ c \in Connection /\ up[c] = "up"
             /\ toBroker' = [toBroker EXCEPT ![c] = Append(@, packet)]
    BY <1>4, Sends
  <2> QED
    BY <1>4, <2>1 DEF OtherChannels, QueueTypes, NetTypes
<1>5. ASSUME NEW c \in Connection, Handler(c)
      PROVE  up[c] = "up" /\ OtherChannels(c)
  <2>1. \E types : Take(c, types)
    BY <1>5 DEF Handler, queueSubscribe, queueUnsubscribe, queueMessageHandled
  <2>2. toBroker[c] # <<>> /\ toBroker' = [toBroker EXCEPT ![c] = Tail(@)]
    BY <2>1 DEF Take
  <2>3. UNCHANGED toClient \/ \E packet : toClient' = [toClient EXCEPT ![c] = Append(@, packet)]
    BY <1>5 DEF Handler, queueSubscribe, queueUnsubscribe, queueMessageHandled, Respond
  <2>4. \A d \in Connection \ {c} : toClient'[d] = toClient[d]
    BY <2>3 DEF QueueTypes, NetTypes
  <2> QED
    BY <2>2, <2>4 DEF OtherChannels, QueueTypes, NetTypes, Reachable
<1> QED
  BY <1>1, <1>2, <1>3, <1>4, <1>5

\* An operation that sends, answers or takes does it over an open connection.
LEMMA OnlyUp ==
    ASSUME QueueTypes, Reachable, [QueueNext]_queueVars, NEW c \in Connection, up[c] # "up"
    PROVE  /\ toBroker'[c] = toBroker[c] /\ toClient'[c] = toClient[c]
           /\ ~queueSubscribe(c)
<1>1. ~queueSubscribe(c)
  BY OneConnection DEF Handler
<1>2. CASE UNCHANGED <<toBroker, toClient>>
  BY <1>1, <1>2
<1>3. ASSUME NEW d \in Connection, up[d] = "up", OtherChannels(d)
      PROVE  toBroker'[c] = toBroker[c] /\ toClient'[c] = toClient[c]
  BY <1>3 DEF OtherChannels
<1>4. CASE \E p \in Client, d \in Connection : Open(p, d) \/ Break(p, d)
  BY <1>1, <1>2, <1>3, <1>4, OneConnection
<1>5. ASSUME NEW p \in Client, Deliver(p)
      PROVE  toBroker'[c] = toBroker[c] /\ toClient'[c] = toClient[c]
  <2>1. PICK d \in Connection : \E n \in 1 .. Len(toClient[d]) : Receive(p, d, n)
    BY <1>5 DEF Deliver
  <2>2. PICK n \in 1 .. Len(toClient[d]) : Receive(p, d, n)
    BY <2>1
  <2>3. n \in Nat
    BY <2>2, Receives
  <2> QED
    BY <1>3, <2>2, <2>3, OneConnection
<1>6. ASSUME NEW p \in Client, Finish(p)
      PROVE  toBroker'[c] = toBroker[c] /\ toClient'[c] = toClient[c]
  <2>1. PICK call \in running[p], answer \in {"Error", "Success", "Neither"} :
          callbackDone(p, call, answer)
    BY <1>6 DEF Finish
  <2>2. call[1] \in Message
    BY DEF QueueTypes, ClientTypes, Calls
  <2>3. PICK packet \in Packet : packet = [type |-> answer, msg |-> call[1]]
    BY <2>2, PacketKinds
  <2>4. Send(p, packet) /\ UNCHANGED toClient
    BY <2>1, <2>3 DEF callbackDone
  <2> QED
    BY <1>3, <2>4, OneConnection
<1>7. ASSUME NEW k \in Sub, consume(k) \/ release(k)
      PROVE  toBroker'[c] = toBroker[c] /\ toClient'[c] = toClient[c]
  <2>1. PICK type \in {"Subscribe", "Unsubscribe"} :
          Send(ClientOf[k], [type |-> type, sub |-> k]) /\ UNCHANGED toClient
    BY <1>7 DEF consume, release
  <2>2. PICK packet \in Packet : packet = [type |-> type, sub |-> k]
    BY PacketKinds
  <2>3. ClientOf[k] \in Client
    BY BrokerQueueAssumption
  <2> QED
    BY <1>3, <2>1, <2>2, <2>3, OneConnection
<1>8. ASSUME NEW d \in Connection, Handler(d)
      PROVE  toBroker'[c] = toBroker[c] /\ toClient'[c] = toClient[c]
  BY <1>3, <1>8, OneConnection
<1>9. ASSUME NEW m \in Message, queuePublish(m)
      PROVE  toBroker'[c] = toBroker[c] /\ toClient'[c] = toClient[c]
  BY <1>9, Writes DEF queuePublish
<1>10. \/ UNCHANGED <<toBroker, toClient>>
       \/ \E p \in Client : Deliver(p) \/ Finish(p)
       \/ \E p \in Client, d \in Connection : Open(p, d) \/ Break(p, d)
       \/ \E k \in Sub : consume(k) \/ release(k)
       \/ \E m \in Message : queuePublish(m)
       \/ \E d \in Connection : Handler(d)
  BY LeavesAlone DEF QueueNext, Handler
<1> QED
  BY <1>1, <1>2, <1>4, <1>5, <1>6, <1>7, <1>8, <1>9, <1>10

\* Every step writes only to a connection that is open.
LEMMA ConnectedStep == QueueTypes /\ Reachable /\ [QueueNext]_queueVars => Reachable'
<1> SUFFICES ASSUME QueueTypes, Reachable, [QueueNext]_queueVars PROVE Reachable'
  OBVIOUS
<1>1. up \in [Connection -> {"new", "up", "down"}]
  BY DEF QueueTypes, NetTypes
<1>2. ASSUME NEW c \in Connection, up'[c] # "up"
      PROVE  toBroker'[c] = <<>> /\ toClient'[c] = <<>>
  <2>1. CASE up[c] # "up"
    BY <2>1, OnlyUp DEF Reachable
  <2>2. CASE up[c] = "up"
    <3>1. PICK p \in Client, d \in Connection : Open(p, d) \/ Break(p, d)
      BY <1>2, <2>2, UpStep
    <3>2. d = c /\ Break(p, c)
      BY <1>1, <1>2, <2>2, <3>1 DEF Open, Break
    <3> QED
      BY <3>2 DEF Break, QueueTypes, NetTypes
  <2> QED
    BY <2>1, <2>2
<1>3. ASSUME NEW c \in Connection, up'[c] = "new"
      PROVE  ~Serves(c)'
  <2>1. up[c] = "new"
    BY <1>1, <1>3, UpStep DEF Open, Break
  <2> QED
    BY <2>1, OnlyUp, ServesStep DEF Reachable
<1>4. ASSUME NEW c \in Connection, up'[c] # "new"
      PROVE  \E p \in Client : c \in ConnectionsOf[p]
  <2>1. CASE up[c] # "new"
    BY <2>1 DEF Reachable
  <2>2. CASE up[c] = "new"
    <3>1. PICK p \in Client, d \in Connection : Open(p, d) \/ Break(p, d)
      BY <1>4, <2>2, UpStep
    <3>2. d = c
      BY <1>1, <1>4, <2>2, <3>1 DEF Open, Break
    <3> QED
      BY <3>1, <3>2 DEF Open, Break
  <2> QED
    BY <2>1, <2>2
<1>5. ASSUME NEW p \in Client, NEW c \in ConnectionsOf[p], NEW d \in ConnectionsOf[p],
             up'[c] = "up", up'[d] = "up"
      PROVE  c = d
  <2>1. c \in Connection /\ d \in Connection
    BY Places
  <2>2. CASE UNCHANGED up
    BY <1>5, <2>2 DEF Reachable
  <2>3. ASSUME NEW q \in Client, NEW e \in Connection, Break(q, e) PROVE c = d
    <3>1. up' = [up EXCEPT ![e] = "down"]
      BY <2>3 DEF Break
    <3>2. up[c] = "up" /\ up[d] = "up"
      BY <1>1, <1>5, <2>1, <3>1
    <3> QED
      BY <3>2 DEF Reachable
  <2>4. ASSUME NEW q \in Client, NEW e \in Connection, Open(q, e) PROVE c = d
    <3>1. /\ up' = [up EXCEPT ![e] = "up"] /\ e \in ConnectionsOf[q]
          /\ \A x \in ConnectionsOf[q] : up[x] # "up"
      BY <2>4 DEF Open
    <3>2. (c = e \/ up[c] = "up") /\ (d = e \/ up[d] = "up")
      BY <1>1, <1>5, <2>1, <3>1
    <3>3. c = e \/ d = e => p = q
      BY <3>1, OthersConnection
    <3> QED
      BY <3>1, <3>2, <3>3 DEF Reachable
  <2> QED
    BY <2>2, <2>3, <2>4, UpStep
<1> QED
  BY <1>2, <1>3, <1>4, <1>5 DEF Reachable

-----------------------------------------------------------------------------
(* One consumer at a time.                                                 *)

\* The calls of consume() of a client.
SubsOf(p) == { k \in Sub : ClientOf[k] = p }

\* What stands at a place of a channel.
RequestAt(c, i) == i \in DOMAIN toBroker[c] /\ toBroker[c][i].type \in {"Subscribe", "Unsubscribe"}
AnswerAt(c, i) == i \in DOMAIN toBroker[c] /\ IsAnswer(toBroker[c][i])
AckAt(c, i) == i \in DOMAIN toClient[c] /\ toClient[c][i].type = "Ack"

\* A client has one consume() that is not over, and a callback since the first one
\* was acknowledged.
OneCall(p) ==
  /\ \A k, j \in SubsOf(p) : Active(k) /\ Active(j) => k = j
  /\ \A k \in SubsOf(p) : sub[k] \in {"consuming", "unsubscribing"} => callback[p] # Nothing

\* It waits for one acknowledgement.
OneControl(c) ==
  /\ \A i, j \in Nat : RequestAt(c, i) /\ RequestAt(c, j) => i = j
  /\ \A i, j \in Nat : AckAt(c, i) /\ AckAt(c, j) => i = j
  /\ \A i, j \in Nat : ~(RequestAt(c, i) /\ AckAt(c, j))

\* A consume() waits for the acknowledgement of what it sent last.
Stages(p, c) ==
  /\ \A i \in Nat : RequestAt(c, i) =>
       /\ toBroker[c][i].sub \in SubsOf(p)
       /\ toBroker[c][i].type = "Subscribe" => sub[toBroker[c][i].sub] = "subscribing" /\ ~Serves(c)
       /\ toBroker[c][i].type = "Unsubscribe" => sub[toBroker[c][i].sub] = "unsubscribing"
  /\ \A i \in Nat : AckAt(c, i) =>
       /\ toClient[c][i].sub \in SubsOf(p)
       /\ sub[toClient[c][i].sub] \in {"subscribing", "unsubscribing"}
       /\ sub[toClient[c][i].sub] = "unsubscribing" => ~Serves(c)

\* The broker has one consumer for it, whose messages reach a callback.
Served(p, c) ==
  /\ OneConsumer(c)
  /\ Serves(c) =>
       \E k \in SubsOf(p) :
         /\ Active(k)
         /\ sub[k] = "subscribing" => \E i \in Nat : AckAt(c, i) /\ toClient[c][i].sub = k
  /\ \A i \in Nat : HandleAt(c, i) =>
       \/ callback[p] # Nothing
       \/ \E j \in Nat : j < i /\ AckAt(c, j) /\ sub[toClient[c][j].sub] = "subscribing"

\* A message runs in a callback, is on its way to it, or its answer is on its way back.
OnTheWay(p, c, m) ==
  \/ \E j \in Nat : <<m, j>> \in running[p]
  \/ \E i \in Nat : HandleAt(c, i) /\ toClient[c][i].msg = m
  \/ \E i \in Nat : AnswerAt(c, i) /\ toBroker[c][i].msg = m

\* So is each message that the broker has given to a consumer.
Accounted(p, c) ==
  \A i \in DOMAIN consumers : \A m \in consumers[i].handling :
    consumers[i].con = c => OnTheWay(p, c, m)

Orderly(p, c) == OneControl(c) /\ Stages(p, c) /\ Served(p, c) /\ Accounted(p, c)

\* What does not concern a connection and its client.
LEMMA Elsewhere ==
    ASSUME QueueTypes, [QueueNext]_queueVars, \A m \in Message : ~queuePublish(m),
           NEW q \in Client, NEW e \in Connection, Orderly(q, e),
           toBroker'[e] = toBroker[e], toClient'[e] = toClient[e],
           \A k \in SubsOf(q) : sub'[k] = sub[k],
           callback[q] # Nothing => callback'[q] # Nothing, running[q] \subseteq running'[q]
    PROVE  Orderly(q, e)'
<1>1. ~queueSubscribe(e)
  <2> SUFFICES ASSUME queueSubscribe(e) PROVE FALSE
    OBVIOUS
  <2>1. Take(e, {"Subscribe"})
    BY DEF queueSubscribe
  <2>2. toBroker' = [toBroker EXCEPT ![e] = Tail(@)] /\ toBroker[e] # <<>> /\ toBroker[e] \in Seq(Packet)
    BY <2>1, Takes
  <2>3. PICK seq \in Seq(Packet) : seq = toBroker[e] /\ seq # <<>>
    BY <2>2
  <2>4. toBroker'[e] = Tail(seq)
    BY <2>2, <2>3 DEF QueueTypes, NetTypes
  <2>5. DOMAIN Tail(seq) = 1 .. Len(seq) - 1 /\ DOMAIN seq = 1 .. Len(seq) /\ Len(seq) \in Nat /\ Len(seq) >= 1
    BY <2>3, Pulled
  <2>6. Len(seq) \in DOMAIN seq /\ Len(seq) \notin DOMAIN Tail(seq)
    BY <2>5
  <2> QED
    BY <2>3, <2>4, <2>6
<1>2. (Serves(e)' => Serves(e)) /\ OneConsumer(e)'
  BY <1>1, ServesStep DEF Orderly, Served
<1>3. \A i \in Nat : /\ RequestAt(e, i)' <=> RequestAt(e, i)
                     /\ AnswerAt(e, i)' <=> AnswerAt(e, i)
                     /\ AckAt(e, i)' <=> AckAt(e, i)
                     /\ HandleAt(e, i)' <=> HandleAt(e, i)
  BY DEF RequestAt, AnswerAt, AckAt, HandleAt
<1>4. OneControl(e)'
  BY <1>3 DEF Orderly, OneControl
<1>5. Stages(q, e)'
  BY <1>2, <1>3 DEF Orderly, Stages
<1>6. Served(q, e)'
  <2>1. ASSUME Serves(e)'
        PROVE  \E k \in SubsOf(q) :
                 /\ Active(k)'
                 /\ sub'[k] = "subscribing" => \E i \in Nat : AckAt(e, i)' /\ toClient'[e][i].sub = k
    <3>1. PICK k \in SubsOf(q) :
            /\ Active(k)
            /\ sub[k] = "subscribing" => \E i \in Nat : AckAt(e, i) /\ toClient[e][i].sub = k
      BY <1>2, <2>1 DEF Orderly, Served
    <3>2. Active(k)'
      BY <3>1 DEF Active
    <3> QED
      BY <1>3, <3>1, <3>2
  <2>2. ASSUME NEW i \in Nat, HandleAt(e, i)'
        PROVE  \/ callback'[q] # Nothing
               \/ \E j \in Nat : j < i /\ AckAt(e, j)' /\ sub'[toClient'[e][j].sub] = "subscribing"
    <3>1. CASE callback[q] # Nothing
      BY <3>1
    <3>2. CASE \E j \in Nat : j < i /\ AckAt(e, j) /\ sub[toClient[e][j].sub] = "subscribing"
      <4>1. PICK j \in Nat : j < i /\ AckAt(e, j) /\ sub[toClient[e][j].sub] = "subscribing"
        BY <3>2
      <4>2. toClient[e][j].sub \in SubsOf(q)
        BY <4>1 DEF Orderly, Stages
      <4> QED
        BY <1>3, <4>1, <4>2
    <3> QED
      BY <1>3, <2>2, <3>1, <3>2 DEF Orderly, Served
  <2> QED
    BY <1>2, <2>1, <2>2 DEF Served
<1>7. Accounted(q, e)'
  <2> SUFFICES ASSUME NEW i \in DOMAIN consumers', NEW m \in consumers'[i].handling, consumers'[i].con = e
               PROVE  OnTheWay(q, e, m)'
    BY DEF Accounted
  <2>1. \E j \in DOMAIN consumers : consumers[j].con = e /\ m \in consumers[j].handling
    BY HandlingStep
  <2>2. OnTheWay(q, e, m)
    BY <2>1 DEF Orderly, Accounted
  <2> QED
    BY <1>3, <2>2 DEF OnTheWay
<1> QED
  BY <1>4, <1>5, <1>6, <1>7 DEF Orderly

\* What stands on a connection after a client has sent, the broker has taken, and
\* the broker has answered.
LEMMA SentOn ==
    ASSUME QueueTypes, NEW c \in Connection, NEW packet \in Packet,
           toBroker' = [toBroker EXCEPT ![c] = Append(@, packet)]
    PROVE  \E n \in Nat :
             /\ DOMAIN toBroker[c] = 1 .. n /\ DOMAIN toBroker'[c] = 1 .. n + 1
             /\ \A i \in 1 .. n : toBroker'[c][i] = toBroker[c][i]
             /\ toBroker'[c][n + 1] = packet
<1>1. PICK seq \in Seq(Packet) : seq = toBroker[c]
  BY DEF QueueTypes, NetTypes
<1>2. PICK new : new = Append(seq, packet)
  OBVIOUS
<1>3. toBroker'[c] = new
  BY <1>1, <1>2 DEF QueueTypes, NetTypes
<1>4. /\ DOMAIN new = 1 .. Len(seq) + 1 /\ DOMAIN seq = 1 .. Len(seq) /\ Len(seq) \in Nat
      /\ \A j \in 1 .. Len(seq) : new[j] = seq[j]
      /\ new[Len(seq) + 1] = packet
  BY <1>2, Pushed
<1> QED
  BY <1>1, <1>3, <1>4

\* The channel the broker takes a packet from, by places.
LEMMA TakenOn ==
    ASSUME QueueTypes, NEW c \in Connection, NEW types, Take(c, types)
    PROVE  \E n \in Nat :
             /\ DOMAIN toBroker[c] = 1 .. n + 1 /\ DOMAIN toBroker'[c] = 1 .. n
             /\ \A i \in 1 .. n : toBroker'[c][i] = toBroker[c][i + 1]
<1>1. toBroker' = [toBroker EXCEPT ![c] = Tail(@)] /\ toBroker[c] # <<>>
  BY Takes
<1>2. PICK seq \in Seq(Packet) : seq = toBroker[c] /\ seq # <<>>
  BY <1>1 DEF QueueTypes, NetTypes
<1>3. PICK new : new = Tail(seq)
  OBVIOUS
<1>4. toBroker'[c] = new
  BY <1>1, <1>2, <1>3 DEF QueueTypes, NetTypes
<1>5. /\ DOMAIN new = 1 .. Len(seq) - 1 /\ DOMAIN seq = 1 .. Len(seq) /\ Len(seq) \in Nat /\ Len(seq) >= 1
      /\ \A j \in 1 .. Len(seq) - 1 : new[j] = seq[j + 1]
  BY <1>2, <1>3, Pulled
<1>6. PICK n \in Nat : Len(seq) = n + 1
  <2>1. Len(seq) - 1 \in Nat /\ Len(seq) = (Len(seq) - 1) + 1
    BY <1>5
  <2> QED
    BY <2>1
<1>7. Len(seq) - 1 = n
  BY <1>6
<1>8. DOMAIN seq = 1 .. n + 1 /\ DOMAIN new = 1 .. n /\ \A j \in 1 .. n : new[j] = seq[j + 1]
  BY <1>5, <1>6, <1>7
<1> QED
  BY <1>2, <1>4, <1>8

\* The channel the broker writes a packet to, by places.
LEMMA RespondedOn ==
    ASSUME QueueTypes, NEW c \in Connection, NEW packet \in Packet, Respond(c, packet)
    PROVE  \E n \in Nat :
             /\ DOMAIN toClient[c] = 1 .. n /\ DOMAIN toClient'[c] = 1 .. n + 1
             /\ \A i \in 1 .. n : toClient'[c][i] = toClient[c][i]
             /\ toClient'[c][n + 1] = packet
<1>1. PICK seq \in Seq(Packet) : seq = toClient[c]
  BY DEF QueueTypes, NetTypes
<1>2. PICK new : new = Append(seq, packet)
  OBVIOUS
<1>3. toClient'[c] = new
  BY <1>1, <1>2, Responds DEF QueueTypes, NetTypes
<1>4. /\ DOMAIN new = 1 .. Len(seq) + 1 /\ DOMAIN seq = 1 .. Len(seq) /\ Len(seq) \in Nat
      /\ \A j \in 1 .. Len(seq) : new[j] = seq[j]
      /\ new[Len(seq) + 1] = packet
  BY <1>2, Pushed
<1> QED
  BY <1>1, <1>3, <1>4

\* Without a consume() that waits, no request and no acknowledgement is under way.
LEMMA NoControl ==
    ASSUME NEW p, NEW c, Stages(p, c),
           \A k \in SubsOf(p) : sub[k] \notin {"subscribing", "unsubscribing"}
    PROVE  \A i \in Nat : ~RequestAt(c, i) /\ ~AckAt(c, i)
  BY DEF Stages, RequestAt

\* consume(): nothing is under way and the broker has no consumer.
LEMMA ConsumeHere ==
    ASSUME QueueTypes, NEW p \in Client, NEW c \in Connection, Orderly(p, c),
           NEW k \in SubsOf(p), \A j \in SubsOf(p) : ~Active(j),
           sub' = [sub EXCEPT ![k] = "subscribing"],
           NEW packet \in Packet, packet = [type |-> "Subscribe", sub |-> k],
           toBroker' = [toBroker EXCEPT ![c] = Append(@, packet)],
           UNCHANGED <<consumers, toClient, callback, running>>
    PROVE  Orderly(p, c)'
<1>1. PICK n \in Nat :
        /\ DOMAIN toBroker[c] = 1 .. n /\ DOMAIN toBroker'[c] = 1 .. n + 1
        /\ \A i \in 1 .. n : toBroker'[c][i] = toBroker[c][i]
        /\ toBroker'[c][n + 1] = packet
  BY SentOn
<1>2. \A i \in Nat : ~RequestAt(c, i) /\ ~AckAt(c, i)
  BY NoControl DEF Orderly, Active
<1>3. ~Serves(c)
  BY DEF Orderly, Served
<1>4. packet.type = "Subscribe" /\ packet.sub = k
  OBVIOUS
<1>5. sub'[k] = "subscribing"
  BY DEF QueueTypes, ClientTypes, SubsOf
<1>6. ASSUME NEW i \in Nat
      PROVE  /\ ~AckAt(c, i)'
             /\ HandleAt(c, i)' => HandleAt(c, i)
             /\ AnswerAt(c, i) => AnswerAt(c, i)' /\ toBroker'[c][i] = toBroker[c][i]
             /\ RequestAt(c, i)' => i = n + 1 /\ toBroker'[c][i] = packet
  <2>1. ~AckAt(c, i)' /\ (HandleAt(c, i)' => HandleAt(c, i))
    BY <1>2 DEF AckAt, HandleAt
  <2>2. i \in 1 .. n + 1 => i \in 1 .. n \/ i = n + 1
    OBVIOUS
  <2>3. i \in 1 .. n => i \in 1 .. n + 1
    OBVIOUS
  <2> QED
    BY <1>1, <1>2, <2>1, <2>2, <2>3 DEF RequestAt, AnswerAt
<1>7. Serves(c)' = Serves(c) /\ OneConsumer(c)' = OneConsumer(c)
  BY DEF Serves, OneConsumer
<1>8. OneControl(c)'
  BY <1>6 DEF OneControl
<1>9. Stages(p, c)'
  BY <1>3, <1>4, <1>5, <1>6, <1>7 DEF Stages
<1>10. Served(p, c)'
  BY <1>2, <1>3, <1>6, <1>7 DEF Orderly, Served
<1>11. Accounted(p, c)'
  <2> SUFFICES ASSUME NEW i \in DOMAIN consumers', NEW m \in consumers'[i].handling, consumers'[i].con = c
               PROVE  FALSE
    BY DEF Accounted
  <2> QED
    BY <1>3 DEF Serves
<1> QED
  BY <1>8, <1>9, <1>10, <1>11 DEF Orderly

\* release(): nothing is under way.
LEMMA ReleaseHere ==
    ASSUME QueueTypes, NEW p \in Client, NEW c \in Connection, Orderly(p, c), OneCall(p),
           NEW k \in SubsOf(p), sub[k] = "consuming",
           sub' = [sub EXCEPT ![k] = "unsubscribing"],
           NEW packet \in Packet, packet = [type |-> "Unsubscribe", sub |-> k],
           toBroker' = [toBroker EXCEPT ![c] = Append(@, packet)],
           UNCHANGED <<consumers, toClient, callback, running>>
    PROVE  Orderly(p, c)'
<1>1. PICK n \in Nat :
        /\ DOMAIN toBroker[c] = 1 .. n /\ DOMAIN toBroker'[c] = 1 .. n + 1
        /\ \A i \in 1 .. n : toBroker'[c][i] = toBroker[c][i]
        /\ toBroker'[c][n + 1] = packet
  BY SentOn
<1>2. \A i \in Nat : ~RequestAt(c, i) /\ ~AckAt(c, i)
  <2>1. \A j \in SubsOf(p) : sub[j] \notin {"subscribing", "unsubscribing"}
    BY DEF OneCall, Active
  <2> QED
    BY <2>1, NoControl DEF Orderly
<1>3. callback[p] # Nothing
  BY DEF OneCall
<1>4. packet.type = "Unsubscribe" /\ packet.sub = k
  OBVIOUS
<1>5. sub'[k] = "unsubscribing"
  BY DEF QueueTypes, ClientTypes, SubsOf
<1>6. ASSUME NEW i \in Nat
      PROVE  /\ ~AckAt(c, i)'
             /\ HandleAt(c, i) => HandleAt(c, i)' /\ toClient'[c][i] = toClient[c][i]
             /\ AnswerAt(c, i) => AnswerAt(c, i)' /\ toBroker'[c][i] = toBroker[c][i]
             /\ RequestAt(c, i)' => i = n + 1 /\ toBroker'[c][i] = packet
  <2>1. ~AckAt(c, i)' /\ (HandleAt(c, i) => HandleAt(c, i)' /\ toClient'[c][i] = toClient[c][i])
    BY <1>2 DEF AckAt, HandleAt
  <2>2. i \in 1 .. n + 1 => i \in 1 .. n \/ i = n + 1
    OBVIOUS
  <2>3. i \in 1 .. n => i \in 1 .. n + 1
    OBVIOUS
  <2> QED
    BY <1>1, <1>2, <2>1, <2>2, <2>3 DEF RequestAt, AnswerAt
<1>7. Serves(c)' = Serves(c) /\ OneConsumer(c)' = OneConsumer(c)
  BY DEF Serves, OneConsumer
<1>8. OneControl(c)'
  BY <1>6 DEF OneControl
<1>9. Stages(p, c)'
  BY <1>4, <1>5, <1>6 DEF Stages
<1>10. Served(p, c)'
  <2>1. Active(k)' /\ sub'[k] # "subscribing"
    BY <1>5 DEF Active
  <2> QED
    BY <1>3, <1>7, <2>1 DEF Orderly, Served
<1>11. Accounted(p, c)'
  <2> SUFFICES ASSUME NEW i \in DOMAIN consumers, NEW m \in consumers[i].handling, consumers[i].con = c
               PROVE  OnTheWay(p, c, m)'
    BY DEF Accounted
  <2>1. OnTheWay(p, c, m)
    BY DEF Orderly, Accounted
  <2> QED
    BY <1>6, <2>1 DEF OnTheWay
<1> QED
  BY <1>8, <1>9, <1>10, <1>11 DEF Orderly

\* The end of a call: its answer is under way.
LEMMA FinishHere ==
    ASSUME QueueTypes, NEW p \in Client, NEW c \in Connection, Orderly(p, c),
           NEW call \in Calls, running'[p] = running[p] \ {call},
           NEW packet \in Packet, IsAnswer(packet), packet.msg = call[1],
           toBroker' = [toBroker EXCEPT ![c] = Append(@, packet)],
           UNCHANGED <<consumers, toClient, callback, sub>>
    PROVE  Orderly(p, c)'
<1>1. PICK n \in Nat :
        /\ DOMAIN toBroker[c] = 1 .. n /\ DOMAIN toBroker'[c] = 1 .. n + 1
        /\ \A i \in 1 .. n : toBroker'[c][i] = toBroker[c][i]
        /\ toBroker'[c][n + 1] = packet
  BY SentOn
<1>2. ASSUME NEW i \in Nat
      PROVE  /\ AckAt(c, i)' <=> AckAt(c, i)
             /\ HandleAt(c, i)' <=> HandleAt(c, i)
             /\ AnswerAt(c, i) => AnswerAt(c, i)' /\ toBroker'[c][i] = toBroker[c][i]
             /\ RequestAt(c, i)' => RequestAt(c, i) /\ toBroker'[c][i] = toBroker[c][i]
  <2>1. (AckAt(c, i)' <=> AckAt(c, i)) /\ (HandleAt(c, i)' <=> HandleAt(c, i))
    BY DEF AckAt, HandleAt
  <2>2. i \in 1 .. n + 1 => i \in 1 .. n \/ i = n + 1
    OBVIOUS
  <2>3. i \in 1 .. n => i \in 1 .. n + 1
    OBVIOUS
  <2>4. packet.type \notin {"Subscribe", "Unsubscribe"}
    BY DEF IsAnswer
  <2> QED
    BY <1>1, <2>1, <2>2, <2>3, <2>4 DEF RequestAt, AnswerAt
<1>3. Serves(c)' = Serves(c) /\ OneConsumer(c)' = OneConsumer(c)
  BY DEF Serves, OneConsumer
<1>4. OneControl(c)'
  BY <1>2 DEF Orderly, OneControl
<1>5. Stages(p, c)'
  <2>1. ASSUME NEW i \in Nat, RequestAt(c, i)'
        PROVE  /\ toBroker'[c][i].sub \in SubsOf(p)
               /\ toBroker'[c][i].type = "Subscribe" => sub[toBroker'[c][i].sub] = "subscribing" /\ ~Serves(c)
               /\ toBroker'[c][i].type = "Unsubscribe" => sub[toBroker'[c][i].sub] = "unsubscribing"
    <3>1. RequestAt(c, i) /\ toBroker'[c][i] = toBroker[c][i]
      BY <1>2, <2>1
    <3>2. /\ toBroker[c][i].sub \in SubsOf(p)
          /\ toBroker[c][i].type = "Subscribe" => sub[toBroker[c][i].sub] = "subscribing" /\ ~Serves(c)
          /\ toBroker[c][i].type = "Unsubscribe" => sub[toBroker[c][i].sub] = "unsubscribing"
      BY <3>1 DEF Orderly, Stages
    <3> QED
      BY <3>1, <3>2
  <2>2. ASSUME NEW i \in Nat, AckAt(c, i)'
        PROVE  /\ toClient[c][i].sub \in SubsOf(p)
               /\ sub[toClient[c][i].sub] \in {"subscribing", "unsubscribing"}
               /\ sub[toClient[c][i].sub] = "unsubscribing" => ~Serves(c)
    BY <1>2, <2>2 DEF Orderly, Stages
  <2> QED
    BY <1>3, <2>1, <2>2 DEF Stages
<1>6. Served(p, c)'
  BY <1>2, <1>3 DEF Orderly, Served, Active
<1>7. Accounted(p, c)'
  <2> SUFFICES ASSUME NEW i \in DOMAIN consumers, NEW m \in consumers[i].handling, consumers[i].con = c
               PROVE  OnTheWay(p, c, m)'
    BY DEF Accounted
  <2>1. OnTheWay(p, c, m)
    BY DEF Orderly, Accounted
  <2>2. ASSUME NEW j \in Nat, <<m, j>> = call
        PROVE  OnTheWay(p, c, m)'
    <3>1. n + 1 \in Nat /\ AnswerAt(c, n + 1)' /\ toBroker'[c][n + 1].msg = m
      BY <1>1, <2>2 DEF AnswerAt
    <3> QED
      BY <3>1 DEF OnTheWay
  <2> QED
    BY <1>2, <2>1, <2>2 DEF OnTheWay
<1> QED
  BY <1>4, <1>5, <1>6, <1>7 DEF Orderly

\* queueSubscribe() and queueUnsubscribe() turn the request into its acknowledgement.
LEMMA AcknowledgeHere ==
    ASSUME QueueTypes, NEW p \in Client, NEW c \in Connection, Orderly(p, c),
           NEW types, types \subseteq {"Subscribe", "Unsubscribe"}, Take(c, types),
           Respond(c, [type |-> "Ack", sub |-> Next1(c).sub]),
           UNCHANGED <<sub, callback>>,
           Serves(c)' => Next1(c).type = "Subscribe", OneConsumer(c)', Accounted(p, c)'
    PROVE  Orderly(p, c)'
<1>1. /\ Next1(c) = toBroker[c][1] /\ Next1(c) \in Packet /\ 1 \in DOMAIN toBroker[c]
      /\ Next1(c).type \in {"Subscribe", "Unsubscribe"}
  BY Takes
<1>2. PICK n \in Nat :
        /\ DOMAIN toBroker[c] = 1 .. n + 1 /\ DOMAIN toBroker'[c] = 1 .. n
        /\ \A i \in 1 .. n : toBroker'[c][i] = toBroker[c][i + 1]
  BY TakenOn
<1>3. PICK k : k = Next1(c).sub
  OBVIOUS
<1>4. k \in Sub
  BY <1>1, <1>3, PacketKinds DEF IsControl
<1>5. PICK ack \in Packet : ack = [type |-> "Ack", sub |-> k]
  BY <1>4, PacketKinds
<1>6. PICK l \in Nat :
        /\ DOMAIN toClient[c] = 1 .. l /\ DOMAIN toClient'[c] = 1 .. l + 1
        /\ \A i \in 1 .. l : toClient'[c][i] = toClient[c][i]
        /\ toClient'[c][l + 1] = ack
  BY <1>3, <1>5, RespondedOn
<1>7. RequestAt(c, 1)
  BY <1>1 DEF RequestAt
<1>8. /\ k \in SubsOf(p) /\ sub[k] \in {"subscribing", "unsubscribing"}
      /\ Next1(c).type = "Subscribe" => sub[k] = "subscribing"
      /\ Next1(c).type = "Unsubscribe" => sub[k] = "unsubscribing"
  BY <1>1, <1>3, <1>7 DEF Orderly, Stages
<1>9. \A i \in Nat : ~AckAt(c, i) /\ (RequestAt(c, i) => i = 1)
  BY <1>7 DEF Orderly, OneControl
<1>10. ack.type = "Ack" /\ ack.sub = k /\ ~IsHandle(ack)
  BY <1>5 DEF IsHandle
<1>11. ASSUME NEW i \in Nat
       PROVE  /\ ~RequestAt(c, i)'
              /\ AckAt(c, i)' => i = l + 1
              /\ HandleAt(c, i)' => HandleAt(c, i)
  <2>1. ~RequestAt(c, i)'
    <3> SUFFICES ASSUME RequestAt(c, i)' PROVE FALSE
      OBVIOUS
    <3>1. i \in 1 .. n /\ i + 1 \in 1 .. n + 1 /\ i + 1 \in Nat /\ i + 1 # 1
      BY <1>2 DEF RequestAt
    <3>2. RequestAt(c, i + 1)
      BY <1>2, <3>1 DEF RequestAt
    <3> QED
      BY <1>9, <3>1, <3>2
  <2>2. i \in 1 .. l + 1 => i \in 1 .. l \/ i = l + 1
    OBVIOUS
  <2>3. AckAt(c, i)' => i = l + 1
    BY <1>6, <1>9, <2>2 DEF AckAt
  <2>4. HandleAt(c, i)' => HandleAt(c, i)
    BY <1>6, <1>10, <2>2 DEF HandleAt
  <2> QED
    BY <2>1, <2>3, <2>4
<1>12. AckAt(c, l + 1)' /\ toClient'[c][l + 1].sub = k /\ l + 1 \in Nat
  BY <1>6, <1>10 DEF AckAt
<1>13. OneControl(c)'
  BY <1>11 DEF OneControl
<1>14. Serves(c)' => sub[k] = "subscribing"
  BY <1>8
<1>15. Stages(p, c)'
  BY <1>8, <1>11, <1>12, <1>14 DEF Stages
<1>16. Served(p, c)'
  <2>1. Serves(c)' => k \in SubsOf(p) /\ Active(k)' /\ AckAt(c, l + 1)' /\ toClient'[c][l + 1].sub = k
    BY <1>8, <1>12, <1>14 DEF Active
  <2>2. \A i \in Nat : HandleAt(c, i)' => callback'[p] # Nothing
    BY <1>9, <1>11 DEF Orderly, Served
  <2> QED
    BY <1>12, <2>1, <2>2 DEF Served
<1> QED
  BY <1>13, <1>15, <1>16 DEF Orderly

\* queueSubscribe() turns the request into an acknowledgement and a consumer.
LEMMA SubscribeHere ==
    ASSUME QueueTypes, [QueueNext]_queueVars, \A m \in Message : ~queuePublish(m),
           NEW p \in Client, NEW c \in Connection, Orderly(p, c), queueSubscribe(c)
    PROVE  Orderly(p, c)'
<1>1. /\ Take(c, {"Subscribe"}) /\ Respond(c, [type |-> "Ack", sub |-> Next1(c).sub])
      /\ UNCHANGED <<sub, callback>>
  BY DEF queueSubscribe, clientVars
<1>2. /\ Next1(c) = toBroker[c][1] /\ 1 \in DOMAIN toBroker[c] /\ Next1(c).type = "Subscribe"
  BY <1>1, Takes
<1>3. ~Serves(c)
  <2>1. RequestAt(c, 1)
    BY <1>2 DEF RequestAt
  <2> QED
    BY <1>2, <2>1 DEF Orderly, Stages
<1>4. OneConsumer(c)'
  BY <1>3, ServesStep DEF Orderly, Served
<1>5. Accounted(p, c)'
  <2> SUFFICES ASSUME NEW i \in DOMAIN consumers', NEW m \in consumers'[i].handling, consumers'[i].con = c
               PROVE  FALSE
    BY DEF Accounted
  <2> QED
    BY <1>3, HandlingStep DEF Serves
<1> QED
  BY <1>1, <1>2, <1>4, <1>5, AcknowledgeHere

\* queueUnsubscribe() takes the only consumer away.
LEMMA UnsubscribeHere ==
    ASSUME QueueTypes, NEW p \in Client, NEW c \in Connection, Orderly(p, c), queueUnsubscribe(c)
    PROVE  Orderly(p, c)'
<1>1. /\ Take(c, {"Unsubscribe"}) /\ Respond(c, [type |-> "Ack", sub |-> Next1(c).sub])
      /\ UNCHANGED <<sub, callback>>
      /\ consumers' = IF ConsumerOf(c) = 0 THEN consumers ELSE Splice(ConsumerOf(c))
  BY DEF queueUnsubscribe, clientVars
<1>2. ~Serves(c)'
  <2>1. CASE ConsumerOf(c) = 0
    BY <1>1, <2>1, ConsumerFound DEF Serves, QueueTypes
  <2>2. CASE ConsumerOf(c) # 0
    <3>1. PICK k \in DOMAIN consumers : k = ConsumerOf(c) /\ consumers[k].con = c
      BY <2>2, ConsumerFound DEF QueueTypes
    <3>2. consumers' = Splice(k)
      BY <1>1, <2>2, <3>1
    <3>3. PICK l \in Nat :
            /\ DOMAIN consumers = 1 .. l
            /\ DOMAIN consumers' = 1 .. l - 1
            /\ \A j \in DOMAIN consumers' :
                 consumers'[j] = IF j < k THEN consumers[j] ELSE consumers[j + 1]
      BY <3>2, ConsumerLeaves DEF QueueTypes
    <3>4. \A i \in DOMAIN consumers : consumers[i].con = c => i = k
      BY <3>1 DEF Orderly, Served, OneConsumer
    <3>5. ASSUME NEW j \in DOMAIN consumers' PROVE consumers'[j].con # c
      <4>1. CASE j < k
        <5>1. j \in DOMAIN consumers /\ j # k
          BY <3>1, <3>3, <4>1
        <5> QED
          BY <3>3, <3>4, <4>1, <5>1
      <4>2. CASE ~(j < k)
        <5>1. j + 1 \in DOMAIN consumers /\ j + 1 # k
          BY <3>1, <3>3, <4>2
        <5> QED
          BY <3>3, <3>4, <4>2, <5>1
      <4> QED
        BY <4>1, <4>2
    <3> QED
      BY <3>5 DEF Serves
  <2> QED
    BY <2>1, <2>2
<1>3. OneConsumer(c)' /\ Accounted(p, c)'
  BY <1>2 DEF Serves, OneConsumer, Accounted
<1> QED
  BY <1>1, <1>2, <1>3, AcknowledgeHere

\* queueMessageHandled() takes an answer, and its message from the consumer.
LEMMA HandledHere ==
    ASSUME QueueTypes, [QueueNext]_queueVars,
           NEW p \in Client, NEW c \in Connection, Orderly(p, c), queueMessageHandled(c)
    PROVE  Orderly(p, c)'
<1>1. /\ Take(c, {"Error", "Success", "Neither"})
      /\ UNCHANGED <<toClient, sub, callback, running>>
  BY DEF queueMessageHandled, clientVars
<1>2. /\ Next1(c) = toBroker[c][1] /\ Next1(c) \in Packet
      /\ Next1(c).type \in {"Error", "Success", "Neither"}
  BY <1>1, Takes
<1>3. PICK n \in Nat :
        /\ DOMAIN toBroker[c] = 1 .. n + 1 /\ DOMAIN toBroker'[c] = 1 .. n
        /\ \A i \in 1 .. n : toBroker'[c][i] = toBroker[c][i + 1]
  BY <1>1, TakenOn
<1>4. PICK m \in Message : m = Next1(c).msg
  BY <1>2, PacketKinds DEF IsAnswer
<1>5. ASSUME NEW i \in Nat
      PROVE  /\ AckAt(c, i)' <=> AckAt(c, i)
             /\ HandleAt(c, i)' <=> HandleAt(c, i)
             /\ RequestAt(c, i)' => RequestAt(c, i + 1) /\ toBroker'[c][i] = toBroker[c][i + 1]
             /\ AnswerAt(c, i) =>
                  \/ toBroker[c][i].msg = m
                  \/ \E j \in Nat : AnswerAt(c, j)' /\ toBroker'[c][j] = toBroker[c][i]
  <2>1. (AckAt(c, i)' <=> AckAt(c, i)) /\ (HandleAt(c, i)' <=> HandleAt(c, i))
    BY <1>1 DEF AckAt, HandleAt
  <2>2. RequestAt(c, i)' => RequestAt(c, i + 1) /\ toBroker'[c][i] = toBroker[c][i + 1]
    <3>1. i \in 1 .. n => i + 1 \in 1 .. n + 1
      OBVIOUS
    <3> QED
      BY <1>3, <3>1 DEF RequestAt
  <2>3. ASSUME AnswerAt(c, i), i # 1
        PROVE  \E j \in Nat : AnswerAt(c, j)' /\ toBroker'[c][j] = toBroker[c][i]
    <3>1. i - 1 \in 1 .. n /\ i - 1 \in Nat /\ (i - 1) + 1 = i
      BY <1>3, <2>3 DEF AnswerAt
    <3>2. toBroker'[c][i - 1] = toBroker[c][i]
      BY <1>3, <3>1
    <3>3. AnswerAt(c, i - 1)'
      BY <1>3, <2>3, <3>1, <3>2 DEF AnswerAt
    <3> QED
      BY <3>1, <3>2, <3>3
  <2>4. i = 1 => toBroker[c][i].msg = m
    BY <1>2, <1>4
  <2> QED
    BY <2>1, <2>2, <2>3, <2>4
<1>6. (Serves(c)' => Serves(c)) /\ OneConsumer(c)'
  <2>1. ~queueSubscribe(c)
    BY <1>2 DEF queueSubscribe, Take
  <2> QED
    BY <2>1, ServesStep DEF Orderly, Served
<1>7. OneControl(c)'
  <2>1. ASSUME NEW i \in Nat, NEW j \in Nat, RequestAt(c, i)', RequestAt(c, j)' PROVE i = j
    <3>1. i + 1 = j + 1
      BY <1>5, <2>1 DEF Orderly, OneControl
    <3> QED
      BY <3>1
  <2>2. ASSUME NEW i \in Nat, NEW j \in Nat, RequestAt(c, i)', AckAt(c, j)' PROVE FALSE
    <3>1. RequestAt(c, i + 1) /\ i + 1 \in Nat /\ AckAt(c, j)
      BY <1>5, <2>2
    <3> QED
      BY <3>1 DEF Orderly, OneControl
  <2>3. ASSUME NEW i \in Nat, NEW j \in Nat, AckAt(c, i)', AckAt(c, j)' PROVE i = j
    BY <1>5, <2>3 DEF Orderly, OneControl
  <2> QED
    BY <2>1, <2>2, <2>3 DEF OneControl
<1>8. Stages(p, c)'
  <2>1. ASSUME NEW i \in Nat, RequestAt(c, i)'
        PROVE  /\ toBroker'[c][i].sub \in SubsOf(p)
               /\ toBroker'[c][i].type = "Subscribe" => sub[toBroker'[c][i].sub] = "subscribing" /\ ~Serves(c)
               /\ toBroker'[c][i].type = "Unsubscribe" => sub[toBroker'[c][i].sub] = "unsubscribing"
    <3>1. RequestAt(c, i + 1) /\ i + 1 \in Nat /\ toBroker'[c][i] = toBroker[c][i + 1]
      BY <1>5, <2>1
    <3>2. /\ toBroker[c][i + 1].sub \in SubsOf(p)
          /\ toBroker[c][i + 1].type = "Subscribe" => sub[toBroker[c][i + 1].sub] = "subscribing" /\ ~Serves(c)
          /\ toBroker[c][i + 1].type = "Unsubscribe" => sub[toBroker[c][i + 1].sub] = "unsubscribing"
      BY <3>1 DEF Orderly, Stages
    <3> QED
      BY <3>1, <3>2
  <2>2. ASSUME NEW i \in Nat, AckAt(c, i)'
        PROVE  /\ toClient[c][i].sub \in SubsOf(p)
               /\ sub[toClient[c][i].sub] \in {"subscribing", "unsubscribing"}
               /\ sub[toClient[c][i].sub] = "unsubscribing" => ~Serves(c)
    BY <1>5, <2>2 DEF Orderly, Stages
  <2> QED
    BY <1>1, <1>6, <2>1, <2>2 DEF Stages
<1>9. Served(p, c)'
  BY <1>1, <1>5, <1>6 DEF Orderly, Served, Active
<1>10. Accounted(p, c)'
  <2> SUFFICES ASSUME NEW i \in DOMAIN consumers', NEW x \in consumers'[i].handling, consumers'[i].con = c
               PROVE  OnTheWay(p, c, x)'
    BY DEF Accounted
  <2>1. OnTheWay(p, c, x) /\ x # m
    <3>1. CASE UNCHANGED consumers
      <4>1. OnTheWay(p, c, x)
        BY <3>1 DEF Orderly, Accounted
      <4>2. ASSUME x = m PROVE FALSE
        <5>1. ~(ConsumerOf(c) # 0 /\ m \in consumers[ConsumerOf(c)].handling)
          <6> SUFFICES ASSUME ConsumerOf(c) # 0, m \in consumers[ConsumerOf(c)].handling PROVE FALSE
            OBVIOUS
          <6>1. PICK k \in DOMAIN consumers : k = ConsumerOf(c)
            BY ConsumerFound DEF QueueTypes
          <6>2. consumers' = FreeSlot(k, m)
            BY <1>4, <6>1 DEF queueMessageHandled
          <6>3. consumers'[k].handling = consumers[k].handling \ {m}
            BY <6>1, <6>2, SlotFreed DEF QueueTypes
          <6> QED
            BY <3>1, <6>1, <6>3
        <5>2. ConsumerOf(c) # 0 /\ ConsumerOf(c) \in DOMAIN consumers /\ consumers[ConsumerOf(c)].con = c
          BY <3>1, ConsumerFound DEF QueueTypes
        <5>3. i = ConsumerOf(c)
          BY <3>1, <5>2 DEF Orderly, Served, OneConsumer
        <5> QED
          BY <3>1, <4>2, <5>1, <5>2, <5>3
      <4> QED
        BY <4>1, <4>2
    <3>2. CASE ~UNCHANGED consumers
      <4>1. consumers' = FreeSlot(ConsumerOf(c), m) /\ ConsumerOf(c) # 0
        BY <1>4, <3>2 DEF queueMessageHandled
      <4>2. PICK k \in DOMAIN consumers : k = ConsumerOf(c) /\ consumers[k].con = c
        BY <4>1, ConsumerFound DEF QueueTypes
      <4>3. /\ DOMAIN consumers' = DOMAIN consumers
            /\ \A j \in DOMAIN consumers : consumers'[j].con = consumers[j].con
            /\ \A j \in DOMAIN consumers :
                 consumers'[j].handling = IF j = k THEN consumers[j].handling \ {m} ELSE consumers[j].handling
        BY <4>1, <4>2, SlotFreed DEF QueueTypes
      <4>4. i = k
        BY <4>2, <4>3 DEF Orderly, Served, OneConsumer
      <4>5. x \in consumers[i].handling /\ x # m /\ consumers[i].con = c /\ i \in DOMAIN consumers
        BY <4>2, <4>3, <4>4
      <4> QED
        BY <4>5 DEF Orderly, Accounted
    <3> QED
      BY <3>1, <3>2
  <2>2. CASE \E j \in Nat : <<x, j>> \in running[p]
    BY <1>1, <2>2 DEF OnTheWay
  <2>3. CASE \E j \in Nat : HandleAt(c, j) /\ toClient[c][j].msg = x
    BY <1>1, <1>5, <2>3 DEF OnTheWay
  <2>4. CASE \E j \in Nat : AnswerAt(c, j) /\ toBroker[c][j].msg = x
    BY <1>5, <2>1, <2>4 DEF OnTheWay
  <2> QED
    BY <2>1, <2>2, <2>3, <2>4 DEF OnTheWay
<1> QED
  BY <1>7, <1>8, <1>9, <1>10 DEF Orderly

\* queuePublish() writes to connections that have a consumer.
LEMMA PublishHere ==
    ASSUME QueueTypes, NEW m \in Message, queuePublish(m),
           NEW p \in Client, NEW c \in Connection, up[c] = "up", OneCall(p), Orderly(p, c)
    PROVE  Orderly(p, c)'
<1>1. UNCHANGED <<toBroker, sub, callback, running>>
  BY DEF queuePublish, clientVars
<1>2. PICK n \in Nat, l \in Nat :
        /\ l = Cardinality(ChosenOn(c))
        /\ DOMAIN toClient'[c] = 1 .. n + l /\ DOMAIN toClient[c] = 1 .. n
        /\ \A i \in 1 .. n : toClient'[c][i] = toClient[c][i]
        /\ \A i \in n + 1 .. n + l : toClient'[c][i] = [type |-> "Handle", msg |-> m]
  <2>1. PICK n, l : n = Len(toClient[c]) /\ l = Cardinality(ChosenOn(c))
    OBVIOUS
  <2>2. /\ n \in Nat /\ l \in Nat
        /\ DOMAIN toClient'[c] = 1 .. n + l /\ DOMAIN toClient[c] = 1 .. n
        /\ \A i \in 1 .. n : toClient'[c][i] = toClient[c][i]
        /\ \A i \in n + 1 .. n + l : toClient'[c][i] = [type |-> "Handle", msg |-> m]
    BY <2>1, Writes
  <2> QED
    BY <2>1, <2>2
<1>3. PICK packet : packet = [type |-> "Handle", msg |-> m]
  OBVIOUS
<1>4. packet.type = "Handle" /\ packet.msg = m
  BY <1>3
<1>5. /\ DOMAIN consumers' = DOMAIN consumers
      /\ \A i \in DOMAIN consumers : consumers'[i].con = consumers[i].con
      /\ \A i \in DOMAIN consumers :
           consumers'[i].handling = IF i \in Chosen THEN {m} ELSE consumers[i].handling
  BY Dispatched DEF QueueTypes
<1>6. (Serves(c)' <=> Serves(c)) /\ OneConsumer(c)'
  BY <1>5 DEF Serves, OneConsumer, Orderly, Served
<1>7. l > 0 => Serves(c)
  <2> SUFFICES ASSUME ChosenOn(c) = {} PROVE ~(l > 0)
    BY DEF ChosenOn, Chosen, Serves
  <2> QED
    BY <1>2, FS_EmptySet
<1>8. ASSUME NEW i \in Nat
      PROVE  /\ RequestAt(c, i)' <=> RequestAt(c, i)
             /\ AnswerAt(c, i)' <=> AnswerAt(c, i)
             /\ AckAt(c, i)' <=> AckAt(c, i)
             /\ AckAt(c, i) => toClient'[c][i] = toClient[c][i] /\ i \in 1 .. n
             /\ HandleAt(c, i) => HandleAt(c, i)' /\ toClient'[c][i] = toClient[c][i]
             /\ HandleAt(c, i)' => HandleAt(c, i) \/ (i > n /\ Serves(c))
  <2>1. (RequestAt(c, i)' <=> RequestAt(c, i)) /\ (AnswerAt(c, i)' <=> AnswerAt(c, i))
    BY <1>1 DEF RequestAt, AnswerAt
  <2>2. i \in 1 .. n + l => i \in 1 .. n \/ (i \in n + 1 .. n + l /\ i > n /\ l > 0)
    OBVIOUS
  <2>3. i \in 1 .. n => i \in 1 .. n + l
    OBVIOUS
  <2>4. (AckAt(c, i)' <=> AckAt(c, i)) /\ (AckAt(c, i) => toClient'[c][i] = toClient[c][i] /\ i \in 1 .. n)
    BY <1>2, <1>3, <1>4, <2>2, <2>3 DEF AckAt
  <2>5. HandleAt(c, i) => HandleAt(c, i)' /\ toClient'[c][i] = toClient[c][i]
    BY <1>2, <2>3 DEF HandleAt
  <2>6. HandleAt(c, i)' => HandleAt(c, i) \/ (i > n /\ Serves(c))
    BY <1>2, <1>7, <2>2 DEF HandleAt
  <2> QED
    BY <2>1, <2>4, <2>5, <2>6
<1>9. OneControl(c)'
  BY <1>8 DEF Orderly, OneControl
<1>10. Stages(p, c)'
  <2>1. ASSUME NEW i \in Nat, RequestAt(c, i)'
        PROVE  /\ toBroker[c][i].sub \in SubsOf(p)
               /\ toBroker[c][i].type = "Subscribe" => sub[toBroker[c][i].sub] = "subscribing" /\ ~Serves(c)
               /\ toBroker[c][i].type = "Unsubscribe" => sub[toBroker[c][i].sub] = "unsubscribing"
    BY <1>8, <2>1 DEF Orderly, Stages
  <2>2. ASSUME NEW i \in Nat, AckAt(c, i)'
        PROVE  /\ toClient'[c][i].sub \in SubsOf(p)
               /\ sub[toClient'[c][i].sub] \in {"subscribing", "unsubscribing"}
               /\ sub[toClient'[c][i].sub] = "unsubscribing" => ~Serves(c)
    <3>1. AckAt(c, i) /\ toClient'[c][i] = toClient[c][i]
      BY <1>8, <2>2
    <3>2. /\ toClient[c][i].sub \in SubsOf(p)
          /\ sub[toClient[c][i].sub] \in {"subscribing", "unsubscribing"}
          /\ sub[toClient[c][i].sub] = "unsubscribing" => ~Serves(c)
      BY <3>1 DEF Orderly, Stages
    <3> QED
      BY <3>1, <3>2
  <2> QED
    BY <1>1, <1>6, <2>1, <2>2 DEF Stages
<1>11. ASSUME Serves(c)
       PROVE  \E k \in SubsOf(p) :
                /\ Active(k)
                /\ sub[k] = "subscribing" =>
                     \E i \in Nat : i \in 1 .. n /\ AckAt(c, i)' /\ toClient'[c][i].sub = k
  <2>1. PICK k \in SubsOf(p) :
          Active(k) /\ (sub[k] = "subscribing" => \E i \in Nat : AckAt(c, i) /\ toClient[c][i].sub = k)
    BY <1>11 DEF Orderly, Served
  <2>2. sub[k] = "subscribing" => \E i \in Nat : i \in 1 .. n /\ AckAt(c, i)' /\ toClient'[c][i].sub = k
    BY <1>8, <2>1
  <2> QED
    BY <2>1, <2>2
<1>12. ASSUME NEW i \in Nat, HandleAt(c, i)'
       PROVE  \/ callback[p] # Nothing
              \/ \E j \in Nat : j < i /\ AckAt(c, j)' /\ sub[toClient'[c][j].sub] = "subscribing"
  <2>1. CASE HandleAt(c, i)
    <3>1. CASE \E j \in Nat : j < i /\ AckAt(c, j) /\ sub[toClient[c][j].sub] = "subscribing"
      BY <1>8, <3>1
    <3> QED
      BY <2>1, <3>1 DEF Orderly, Served
  <2>2. CASE i > n /\ Serves(c)
    <3>1. PICK k \in SubsOf(p) :
            /\ Active(k)
            /\ sub[k] = "subscribing" =>
                 \E j \in Nat : j \in 1 .. n /\ AckAt(c, j)' /\ toClient'[c][j].sub = k
      BY <1>11, <2>2
    <3>2. CASE sub[k] = "subscribing"
      <4>1. PICK j \in Nat : j \in 1 .. n /\ AckAt(c, j)' /\ toClient'[c][j].sub = k
        BY <3>1, <3>2
      <4>2. j < i
        BY <2>2, <4>1
      <4> QED
        BY <3>2, <4>1, <4>2
    <3>3. CASE sub[k] # "subscribing"
      BY <3>1, <3>3 DEF OneCall, Active
    <3> QED
      BY <3>2, <3>3
  <2> QED
    BY <1>8, <1>12, <2>1, <2>2
<1>13. Served(p, c)'
  BY <1>1, <1>6, <1>11, <1>12 DEF Served, Active
<1>14. Accounted(p, c)'
  <2> SUFFICES ASSUME NEW i \in DOMAIN consumers', NEW x \in consumers'[i].handling, consumers'[i].con = c
               PROVE  OnTheWay(p, c, x)'
    BY DEF Accounted
  <2>1. CASE i \in Chosen
    <3>1. x = m /\ i \in ChosenOn(c)
      BY <1>5, <2>1 DEF ChosenOn
    <3>2. l > 0
      <4>1. IsFiniteSet(ChosenOn(c))
        BY ChosenAre DEF QueueTypes
      <4>2. Cardinality(ChosenOn(c)) # 0
        BY <3>1, <4>1, FS_EmptySet
      <4> QED
        BY <1>2, <4>2
    <3>3. n + 1 \in 1 .. n + l /\ n + 1 \in n + 1 .. n + l /\ n + 1 \in Nat
      BY <3>2
    <3>4. HandleAt(c, n + 1)' /\ toClient'[c][n + 1].msg = m
      BY <1>2, <1>3, <1>4, <3>3 DEF HandleAt, IsHandle
    <3> QED
      BY <3>1, <3>3, <3>4 DEF OnTheWay
  <2>2. CASE i \notin Chosen
    <3>1. OnTheWay(p, c, x)
      BY <1>5, <2>2 DEF Orderly, Accounted
    <3> QED
      BY <1>1, <1>8, <3>1 DEF OnTheWay
  <2> QED
    BY <2>1, <2>2
<1> QED
  BY <1>9, <1>10, <1>13, <1>14 DEF Orderly

\* A message that is handed over by itself.
LEMMA ReceivesOne ==
    ASSUME QueueTypes, NEW p \in Client, NEW c \in Connection, 1 \in 1 .. Len(toClient[c]), Receive(p, c, 1)
    PROVE  /\ \E l \in Nat :
                /\ DOMAIN toClient[c] = 1 .. l + 1 /\ DOMAIN toClient'[c] = 1 .. l
                /\ \A i \in 1 .. l : toClient'[c][i] = toClient[c][i + 1]
           /\ UNCHANGED <<consumers, toBroker, up>>
           /\ running[p] \subseteq running'[p]
           /\ \A q \in Client : q # p => running'[q] = running[q] /\ callback'[q] = callback[q]
           /\ ~AckAt(c, 1) => UNCHANGED <<sub, callback>>
           /\ AckAt(c, 1) =>
                LET k == toClient[c][1].sub
                IN  /\ k \in Sub
                    /\ sub' = [sub EXCEPT ![k] = IF @ = "subscribing" THEN "consuming" ELSE "over"]
                    /\ callback'[p] = IF sub[k] = "subscribing" THEN k ELSE callback[p]
           /\ HandleAt(c, 1) /\ callback[p] # Nothing =>
                \E j \in Nat : <<toClient[c][1].msg, j>> \in running'[p]
<1>1. /\ Len(toClient[c]) \in Nat /\ DOMAIN toClient[c] = 1 .. Len(toClient[c])
      /\ DOMAIN toClient'[c] = 1 .. Len(toClient[c]) - 1
      /\ \A i \in DOMAIN toClient'[c] : toClient'[c][i] = toClient[c][i + 1]
  BY Receives
<1>2. PICK l \in Nat : Len(toClient[c]) = l + 1
  <2>1. Len(toClient[c]) - 1 \in Nat /\ Len(toClient[c]) = (Len(toClient[c]) - 1) + 1
    BY <1>1
  <2> QED
    BY <2>1
<1>3. /\ DOMAIN toClient[c] = 1 .. l + 1 /\ DOMAIN toClient'[c] = 1 .. l
      /\ \A i \in 1 .. l : toClient'[c][i] = toClient[c][i + 1]
  BY <1>1, <1>2
<1>4. UNCHANGED <<consumers, toBroker, up>>
  BY DEF Receive, brokerVars
<1>5. ClientTypes
  BY DEF QueueTypes
<1>6. 1 .. 1 = {1} /\ 1 \in DOMAIN toClient[c]
  BY <1>1
<1>7. Acked(c, 1) = IF AckAt(c, 1) THEN {toClient[c][1].sub} ELSE {}
  BY <1>6 DEF Acked, AckAt
<1>8. /\ sub' = [k \in Sub |-> CASE k \in Ready(c, 1) -> "consuming"
                                 [] k \in Acked(c, 1) \ Ready(c, 1) -> "over"
                                 [] OTHER -> sub[k]]
      /\ \/ Ready(c, 1) = {} /\ UNCHANGED callback
         \/ \E k \in Ready(c, 1) : callback' = [callback EXCEPT ![p] = k]
  BY DEF Receive, Acked, Ready
<1>9. ASSUME ~AckAt(c, 1)
      PROVE  UNCHANGED <<sub, callback>>
  <2>1. Acked(c, 1) = {} /\ Ready(c, 1) = {}
    BY <1>7, <1>9 DEF Ready
  <2> QED
    BY <1>5, <1>8, <2>1 DEF ClientTypes
<1>10. ASSUME AckAt(c, 1), NEW k, k = toClient[c][1].sub
       PROVE  /\ k \in Sub
              /\ sub' = [sub EXCEPT ![k] = IF @ = "subscribing" THEN "consuming" ELSE "over"]
              /\ callback'[p] = IF sub[k] = "subscribing" THEN k ELSE callback[p]
  <2>1. Acked(c, 1) = {k} /\ Ready(c, 1) = IF sub[k] = "subscribing" THEN {k} ELSE {}
    BY <1>7, <1>10 DEF Ready
  <2>2. k \in Sub
    <3>1. toClient[c][1] \in Packet
      BY <1>6 DEF QueueTypes, NetTypes
    <3> QED
      BY <1>10, <3>1, PacketKinds DEF AckAt, IsControl
  <2>3. sub' = [sub EXCEPT ![k] = IF @ = "subscribing" THEN "consuming" ELSE "over"]
    BY <1>5, <1>8, <2>1, <2>2 DEF ClientTypes
  <2>4. callback'[p] = IF sub[k] = "subscribing" THEN k ELSE callback[p]
    BY <1>5, <1>8, <2>1 DEF ClientTypes
  <2> QED
    BY <2>2, <2>3, <2>4
<1>11. \A q \in Client : q # p => callback'[q] = callback[q]
  BY <1>5, <1>8 DEF ClientTypes
<1>12. CASE callback[p] = Nothing
  <2>1. UNCHANGED running
    BY <1>12 DEF Receive
  <2> QED
    BY <1>3, <1>4, <1>9, <1>10, <1>11, <1>12, <2>1
<1>13. CASE callback[p] # Nothing
  <2> DEFINE new == UNION { {x} \X (processed[x] + 1 .. processed'[x]) : x \in Message }
  <2>1. /\ processed' = [x \in Message |-> processed[x] + Cardinality(Given(c, 1, x))]
        /\ running' = [running EXCEPT ![p] = @ \cup new]
    BY <1>13 DEF Receive, Given
  <2>2. \A x \in Message : \A j : j \in processed[x] + 1 .. processed'[x] => <<x, j>> \in new
    OBVIOUS
  <2> HIDE DEF new
  <2>3. running'[p] = running[p] \cup new /\ \A q \in Client : q # p => running'[q] = running[q]
    BY <1>5, <2>1 DEF ClientTypes
  <2>4. ASSUME HandleAt(c, 1)
        PROVE  \E j \in Nat : <<toClient[c][1].msg, j>> \in running'[p]
    <3>1. PICK m \in Message : m = toClient[c][1].msg
      <4>1. toClient[c][1] \in Packet
        BY <1>6 DEF QueueTypes, NetTypes
      <4> QED
        BY <2>4, <4>1, PacketKinds DEF HandleAt
    <3>2. Given(c, 1, m) = {1}
      BY <1>6, <2>4, <3>1 DEF Given, HandleAt, IsHandle
    <3>3. Cardinality({1}) = 1
      BY FS_Singleton
    <3>4. processed[m] \in Nat /\ processed'[m] = processed[m] + 1
      BY <1>5, <2>1, <3>2, <3>3 DEF ClientTypes
    <3>5. processed[m] + 1 \in processed[m] + 1 .. processed'[m] /\ processed[m] + 1 \in Nat
      BY <3>4
    <3> QED
      BY <2>2, <2>3, <3>1, <3>5
  <2> QED
    BY <1>3, <1>4, <1>9, <1>10, <1>11, <2>3, <2>4
<1> QED
  BY <1>12, <1>13

\* A client takes an acknowledgement, or a message that becomes a call.
LEMMA ReceiveHere ==
    ASSUME QueueTypes, NEW p \in Client, NEW c \in Connection, OneCall(p), Orderly(p, c),
           1 \in 1 .. Len(toClient[c]), Receive(p, c, 1)
    PROVE  /\ OneCall(p)' /\ Orderly(p, c)'
           /\ \A q \in Client : q # p => \A k \in SubsOf(q) : sub'[k] = sub[k]
<1>1. PICK l \in Nat :
        /\ DOMAIN toClient[c] = 1 .. l + 1 /\ DOMAIN toClient'[c] = 1 .. l
        /\ \A i \in 1 .. l : toClient'[c][i] = toClient[c][i + 1]
  BY ReceivesOne
<1>2. /\ UNCHANGED <<consumers, toBroker, up>>
      /\ running[p] \subseteq running'[p]
      /\ ~AckAt(c, 1) => UNCHANGED <<sub, callback>>
  BY ReceivesOne
<1>3. sub \in [Sub -> SubState]
  BY DEF QueueTypes, ClientTypes
<1>4. ASSUME NEW i \in Nat
      PROVE  /\ RequestAt(c, i)' <=> RequestAt(c, i)
             /\ AnswerAt(c, i)' <=> AnswerAt(c, i)
             /\ AckAt(c, i)' => AckAt(c, i + 1) /\ toClient'[c][i] = toClient[c][i + 1]
             /\ AckAt(c, i) /\ i # 1 =>
                  i - 1 \in Nat /\ AckAt(c, i - 1)' /\ toClient'[c][i - 1] = toClient[c][i]
             /\ HandleAt(c, i)' => HandleAt(c, i + 1) /\ toClient'[c][i] = toClient[c][i + 1]
             /\ HandleAt(c, i) /\ i # 1 =>
                  i - 1 \in Nat /\ HandleAt(c, i - 1)' /\ toClient'[c][i - 1] = toClient[c][i]
  <2>1. (RequestAt(c, i)' <=> RequestAt(c, i)) /\ (AnswerAt(c, i)' <=> AnswerAt(c, i))
    BY <1>2 DEF RequestAt, AnswerAt
  <2>2. i \in 1 .. l => i + 1 \in 1 .. l + 1
    OBVIOUS
  <2>3. i \in 1 .. l + 1 /\ i # 1 => i - 1 \in 1 .. l /\ i - 1 \in Nat /\ (i - 1) + 1 = i
    OBVIOUS
  <2>4. AckAt(c, i)' => AckAt(c, i + 1) /\ toClient'[c][i] = toClient[c][i + 1]
    BY <1>1, <2>2 DEF AckAt
  <2>5. HandleAt(c, i)' => HandleAt(c, i + 1) /\ toClient'[c][i] = toClient[c][i + 1]
    BY <1>1, <2>2 DEF HandleAt
  <2>6. i \in DOMAIN toClient[c] /\ i # 1 =>
          i - 1 \in Nat /\ i - 1 \in DOMAIN toClient'[c] /\ toClient'[c][i - 1] = toClient[c][i]
    BY <1>1, <2>3
  <2>7. AckAt(c, i) /\ i # 1 =>
          i - 1 \in Nat /\ AckAt(c, i - 1)' /\ toClient'[c][i - 1] = toClient[c][i]
    BY <2>6 DEF AckAt
  <2>8. HandleAt(c, i) /\ i # 1 =>
          i - 1 \in Nat /\ HandleAt(c, i - 1)' /\ toClient'[c][i - 1] = toClient[c][i]
    BY <2>6 DEF HandleAt
  <2> QED
    BY <2>1, <2>4, <2>5, <2>7, <2>8
<1>5. Serves(c)' = Serves(c) /\ OneConsumer(c)' = OneConsumer(c)
  BY <1>2 DEF Serves, OneConsumer
<1>6. Accounted(p, c)'
  <2> SUFFICES ASSUME NEW i \in DOMAIN consumers, NEW m \in consumers[i].handling, consumers[i].con = c
               PROVE  OnTheWay(p, c, m)'
    BY <1>2 DEF Accounted
  <2>1. OnTheWay(p, c, m)
    BY DEF Orderly, Accounted
  <2>2. CASE \E j \in Nat : <<m, j>> \in running[p]
    BY <1>2, <2>2 DEF OnTheWay
  <2>3. CASE \E j \in Nat : AnswerAt(c, j) /\ toBroker[c][j].msg = m
    BY <1>2, <1>4, <2>3 DEF OnTheWay
  <2>4. ASSUME NEW j \in Nat, HandleAt(c, j), toClient[c][j].msg = m PROVE OnTheWay(p, c, m)'
    <3>1. CASE j # 1
      BY <1>4, <2>4, <3>1 DEF OnTheWay
    <3>2. CASE j = 1
      <4>1. callback[p] # Nothing
        <5>1. \A i2 \in Nat : AckAt(c, i2) => ~(i2 < 1)
          BY <1>1 DEF AckAt
        <5> QED
          BY <2>4, <3>2, <5>1 DEF Orderly, Served
      <4>2. \E x \in Nat : <<m, x>> \in running'[p]
        BY <2>4, <3>2, <4>1, ReceivesOne
      <4> QED
        BY <4>2 DEF OnTheWay
    <3> QED
      BY <3>1, <3>2
  <2> QED
    BY <2>1, <2>2, <2>3, <2>4 DEF OnTheWay
<1>7. CASE AckAt(c, 1)
  <2>1. PICK k : k = toClient[c][1].sub
    OBVIOUS
  <2>2. /\ k \in Sub
        /\ sub' = [sub EXCEPT ![k] = IF @ = "subscribing" THEN "consuming" ELSE "over"]
        /\ callback'[p] = IF sub[k] = "subscribing" THEN k ELSE callback[p]
    BY <1>7, <2>1, ReceivesOne
  <2>3. /\ k \in SubsOf(p) /\ sub[k] \in {"subscribing", "unsubscribing"}
        /\ sub[k] = "unsubscribing" => ~Serves(c)
    BY <1>7, <2>1 DEF Orderly, Stages
  <2>4. callback'[p] # Nothing
    BY <2>2, <2>3, BrokerQueueAssumption DEF OneCall
  <2>5. sub'[k] \in {"consuming", "over"} /\ (sub[k] = "subscribing" => sub'[k] = "consuming")
    BY <1>3, <2>2
  <2>6. \A j \in Sub : j # k => sub'[j] = sub[j]
    BY <1>3, <2>2
  <2>7. \A i \in Nat : ~RequestAt(c, i) /\ (AckAt(c, i) => i = 1)
    BY <1>7 DEF Orderly, OneControl
  <2>8. ASSUME NEW i \in Nat
        PROVE  ~RequestAt(c, i)' /\ ~AckAt(c, i)'
    <3>1. ~AckAt(c, i)'
      <4> SUFFICES ASSUME AckAt(c, i)' PROVE FALSE
        OBVIOUS
      <4>1. AckAt(c, i + 1) /\ i \in 1 .. l
        BY <1>1, <1>4 DEF AckAt
      <4>2. i + 1 \in Nat /\ i + 1 # 1
        BY <4>1
      <4> QED
        BY <2>7, <4>1, <4>2
    <3> QED
      BY <1>4, <2>7, <3>1
  <2>9. OneCall(p)'
    <3>1. \A j \in SubsOf(p) : Active(j)' => Active(j)
      BY <2>3, <2>6 DEF Active, SubsOf
    <3> QED
      BY <2>4, <3>1 DEF OneCall
  <2>10. Served(p, c)'
    <3>1. ASSUME Serves(c) PROVE Active(k)' /\ sub'[k] # "subscribing"
      BY <2>3, <2>5, <3>1 DEF Active
    <3> QED
      BY <1>5, <2>3, <2>4, <3>1 DEF Orderly, Served
  <2>11. OneControl(c)' /\ Stages(p, c)'
    BY <2>8 DEF OneControl, Stages
  <2>12. \A q \in Client : q # p => \A j \in SubsOf(q) : sub'[j] = sub[j]
    BY <2>3, <2>6 DEF SubsOf
  <2> QED
    BY <1>6, <2>9, <2>10, <2>11, <2>12 DEF Orderly
<1>8. CASE ~AckAt(c, 1)
  <2>1. UNCHANGED <<sub, callback>>
    BY <1>2, <1>8
  <2>2. OneCall(p)'
    BY <2>1 DEF OneCall, Active
  <2>3. OneControl(c)'
    <3>1. ASSUME NEW i \in Nat, NEW j \in Nat, AckAt(c, i)', AckAt(c, j)' PROVE i = j
      <4>1. i + 1 = j + 1
        BY <1>4, <3>1 DEF Orderly, OneControl
      <4> QED
        BY <4>1
    <3>2. ASSUME NEW i \in Nat, NEW j \in Nat, RequestAt(c, i)', AckAt(c, j)' PROVE FALSE
      <4>1. RequestAt(c, i)
        BY <1>4, <3>2
      <4>2. AckAt(c, j + 1) /\ j + 1 \in Nat
        BY <1>4, <3>2
      <4> QED
        BY <4>1, <4>2 DEF Orderly, OneControl
    <3>3. ASSUME NEW i \in Nat, NEW j \in Nat, RequestAt(c, i)', RequestAt(c, j)' PROVE i = j
      BY <1>4, <3>3 DEF Orderly, OneControl
    <3> QED
      BY <3>1, <3>2, <3>3 DEF OneControl
  <2>4. Stages(p, c)'
    <3>1. ASSUME NEW i \in Nat, RequestAt(c, i)'
          PROVE  /\ toBroker[c][i].sub \in SubsOf(p)
                 /\ toBroker[c][i].type = "Subscribe" => sub[toBroker[c][i].sub] = "subscribing" /\ ~Serves(c)
                 /\ toBroker[c][i].type = "Unsubscribe" => sub[toBroker[c][i].sub] = "unsubscribing"
      BY <1>4, <3>1 DEF Orderly, Stages
    <3>2. ASSUME NEW i \in Nat, AckAt(c, i)'
          PROVE  /\ toClient'[c][i].sub \in SubsOf(p)
                 /\ sub[toClient'[c][i].sub] \in {"subscribing", "unsubscribing"}
                 /\ sub[toClient'[c][i].sub] = "unsubscribing" => ~Serves(c)
      <4>1. AckAt(c, i + 1) /\ i + 1 \in Nat /\ toClient'[c][i] = toClient[c][i + 1]
        BY <1>4, <3>2
      <4>2. /\ toClient[c][i + 1].sub \in SubsOf(p)
            /\ sub[toClient[c][i + 1].sub] \in {"subscribing", "unsubscribing"}
            /\ sub[toClient[c][i + 1].sub] = "unsubscribing" => ~Serves(c)
        BY <4>1 DEF Orderly, Stages
      <4> QED
        BY <4>1, <4>2
    <3> QED
      BY <1>2, <1>5, <2>1, <3>1, <3>2 DEF Stages
  <2>5. ASSUME Serves(c)
        PROVE  \E k \in SubsOf(p) :
                 /\ Active(k)
                 /\ sub[k] = "subscribing" => \E i \in Nat : AckAt(c, i)' /\ toClient'[c][i].sub = k
    <3>1. PICK k \in SubsOf(p) :
            Active(k) /\ (sub[k] = "subscribing" => \E i \in Nat : AckAt(c, i) /\ toClient[c][i].sub = k)
      BY <2>5 DEF Orderly, Served
    <3>2. ASSUME sub[k] = "subscribing"
          PROVE  \E i \in Nat : AckAt(c, i)' /\ toClient'[c][i].sub = k
      <4>1. PICK i \in Nat : AckAt(c, i) /\ toClient[c][i].sub = k
        BY <3>1, <3>2
      <4>2. i - 1 \in Nat /\ AckAt(c, i - 1)' /\ toClient'[c][i - 1].sub = k
        BY <1>4, <1>8, <4>1
      <4> QED
        BY <4>2
    <3> QED
      BY <3>1, <3>2
  <2>6. ASSUME NEW i \in Nat, HandleAt(c, i)'
        PROVE  \/ callback[p] # Nothing
               \/ \E j \in Nat : j < i /\ AckAt(c, j)' /\ sub[toClient'[c][j].sub] = "subscribing"
    <3>1. HandleAt(c, i + 1) /\ i + 1 \in Nat
      BY <1>4, <2>6
    <3>2. ASSUME NEW j \in Nat, j < i + 1, AckAt(c, j), sub[toClient[c][j].sub] = "subscribing"
          PROVE  \E x \in Nat : x < i /\ AckAt(c, x)' /\ sub[toClient'[c][x].sub] = "subscribing"
      <4>1. j - 1 \in Nat /\ AckAt(c, j - 1)' /\ toClient'[c][j - 1] = toClient[c][j]
        BY <1>4, <1>8, <3>2
      <4>2. j - 1 < i
        BY <3>2
      <4> QED
        BY <3>2, <4>1, <4>2
    <3> QED
      BY <3>1, <3>2 DEF Orderly, Served
  <2>7. Served(p, c)'
    BY <1>5, <2>1, <2>5, <2>6 DEF Orderly, Served, Active
  <2> QED
    BY <1>6, <2>1, <2>2, <2>3, <2>4, <2>7 DEF Orderly
<1> QED
  BY <1>7, <1>8

\* A connection without anything under way and without a consumer.
LEMMA EmptyHere ==
    ASSUME NEW p, NEW c, (toBroker[c] = <<>>)', (toClient[c] = <<>>)', ~Serves(c)'
    PROVE  Orderly(p, c)'
<1>1. \A i \in Nat : ~RequestAt(c, i)' /\ ~AckAt(c, i)' /\ ~HandleAt(c, i)'
  BY DEF RequestAt, AckAt, HandleAt
<1>2. \A i \in DOMAIN consumers' : consumers'[i].con # c
  BY DEF Serves
<1>3. OneControl(c)' /\ Stages(p, c)'
  BY <1>1 DEF OneControl, Stages
<1>4. Served(p, c)' /\ Accounted(p, c)'
  BY <1>1, <1>2 DEF Served, Accounted, OneConsumer
<1> QED
  BY <1>3, <1>4 DEF Orderly

\* A client that releases a consumer before it consumes again, and takes the messages
\* one by one, is served by one consumer at a time, and each of its slots is on the way.
Ordered ==
  OneAtATime /\ ~Batched =>
    \A p \in Client :
      /\ OneCall(p)
      /\ \A c \in ConnectionsOf[p] : up[c] = "up" => Orderly(p, c)

\* No connection is open.
LEMMA OrderedInit == QueueInit => Ordered
<1> SUFFICES ASSUME QueueInit, NEW p \in Client
             PROVE  OneCall(p) /\ \A c \in ConnectionsOf[p] : up[c] # "up"
  BY DEF Ordered
<1>1. \A k \in SubsOf(p) : sub[k] = "new"
  BY DEF QueueInit, SubsOf
<1>2. \A c \in ConnectionsOf[p] : c \in Connection
  BY Places
<1> QED
  BY <1>1, <1>2 DEF QueueInit, OneCall, Active

\* A client that releases first has one consume() that is not over.
LEMMA OneCallStep ==
    ASSUME QueueTypes, OneAtATime, [QueueNext]_queueVars, \A q \in Client : ~Deliver(q),
           NEW p \in Client, OneCall(p)
    PROVE  OneCall(p)'
<1>1. sub \in [Sub -> SubState]
  BY DEF QueueTypes, ClientTypes
<1>2. UNCHANGED callback
  BY LeavesAlone DEF QueueNext, Handler
<1>3. CASE UNCHANGED sub
  BY <1>2, <1>3 DEF OneCall, Active
<1>4. ASSUME NEW k \in Sub, consume(k)
      PROVE  OneCall(p)'
  <2>1. /\ sub' = [sub EXCEPT ![k] = "subscribing"]
        /\ \A j \in Sub : ClientOf[j] = ClientOf[k] => ~Active(j)
    BY <1>4 DEF consume
  <2>2. CASE ClientOf[k] = p
    <3>1. \A j \in SubsOf(p) : j # k => sub'[j] \notin {"subscribing", "consuming", "unsubscribing"}
      BY <1>1, <2>1, <2>2 DEF SubsOf, Active
    <3>2. sub'[k] = "subscribing"
      BY <1>1, <2>1
    <3> QED
      BY <3>1, <3>2 DEF OneCall, Active
  <2>3. CASE ClientOf[k] # p
    <3>1. \A j \in SubsOf(p) : sub'[j] = sub[j]
      BY <1>1, <2>1, <2>3 DEF SubsOf
    <3> QED
      BY <1>2, <3>1 DEF OneCall, Active
  <2> QED
    BY <2>2, <2>3
<1>5. ASSUME NEW k \in Sub, release(k)
      PROVE  OneCall(p)'
  <2>1. sub' = [sub EXCEPT ![k] = "unsubscribing"] /\ sub[k] = "consuming"
    BY <1>5 DEF release
  <2>2. \A j \in SubsOf(p) :
          /\ Active(j)' => Active(j)
          /\ sub'[j] \in {"consuming", "unsubscribing"} => sub[j] \in {"consuming", "unsubscribing"}
    BY <1>1, <2>1 DEF SubsOf, Active
  <2> QED
    BY <1>2, <2>2 DEF OneCall
<1>6. ASSUME NEW q \in Client, NEW d \in Connection, Break(q, d)
      PROVE  OneCall(p)'
  <2>1. sub' = [k \in Sub |-> IF ClientOf[k] = q /\ sub[k] \in {"subscribing", "unsubscribing"}
                              THEN "over" ELSE sub[k]]
    BY <1>6 DEF Break
  <2>2. \A j \in SubsOf(p) :
          /\ Active(j)' => Active(j)
          /\ sub'[j] \in {"consuming", "unsubscribing"} => sub[j] \in {"consuming", "unsubscribing"}
    BY <1>1, <2>1 DEF SubsOf, Active
  <2> QED
    BY <1>2, <2>2 DEF OneCall
<1>7. \/ UNCHANGED sub
      \/ \E k \in Sub : consume(k) \/ release(k)
      \/ \E q \in Client, d \in Connection : Break(q, d)
  BY LeavesAlone DEF QueueNext, Handler
<1> QED
  BY <1>3, <1>4, <1>5, <1>6, <1>7

\* A step concerns one connection, or it is queuePublish() and fills the free slots.
LEMMA OrderedStep == QueueTypes /\ Reachable /\ Ordered /\ [QueueNext]_queueVars => Ordered'
<1> SUFFICES ASSUME QueueTypes, Reachable, Ordered, [QueueNext]_queueVars, OneAtATime, ~Batched,
                    NEW p \in Client
             PROVE  /\ OneCall(p)'
                    /\ \A c \in ConnectionsOf[p] : up'[c] = "up" => Orderly(p, c)'
  BY DEF Ordered
<1>1. /\ \A q \in Client : OneCall(q)
      /\ \A q \in Client : \A c \in ConnectionsOf[q] : up[c] = "up" => Orderly(q, c)
  BY DEF Ordered
<1>2. /\ sub \in [Sub -> SubState] /\ running \in [Client -> SUBSET Calls]
      /\ up \in [Connection -> {"new", "up", "down"}]
  BY DEF QueueTypes, NetTypes, ClientTypes
<1>3. ASSUME NEW q \in Client, NEW d \in ConnectionsOf[q], up[d] = "up",
             NEW c \in ConnectionsOf[p], up[c] = "up"
      PROVE  IF c = d THEN q = p ELSE q # p
  BY <1>3, OthersConnection DEF Reachable
<1>4. CASE \E m \in Message : queuePublish(m)
  <2>1. PICK m \in Message : queuePublish(m)
    BY <1>4
  <2>2. UNCHANGED <<up, sub, callback>>
    BY <2>1 DEF queuePublish, clientVars
  <2>3. OneCall(p)'
    BY <1>1, <2>2 DEF OneCall, Active
  <2>4. ASSUME NEW c \in ConnectionsOf[p], up'[c] = "up" PROVE Orderly(p, c)'
    <3>1. c \in Connection /\ up[c] = "up"
      BY <2>2, <2>4, Places
    <3> QED
      BY <1>1, <2>1, <3>1, PublishHere
  <2> QED
    BY <2>3, <2>4
<1>5. CASE \A m \in Message : ~queuePublish(m)
  <2>1. ASSUME NEW c \in ConnectionsOf[p], up[c] = "up",
               toBroker'[c] = toBroker[c], toClient'[c] = toClient[c],
               \A k \in SubsOf(p) : sub'[k] = sub[k],
               callback'[p] = callback[p], running[p] \subseteq running'[p]
        PROVE  Orderly(p, c)'
    <3>1. c \in Connection /\ Orderly(p, c)
      BY <1>1, <2>1, Places
    <3> QED
      BY <1>5, <2>1, <3>1, Elsewhere
  <2>2. CASE \E q \in Client : Deliver(q)
    <3>1. PICK q \in Client, d \in Connection : \E n \in 1 .. Len(toClient[d]) : Receive(q, d, n)
      BY <2>2 DEF Deliver
    <3>2. PICK n \in 1 .. Len(toClient[d]) : Receive(q, d, n)
      BY <3>1
    <3>3. n = 1
      BY <3>2 DEF Receive
    <3>4. 1 \in 1 .. Len(toClient[d]) /\ Receive(q, d, 1)
      BY <3>2, <3>3
    <3>5. up[d] = "up" /\ d \in ConnectionsOf[q] /\ OtherChannels(d)
      BY <3>4, OneConnection
    <3>6. /\ OneCall(q)' /\ Orderly(q, d)'
          /\ \A x \in Client : x # q => \A k \in SubsOf(x) : sub'[k] = sub[k]
      BY <1>1, <3>4, <3>5, ReceiveHere
    <3>7. /\ UNCHANGED up
          /\ \A x \in Client : x # q => running'[x] = running[x] /\ callback'[x] = callback[x]
      BY <3>4, ReceivesOne
    <3>8. OneCall(p)'
      <4>1. CASE p # q
        BY <1>1, <3>6, <3>7, <4>1 DEF OneCall, Active
      <4> QED
        BY <3>6, <4>1
    <3>9. ASSUME NEW c \in ConnectionsOf[p], up'[c] = "up" PROVE Orderly(p, c)'
      <4>1. c \in Connection /\ up[c] = "up"
        BY <3>7, <3>9, Places
      <4>2. CASE c = d
        BY <1>3, <3>5, <3>6, <4>1, <4>2
      <4>3. CASE c # d
        <5>1. q # p
          BY <1>3, <3>5, <4>1, <4>3
        <5> QED
          BY <2>1, <3>5, <3>6, <3>7, <4>1, <4>3, <5>1 DEF OtherChannels
      <4> QED
        BY <4>2, <4>3
    <3> QED
      BY <3>8, <3>9
  <2>3. CASE ~\E q \in Client : Deliver(q)
    <3>1. OneCall(p)'
      BY <1>1, <2>3, OneCallStep
    <3> SUFFICES ASSUME NEW c \in ConnectionsOf[p], up'[c] = "up" PROVE Orderly(p, c)'
      BY <3>1
    <3>2. c \in Connection
      BY Places
    <3>3. CASE \E q \in Client : Finish(q)
      <4>1. PICK q \in Client : Finish(q)
        BY <3>3
      <4>2. PICK call \in running[q], answer \in {"Error", "Success", "Neither"} :
              callbackDone(q, call, answer)
        BY <4>1 DEF Finish
      <4>3. call \in Calls /\ call[1] \in Message
        BY <1>2 DEF Calls
      <4>4. PICK packet \in Packet : packet = [type |-> answer, msg |-> call[1]]
        BY <4>3, PacketKinds
      <4>5. /\ running' = [running EXCEPT ![q] = @ \ {call}] /\ Send(q, packet)
            /\ UNCHANGED <<consumers, up, toClient, sub, callback>>
        BY <4>2, <4>4 DEF callbackDone, brokerVars
      <4>6. PICK d \in ConnectionsOf[q] :
              /\ d \in Connection /\ up[d] = "up"
              /\ toBroker' = [toBroker EXCEPT ![d] = Append(@, packet)]
        BY <4>5, Sends
      <4>7. up[c] = "up"
        BY <4>5
      <4>8. CASE c = d
        <5>1. q = p
          BY <1>3, <4>6, <4>7, <4>8
        <5>2. running'[p] = running[p] \ {call} /\ Orderly(p, c)
          BY <1>1, <1>2, <4>5, <4>7, <5>1
        <5>3. IsAnswer(packet) /\ packet.msg = call[1]
          BY <4>4 DEF IsAnswer
        <5> QED
          BY <3>2, <4>3, <4>5, <4>6, <4>8, <5>2, <5>3, FinishHere
      <4>9. CASE c # d
        <5>1. q # p
          BY <1>3, <4>6, <4>7, <4>9
        <5>2. running'[p] = running[p] /\ toBroker'[c] = toBroker[c] /\ toClient'[c] = toClient[c]
          BY <1>2, <4>5, <4>6, <4>9, <5>1
        <5> QED
          BY <2>1, <4>5, <4>7, <5>2
      <4> QED
        BY <4>8, <4>9
    <3>4. CASE \E k \in Sub : consume(k)
      <4>1. PICK k \in Sub : consume(k)
        BY <3>4
      <4>2. PICK q \in Client : q = ClientOf[k]
        BY BrokerQueueAssumption
      <4>3. PICK packet \in Packet : packet = [type |-> "Subscribe", sub |-> k]
        BY PacketKinds
      <4>4. /\ sub' = [sub EXCEPT ![k] = "subscribing"] /\ Send(q, packet)
            /\ \A j \in SubsOf(q) : ~Active(j)
            /\ UNCHANGED <<consumers, up, toClient, callback, running>>
        BY <4>1, <4>2, <4>3 DEF consume, brokerVars, SubsOf
      <4>5. PICK d \in ConnectionsOf[q] :
              /\ d \in Connection /\ up[d] = "up"
              /\ toBroker' = [toBroker EXCEPT ![d] = Append(@, packet)]
        BY <4>4, Sends
      <4>6. up[c] = "up"
        BY <4>4
      <4>7. CASE c = d
        <5>1. q = p /\ k \in SubsOf(p)
          BY <1>3, <4>2, <4>5, <4>6, <4>7 DEF SubsOf
        <5>2. Orderly(p, c)
          BY <1>1, <4>6
        <5> QED
          BY <3>2, <4>3, <4>4, <4>5, <4>7, <5>1, <5>2, ConsumeHere
      <4>8. CASE c # d
        <5>1. q # p
          BY <1>3, <4>5, <4>6, <4>8
        <5>2. /\ \A j \in SubsOf(p) : sub'[j] = sub[j]
              /\ toBroker'[c] = toBroker[c] /\ toClient'[c] = toClient[c]
          BY <1>2, <4>2, <4>4, <4>5, <4>8, <5>1 DEF SubsOf
        <5> QED
          BY <2>1, <4>4, <4>6, <5>2
      <4> QED
        BY <4>7, <4>8
    <3>5. CASE \E k \in Sub : release(k)
      <4>1. PICK k \in Sub : release(k)
        BY <3>5
      <4>2. PICK q \in Client : q = ClientOf[k]
        BY BrokerQueueAssumption
      <4>3. PICK packet \in Packet : packet = [type |-> "Unsubscribe", sub |-> k]
        BY PacketKinds
      <4>4. /\ sub' = [sub EXCEPT ![k] = "unsubscribing"] /\ Send(q, packet)
            /\ sub[k] = "consuming"
            /\ UNCHANGED <<consumers, up, toClient, callback, running>>
        BY <4>1, <4>2, <4>3 DEF release, brokerVars
      <4>5. PICK d \in ConnectionsOf[q] :
              /\ d \in Connection /\ up[d] = "up"
              /\ toBroker' = [toBroker EXCEPT ![d] = Append(@, packet)]
        BY <4>4, Sends
      <4>6. up[c] = "up"
        BY <4>4
      <4>7. CASE c = d
        <5>1. q = p /\ k \in SubsOf(p)
          BY <1>3, <4>2, <4>5, <4>6, <4>7 DEF SubsOf
        <5>2. Orderly(p, c) /\ OneCall(p)
          BY <1>1, <4>6
        <5> QED
          BY <3>2, <4>3, <4>4, <4>5, <4>7, <5>1, <5>2, ReleaseHere
      <4>8. CASE c # d
        <5>1. q # p
          BY <1>3, <4>5, <4>6, <4>8
        <5>2. /\ \A j \in SubsOf(p) : sub'[j] = sub[j]
              /\ toBroker'[c] = toBroker[c] /\ toClient'[c] = toClient[c]
          BY <1>2, <4>2, <4>4, <4>5, <4>8, <5>1 DEF SubsOf
        <5> QED
          BY <2>1, <4>4, <4>6, <5>2
      <4> QED
        BY <4>7, <4>8
    <3>6. CASE \E d \in Connection : Handler(d)
      <4>1. PICK d \in Connection : Handler(d)
        BY <3>6
      <4>2. UNCHANGED <<up, sub, callback, running>>
        BY <4>1 DEF Handler, queueSubscribe, queueUnsubscribe, queueMessageHandled, clientVars
      <4>3. up[c] = "up" /\ Orderly(p, c)
        BY <1>1, <4>2
      <4>4. CASE c = d
        BY <1>5, <3>2, <4>1, <4>3, <4>4, SubscribeHere, UnsubscribeHere, HandledHere DEF Handler
      <4>5. CASE c # d
        BY <2>1, <3>2, <4>1, <4>2, <4>3, <4>5, OneConnection DEF OtherChannels
      <4> QED
        BY <4>4, <4>5
    <3>7. CASE \E q \in Client, d \in Connection : Break(q, d)
      <4>1. PICK q \in Client, d \in Connection : Break(q, d)
        BY <3>7
      <4>2. /\ d \in ConnectionsOf[q] /\ up' = [up EXCEPT ![d] = "down"]
            /\ sub' = [k \in Sub |-> IF ClientOf[k] = q /\ sub[k] \in {"subscribing", "unsubscribing"}
                                     THEN "over" ELSE sub[k]]
            /\ UNCHANGED <<callback, running>>
        BY <4>1 DEF Break
      <4>3. up[d] = "up" /\ OtherChannels(d)
        BY <4>1, OneConnection
      <4>4. c # d /\ up[c] = "up"
        BY <1>2, <3>2, <4>2
      <4>5. q # p
        BY <1>3, <4>2, <4>3, <4>4
      <4>6. \A k \in SubsOf(p) : sub'[k] = sub[k]
        BY <4>2, <4>5 DEF SubsOf
      <4> QED
        BY <2>1, <3>2, <4>2, <4>3, <4>4, <4>6 DEF OtherChannels
    <3>8. CASE \E q \in Client, d \in Connection : Open(q, d)
      <4>1. PICK q \in Client, d \in Connection : Open(q, d)
        BY <3>8
      <4>2. /\ up' = [up EXCEPT ![d] = "up"] /\ up[d] = "new"
            /\ UNCHANGED <<consumers, toBroker, toClient, sub, callback, running>>
        BY <4>1 DEF Open, brokerVars, clientVars
      <4>3. CASE c = d
        <5>1. toBroker[c] = <<>> /\ toClient[c] = <<>> /\ ~Serves(c)
          BY <3>2, <4>2, <4>3 DEF Reachable
        <5>2. (toBroker[c] = <<>>)' /\ (toClient[c] = <<>>)' /\ ~Serves(c)'
          BY <4>2, <5>1 DEF Serves
        <5> QED
          BY <5>2, EmptyHere
      <4>4. CASE c # d
        <5>1. up[c] = "up"
          BY <1>2, <3>2, <4>2, <4>4
        <5> QED
          BY <2>1, <4>2, <5>1
      <4> QED
        BY <4>3, <4>4
    <3>9. CASE UNCHANGED <<up, toBroker, toClient, sub, callback, running>>
      BY <2>1, <3>9
    <3>10. \/ \E q \in Client : Finish(q)
           \/ \E k \in Sub : consume(k) \/ release(k)
           \/ \E d \in Connection : Handler(d)
           \/ \E q \in Client, d \in Connection : Open(q, d) \/ Break(q, d)
           \/ UNCHANGED <<up, toBroker, toClient, sub, callback, running>>
      BY <1>5, <2>3, LeavesAlone DEF QueueNext, Handler
    <3> QED
      BY <3>3, <3>4, <3>5, <3>6, <3>7, <3>8, <3>9, <3>10
  <2> QED
    BY <2>2, <2>3
<1> QED
  BY <1>4, <1>5

\* The types the proofs use are as narrow as those of the model.
LEMMA TypesAre == QueueTypes => QueueTypeOK
<1> SUFFICES ASSUME QueueTypes PROVE QueueTypeOK
  OBVIOUS
<1>1. In(consumers) \subseteq [con : Connection, handling : SUBSET Message]
  <2>1. consumers \in Seq(Consumer)
    BY DEF QueueTypes, BrokerTypes
  <2>2. \A seq \in Seq(Consumer) : In(seq) \subseteq Consumer
    BY DEF In
  <2>3. In(consumers) \subseteq Consumer
    BY <2>1, <2>2
  <2> QED
    BY <2>3 DEF Consumer
<1>2. \A c \in Connection : In(toBroker[c]) \cup In(toClient[c]) \subseteq Packet
  <2> SUFFICES ASSUME NEW c \in Connection PROVE In(toBroker[c]) \cup In(toClient[c]) \subseteq Packet
    OBVIOUS
  <2>1. toBroker[c] \in Seq(Packet) /\ toClient[c] \in Seq(Packet)
    BY DEF QueueTypes, NetTypes
  <2>2. \A seq \in Seq(Packet) : In(seq) \subseteq Packet
    BY DEF In
  <2> QED
    BY <2>1, <2>2
<1> QED
  BY <1>1, <1>2 DEF QueueTypes, BrokerTypes, NetTypes, ClientTypes, QueueTypeOK, Conditions, Calls

\* The variables keep their types, a client never runs more callbacks than it has
\* called consume(), and no slot of a consumer on an open connection is leaked if a
\* client releases before it consumes again and takes messages one by one, for any
\* clients, connections and messages (kernel.ts queuePublish, queueMessageHandled and
\* queueUnsubscribe; deepkit-adapter.ts consume).
THEOREM SlotsStayAccounted == QueueSpec => []SlotsAccounted
<1> DEFINE Inductive == QueueTypes /\ HashesKept /\ CallsCounted /\ CallsLimited /\ Reachable /\ Ordered
<1>1. QueueInit => Inductive
  BY TypesInit, HashesInit, CountedInit, LimitedInit, ConnectedInit, OrderedInit
<1>2. Inductive /\ [QueueNext]_queueVars => Inductive'
  BY TypesStep, HashesStep, CountedStep, LimitedStep, ConnectedStep, OrderedStep
<1>3. Inductive => SlotsAccounted
  <2> SUFFICES ASSUME Inductive, OneAtATime, ~Batched,
                      NEW i \in DOMAIN consumers, NEW m \in consumers[i].handling,
                      NEW c, c = consumers[i].con, up[c] = "up"
               PROVE  \/ \E p \in Client :
                           c \in ConnectionsOf[p] /\ \E j \in 1 .. processed[m] : <<m, j>> \in running[p]
                      \/ \E packet \in In(toClient[c]) \cup In(toBroker[c]) :
                           "msg" \in DOMAIN packet /\ packet.msg = m
    BY TypesAre, LimitedCalls DEF SlotsAccounted
  <2>1. c \in Connection
    <3>1. consumers \in Seq(Consumer)
      BY DEF QueueTypes, BrokerTypes
    <3>2. \A seq \in Seq(Consumer) : \A n \in DOMAIN seq : seq[n] \in Consumer
      OBVIOUS
    <3>3. consumers[i] \in Consumer
      BY <3>1, <3>2
    <3> QED
      BY <3>3 DEF Consumer
  <2>2. PICK p \in Client : c \in ConnectionsOf[p]
    BY <2>1 DEF Reachable
  <2>3. OnTheWay(p, c, m)
    BY <2>2 DEF Ordered, Orderly, Accounted
  <2>4. toBroker[c] \in Seq(Packet) /\ toClient[c] \in Seq(Packet)
    BY <2>1 DEF QueueTypes, NetTypes
  <2>5. ASSUME NEW j \in Nat, <<m, j>> \in running[p]
        PROVE  j \in 1 .. processed[m]
    <3>1. <<m, j>> \in Calls /\ m \in Message
      BY <2>5 DEF QueueTypes, ClientTypes, Calls
    <3>2. j # 0 /\ j <= processed[m]
      BY <2>5, <3>1 DEF CallsCounted, Calls
    <3>3. processed[m] \in Nat
      BY <3>1 DEF QueueTypes, ClientTypes
    <3> QED
      BY <3>2, <3>3
  <2>6. ASSUME NEW j \in Nat, HandleAt(c, j), toClient[c][j].msg = m
        PROVE  toClient[c][j] \in In(toClient[c]) /\ "msg" \in DOMAIN toClient[c][j]
    <3>1. toClient[c][j] \in In(toClient[c]) /\ toClient[c][j] \in Packet
      BY <2>4, <2>6 DEF HandleAt, In
    <3> QED
      BY <2>6, <3>1, PacketKinds DEF HandleAt
  <2>7. ASSUME NEW j \in Nat, AnswerAt(c, j), toBroker[c][j].msg = m
        PROVE  toBroker[c][j] \in In(toBroker[c]) /\ "msg" \in DOMAIN toBroker[c][j]
    <3>1. toBroker[c][j] \in In(toBroker[c]) /\ toBroker[c][j] \in Packet
      BY <2>4, <2>7 DEF AnswerAt, In
    <3> QED
      BY <2>7, <3>1, PacketKinds DEF AnswerAt
  <2>8. CASE \E j \in Nat : <<m, j>> \in running[p]
    BY <2>2, <2>5, <2>8
  <2>9. CASE \E j \in Nat : HandleAt(c, j) /\ toClient[c][j].msg = m
    BY <2>6, <2>9
  <2>10. CASE \E j \in Nat : AnswerAt(c, j) /\ toBroker[c][j].msg = m
    BY <2>7, <2>10
  <2> QED
    BY <2>3, <2>8, <2>9, <2>10 DEF OnTheWay
<1> QED
  BY <1>1, <1>2, <1>3, PTL DEF QueueSpec

-----------------------------------------------------------------------------
(* The RPC client.                                                         *)

\* What the callers and the attempts are after a connect() or a failure.
Callers == [Msg -> {"idle", "waits", "sleeps", "attempts", "failed", "sent"}]
Attempts == [Socket -> {"none", "transport", "handshake", "resolved", "rejected"}]

\* The part of RepliesAccounted that is not about types.
Told ==
  /\ \A m \in replies : caller[m] # "idle" /\ outcome[m] = "none"
  /\ \A m \in Msg \ replies : outcome[m] = "none" <=> caller[m] = "idle"

\* connect() keeps the types and takes nobody but its caller out of idleness.
LEMMA ConnectKeeps ==
  ASSUME TypeOK, NEW m \in Msg, Connect(m)
  PROVE  /\ sock' \in [Socket -> {"unused", "connecting", "open", "closing", "closed"}]
         /\ conn' \in Socket \cup {None} /\ promise' \in Socket \cup {None}
         /\ attempt' \in Attempts
         /\ of' \in [Msg -> Socket \cup {None}]
         /\ caller' \in Callers
         /\ caller'[m] # "idle"
         /\ \A n \in Msg \ {m} : caller'[n] = caller[n]
<1>1. CASE promise # None /\ caller' = [caller EXCEPT ![m] = "waits"]
           /\ of' = [of EXCEPT ![m] = promise]
           /\ UNCHANGED <<sock, conn, promise, attempt>>
  BY <1>1 DEF TypeOK, Callers, Attempts
<1>2. CASE promise = None /\ connected /\ caller' = [caller EXCEPT ![m] = "sent"]
           /\ of' = [of EXCEPT ![m] = writer]
           /\ UNCHANGED <<sock, conn, promise, attempt>>
  BY <1>2 DEF TypeOK, Callers, Attempts
<1>3. CASE promise = None /\ ~connected /\ \E s \in Socket : Attempt(m, s)
  <2>1. PICK s \in Socket : Attempt(m, s)
    BY <1>3
  <2>2. QED
    BY <2>1 DEF TypeOK, Attempt, Abandoned, Callers, Attempts
<1>4. QED
  BY <1>1, <1>2, <1>3 DEF Connect

\* A failure of attempts keeps the types and makes nobody idle or busy.
LEMMA RejectKeeps ==
  ASSUME TypeOK, NEW failed, Reject(failed)
  PROVE  /\ attempt' \in Attempts
         /\ caller' \in Callers
         /\ \A m \in Msg : caller'[m] = "idle" <=> caller[m] = "idle"
BY DEF TypeOK, Reject, Awaits, Callers, Attempts

\* Whatever a disconnect finds, it tells the messages it takes out.
LEMMA OnDisconnectKeeps ==
  ASSUME RepliesAccounted, NEW failed, OnDisconnect(failed)
  PROVE  /\ conn' \in Socket \cup {None} /\ promise' \in Socket \cup {None}
         /\ connected' \in BOOLEAN /\ connectionId' \in Nat
         /\ replies' \subseteq Msg /\ handshakes' \subseteq Socket
         /\ outcome' \in [Msg -> {"none", "answered", "rejected"}]
         /\ attempt' \in Attempts /\ caller' \in Callers
         /\ UNCHANGED <<writer, of, born, follows>>
         /\ Told'
<1>1. TypeOK
  BY DEF RepliesAccounted
<1>2. CASE conn = None
  <2>1. Reject(failed) /\ NothingToDrop /\ promise' = None
    BY <1>2 DEF OnDisconnect
  <2>2. QED
    BY <1>1, <2>1, RejectKeeps DEF OnDisconnect, NothingToDrop, RepliesAccounted, Told, TypeOK
<1>3. CASE conn # None
  <2>1. Reject(Failing(failed)) /\ Drop /\ promise' = None
    BY <1>3 DEF OnDisconnect
  <2>2. \A m \in Msg : caller'[m] = "idle" <=> caller[m] = "idle"
    BY <1>1, <2>1, RejectKeeps
  <2>3. attempt' \in Attempts /\ caller' \in Callers
    BY <1>1, <2>1, RejectKeeps
  <2>4. /\ conn' = None /\ connected' = FALSE /\ connectionId' = connectionId + 1
        /\ replies' = {} /\ handshakes' = {}
        /\ outcome' = [m \in Msg |-> IF m \in replies THEN "rejected" ELSE outcome[m]]
    BY <2>1 DEF Drop
  <2>5. Told'
    BY <1>1, <2>2, <2>4 DEF RepliesAccounted, Told, TypeOK
  <2>6. outcome' \in [Msg -> {"none", "answered", "rejected"}]
    BY <1>1, <2>4 DEF TypeOK
  <2>7. connectionId' \in Nat
    BY <1>1, <2>4 DEF TypeOK
  <2>8. UNCHANGED <<writer, of, born, follows>>
    BY DEF OnDisconnect
  <2>9. QED
    BY <2>1, <2>3, <2>4, <2>5, <2>6, <2>7, <2>8
<1>4. QED
  BY <1>2, <1>3

\* The values disconnect() takes.
LEMMA LeavingValues ==
  ASSUME NEW at \in {"idle", "waits", "resumes"}, NEW on \in Socket \cup {None}
  PROVE  [at |-> at, on |-> on] \in [at : {"idle", "waits", "resumes"}, on : Socket \cup {None}]
OBVIOUS

\* disconnect() returns to rest or waits for a known attempt.
LEMMA LeaveFailsKeeps ==
  ASSUME TypeOK, LeaveFails
  PROVE  leaving' \in [at : {"idle", "waits", "resumes"}, on : Socket \cup {None}]
<1>1. [at |-> "idle", on |-> None] \in [at : {"idle", "waits", "resumes"}, on : Socket \cup {None}]
  BY LeavingValues
<1>2. QED
  BY <1>1 DEF TypeOK, LeaveFails

\* The table is accounted for at the start.
LEMMA InitAccounted == Init => RepliesAccounted
<1> SUFFICES ASSUME Init PROVE RepliesAccounted
  OBVIOUS
<1>1. leaving \in [at : {"idle", "waits", "resumes"}, on : Socket \cup {None}]
  BY LeavingValues DEF Init
<1>2. follows \subseteq Msg \X (Socket \cup {None})
  BY DEF Init
<1>3. TypeOK
  BY RpcAssumption, <1>1, <1>2 DEF Init, TypeOK
<1>4. QED
  BY <1>3 DEF Init, RepliesAccounted

\* Every step keeps the table of replies accounted for.
LEMMA NextAccounted == RepliesAccounted /\ [Next]_vars => RepliesAccounted'
<1> SUFFICES ASSUME RepliesAccounted, [Next]_vars PROVE RepliesAccounted'
  OBVIOUS
<1> USE RpcAssumption
<1>0. TypeOK
  BY DEF RepliesAccounted
<1>1. ASSUME NEW m \in Msg, SendMessage(m), late' = late PROVE RepliesAccounted'
  <2>1. /\ replies' = replies \cup {m}
        /\ UNCHANGED <<writer, connected, connectionId, handshakes, outcome, follows, leaving, calls>>
        /\ born' = [born EXCEPT ![m] = connectionId]
        /\ caller[m] = "idle"
    BY <1>1 DEF SendMessage
  <2>2. /\ sock' \in [Socket -> {"unused", "connecting", "open", "closing", "closed"}]
        /\ conn' \in Socket \cup {None} /\ promise' \in Socket \cup {None}
        /\ attempt' \in Attempts
        /\ of' \in [Msg -> Socket \cup {None}]
        /\ caller' \in Callers
        /\ caller'[m] # "idle"
        /\ \A n \in Msg \ {m} : caller'[n] = caller[n]
    <3>1. CASE connected
      BY <1>0, <1>1, <3>1 DEF SendMessage, TypeOK, Callers, Attempts
    <3>2. CASE ~connected
      BY <1>0, <1>1, <3>2, ConnectKeeps DEF SendMessage
    <3>3. QED
      BY <3>1, <3>2
  <2>3. Told'
    BY <1>0, <2>1, <2>2 DEF RepliesAccounted, Told, TypeOK
  <2>4. replies' \subseteq Msg /\ born' \in [Msg -> Nat]
    BY <1>0, <2>1 DEF TypeOK
  <2>5. QED
    BY <1>0, <1>1, <2>1, <2>2, <2>3, <2>4 DEF RepliesAccounted, Told, TypeOK, Callers, Attempts
<1>2. ASSUME NEW m \in Msg, Wake(m), late' = late PROVE RepliesAccounted'
  <2>1. /\ UNCHANGED <<writer, connected, connectionId, replies, handshakes, born, outcome,
                       follows, leaving, calls>>
        /\ caller[m] = "sleeps"
    BY <1>2 DEF Wake
  <2>2. /\ sock' \in [Socket -> {"unused", "connecting", "open", "closing", "closed"}]
        /\ conn' \in Socket \cup {None} /\ promise' \in Socket \cup {None}
        /\ attempt' \in Attempts
        /\ of' \in [Msg -> Socket \cup {None}]
        /\ caller' \in Callers
        /\ caller'[m] # "idle"
        /\ \A n \in Msg \ {m} : caller'[n] = caller[n]
    BY <1>0, <1>2, ConnectKeeps DEF Wake
  <2>3. Told'
    BY <1>0, <2>1, <2>2 DEF RepliesAccounted, Told, TypeOK
  <2>4. QED
    BY <1>0, <1>2, <2>1, <2>2, <2>3 DEF RepliesAccounted, Told, TypeOK, Callers, Attempts
<1>3. ASSUME NEW m \in Msg, Follow(m), late' = late PROVE RepliesAccounted'
  BY <1>3 DEF RepliesAccounted, TypeOK, Follow
<1>4. ASSUME NEW m \in Msg, Reply(m), late' = late PROVE RepliesAccounted'
  BY <1>4 DEF RepliesAccounted, TypeOK, Reply
<1>5. ASSUME NEW s \in Socket, Opens(s), late' = late PROVE RepliesAccounted'
  BY <1>5 DEF RepliesAccounted, TypeOK, Opens
<1>6. ASSUME NEW s \in Socket, Connected(s), late' = late PROVE RepliesAccounted'
  <2>1. attempt' \in Attempts /\ caller' \in Callers
        /\ of' \in [Msg -> Socket \cup {None}]
        /\ promise' \in Socket \cup {None}
    BY <1>0, <1>6 DEF Connected, TypeOK, Attempts, Callers
  <2>2. \A m \in Msg : caller'[m] = "idle" <=> caller[m] = "idle"
    BY <1>0, <1>6 DEF Connected, TypeOK, Awaits
  <2>3. leaving' \in [at : {"idle", "waits", "resumes"}, on : Socket \cup {None}]
    BY <1>0, <1>6, LeavingValues DEF Connected, TypeOK
  <2>4. /\ UNCHANGED <<sock, conn, writer, connectionId, replies, born, outcome, follows, calls>>
        /\ handshakes' = handshakes \ {s} /\ connected' = TRUE
    BY <1>6 DEF Connected
  <2>5. QED
    BY <1>0, <1>6, <2>1, <2>2, <2>3, <2>4 DEF RepliesAccounted, TypeOK, Attempts, Callers
<1>7. ASSUME NEW s \in Socket, Refused(s), late' = late PROVE RepliesAccounted'
  <2>1. leaving' \in [at : {"idle", "waits", "resumes"}, on : Socket \cup {None}]
    BY <1>0, <1>7, LeaveFailsKeeps DEF Refused
  <2>2. UNCHANGED <<sock, writer, of, born, follows, calls>> /\ promise' = None
    BY <1>7 DEF Refused
  <2>3. CASE conn = None
    <3>1. /\ Reject({s}) /\ handshakes' = handshakes \ {s} /\ connected' = FALSE
          /\ UNCHANGED <<conn, connectionId, replies, outcome>>
      BY <1>7, <2>3 DEF Refused
    <3>2. /\ attempt' \in Attempts /\ caller' \in Callers
          /\ \A m \in Msg : caller'[m] = "idle" <=> caller[m] = "idle"
      BY <1>0, <3>1, RejectKeeps
    <3>3. QED
      BY <1>0, <1>7, <2>1, <2>2, <3>1, <3>2 DEF RepliesAccounted, TypeOK, Attempts, Callers
  <2>4. CASE conn # None
    <3>1. Drop /\ Reject(Failing({}))
      BY <1>7, <2>4 DEF Refused
    <3>2. OnDisconnect({})
      BY <2>2, <2>4, <3>1 DEF OnDisconnect
    <3>3. QED
      BY <1>0, <1>7, <2>1, <2>2, <3>2, OnDisconnectKeeps
         DEF RepliesAccounted, Told, TypeOK, Attempts, Callers
  <2>5. QED
    BY <2>3, <2>4
<1>8. ASSUME NEW s \in Socket, NEW failed, OnDisconnect(failed), LeaveFails,
             sock' = [sock EXCEPT ![s] = "closed"], UNCHANGED calls, late' = late
      PROVE  RepliesAccounted'
  <2>1. leaving' \in [at : {"idle", "waits", "resumes"}, on : Socket \cup {None}]
    BY <1>0, <1>8, LeaveFailsKeeps
  <2>2. sock' \in [Socket -> {"unused", "connecting", "open", "closing", "closed"}]
    BY <1>0, <1>8 DEF TypeOK
  <2>3. QED
    BY <1>0, <1>8, <2>1, <2>2, OnDisconnectKeeps
       DEF RepliesAccounted, Told, TypeOK, Attempts, Callers
<1>9. ASSUME NEW s \in Socket, ConnectFails(s) \/ SocketFails(s) \/ SocketCloses(s), late' = late
      PROVE  RepliesAccounted'
  BY <1>8, <1>9 DEF ConnectFails, SocketFails, SocketCloses
<1>10. ASSUME Leave, calls' \in Nat, late' = late PROVE RepliesAccounted'
  <2>1. CASE /\ promise = None /\ conn # None
             /\ leaving' = [at |-> "idle", on |-> None]
             /\ sock' = [sock EXCEPT ![conn] = Abandoned]
             /\ OnDisconnect({})
    <3>1. leaving' \in [at : {"idle", "waits", "resumes"}, on : Socket \cup {None}]
      BY <2>1
    <3>2. sock' \in [Socket -> {"unused", "connecting", "open", "closing", "closed"}]
      BY <1>0, <2>1 DEF TypeOK, Abandoned
    <3>3. QED
      BY <1>0, <1>10, <2>1, <3>1, <3>2, OnDisconnectKeeps
         DEF RepliesAccounted, Told, TypeOK, Attempts, Callers
  <2>2. CASE /\ leaving' \in {[at |-> "idle", on |-> None], [at |-> "waits", on |-> promise]}
             /\ UNCHANGED <<sock, conn, writer, promise, connected, connectionId, replies,
                            handshakes, attempt, caller, of, born, outcome, follows>>
    <3>1. leaving' \in [at : {"idle", "waits", "resumes"}, on : Socket \cup {None}]
      BY <1>0, <2>2 DEF TypeOK
    <3>2. QED
      BY <1>10, <2>2, <3>1 DEF RepliesAccounted, TypeOK
  <2>3. QED
    BY <1>10, <2>1, <2>2 DEF Leave
<1>11. CASE Turn(Disconnect)
  BY <1>0, <1>10, <1>11 DEF Turn, Disconnect, TypeOK
<1>12. CASE Resume /\ late' = late
  BY <1>0, <1>10, <1>12 DEF Resume, TypeOK
<1>13. CASE UNCHANGED vars
  BY <1>13 DEF vars, RepliesAccounted, TypeOK
<1>14. ASSUME NEW m \in Msg, Turn(OfMessage(m)) PROVE RepliesAccounted'
  BY <1>1, <1>2, <1>3, <1>4, <1>14 DEF Turn, OfMessage
<1>15. ASSUME NEW s \in Socket, Turn(OfSocket(s)) PROVE RepliesAccounted'
  BY <1>5, <1>6, <1>7, <1>9, <1>15 DEF Turn, OfSocket
<1>16. QED
  BY <1>11, <1>12, <1>13, <1>14, <1>15 DEF Next

\* For any messages and any number of sockets: a message is in the table of
\* replies from sendMessage() until it has its one outcome (RpcBaseClient).
THEOREM EveryReplyAccounted == Spec => []RepliesAccounted
BY InitAccounted, NextAccounted, PTL DEF Spec

---------------------------------------------------------------------------
\* The four variables of the connection

\* What makes ConnectionUsable inductive while no socket reports after it was
\* given up: the connection is open and the one that is written to, at most
\* one attempt is under way and it owns the socket that connects or waits for
\* its handshake, and what was sent on this connection was sent to its socket.
Steady ==
  /\ \A s \in Socket : sock[s] # "closing"
  /\ \A s \in Socket : sock[s] = "connecting" => promise = s /\ conn = None
  /\ \A s \in handshakes : conn = s /\ promise = s /\ attempt[s] = "handshake"
  /\ conn # None => sock[conn] = "open" /\ writer = conn
  /\ connected => conn # None /\ promise = None
  /\ conn # None /\ promise = None => connected
  /\ \A m \in replies : caller[m] = "sent" => connected /\ of[m] = conn
  /\ \A m \in Msg : born[m] <= connectionId
  /\ \A m \in Msg : caller[m] = "sent" /\ born[m] = connectionId => connected /\ of[m] = writer
  /\ \A f \in follows : caller[f[1]] = "sent" /\ f[2] = of[f[1]]

\* A step that leaves the connection and what was sent alone.
LEMMA ConnectSteady ==
  ASSUME TypeOK, Steady, ~late, NEW m \in Msg, Connect(m), caller[m] # "sent",
         \/ UNCHANGED <<replies, born>>
         \/ replies' = replies \cup {m} /\ born' = [born EXCEPT ![m] = connectionId],
         UNCHANGED <<writer, connected, connectionId, handshakes, follows, late>>
  PROVE  Steady'
<1> USE RpcAssumption
<1>0. /\ born' \in [Msg -> Nat]
      /\ \A n \in Msg \ {m} : born'[n] = born[n]
      /\ \A n \in Msg : born'[n] <= connectionId'
      /\ replies' \subseteq replies \cup {m}
  BY DEF TypeOK, Steady
<1>1. CASE promise # None /\ caller' = [caller EXCEPT ![m] = "waits"]
           /\ of' = [of EXCEPT ![m] = promise]
           /\ UNCHANGED <<sock, conn, promise, attempt>>
  BY <1>0, <1>1 DEF TypeOK, Steady
<1>2. CASE promise = None /\ connected /\ caller' = [caller EXCEPT ![m] = "sent"]
           /\ of' = [of EXCEPT ![m] = writer]
           /\ UNCHANGED <<sock, conn, promise, attempt>>
  BY <1>0, <1>2 DEF TypeOK, Steady
<1>3. CASE promise = None /\ ~connected /\ \E s \in Socket : Attempt(m, s)
  <2>1. PICK s \in Socket : Attempt(m, s)
    BY <1>3
  <2>2. conn = None /\ handshakes = {}
    BY <1>3 DEF Steady, TypeOK
  <2>3. /\ sock' = [sock EXCEPT ![s] = "connecting"]
        /\ conn' = None /\ promise' = s
        /\ attempt' = [attempt EXCEPT ![s] = "transport"]
        /\ caller' = [caller EXCEPT ![m] = "attempts"]
        /\ of' = [of EXCEPT ![m] = s]
    <3>1. \A t \in Socket : t # conn
      BY <2>2
    <3>2. sock' = [t \in Socket |-> IF t = s THEN "connecting" ELSE sock[t]]
      BY <2>1, <3>1 DEF Attempt
    <3>3. sock' = [sock EXCEPT ![s] = "connecting"]
      BY <3>2 DEF TypeOK
    <3>4. QED
      BY <2>1, <3>3 DEF Attempt
  <2>4. QED
    BY <1>0, <1>3, <2>2, <2>3 DEF TypeOK, Steady
<1>4. QED
  BY <1>1, <1>2, <1>3 DEF Connect

\* A failure of attempts touches nobody whose message was sent.
LEMMA RejectSpares ==
  ASSUME TypeOK, NEW failed, Reject(failed)
  PROVE  /\ attempt' \in Attempts
         /\ \A s \in Socket \ failed : attempt'[s] = attempt[s]
         /\ \A m \in Msg : caller'[m] = "sent" <=> caller[m] = "sent"
BY DEF TypeOK, Reject, Awaits, Attempts

\* A connection that is dropped leaves nothing behind that could be stale.
LEMMA DropSteady ==
  ASSUME TypeOK, Steady, Drop, promise' = None, NEW failed, Reject(failed),
         UNCHANGED <<writer, of, born, follows>>, conn # None,
         sock' = sock \/ \E s \in Socket : sock' = [sock EXCEPT ![s] = "closed"]
  PROVE  Steady'
<1> USE RpcAssumption
<1>1. \A m \in Msg : caller'[m] = "sent" <=> caller[m] = "sent"
  BY RejectSpares
<1>2. /\ conn' = None /\ connected' = FALSE /\ connectionId' = connectionId + 1
      /\ replies' = {} /\ handshakes' = {}
  BY DEF Drop
<1>3. /\ \A s \in Socket : sock[s] # "connecting" /\ sock'[s] \in {sock[s], "closed"}
  BY DEF Steady, TypeOK
<1>4. /\ \A s \in Socket : sock'[s] # "closing" /\ sock'[s] # "connecting"
  BY <1>3 DEF Steady
<1>5. \A m \in Msg : born'[m] <= connectionId' /\ born'[m] # connectionId'
  BY <1>2 DEF Steady, TypeOK
<1>6. \A f \in follows' : caller'[f[1]] = "sent" /\ f[2] = of'[f[1]]
  BY <1>1 DEF Steady, TypeOK
<1>7. QED
  BY <1>2, <1>4, <1>5, <1>6 DEF Steady

\* As long as no socket reports after it was given up, for any messages and
\* any number of sockets: the client that says it is connected has an open
\* connection and writes to it, no unanswered message waits on a closed
\* socket, and what a subject sends later follows its message
\* (RpcClientTransporter.onDisconnect and doConnect).
THEOREM ConnectionStaysUsable == Spec => []ConnectionUsable
<1> DEFINE Inv == RepliesAccounted /\ (late \/ Steady)
<1>1. Init => Inv
  <2>1. Init => RepliesAccounted
    BY InitAccounted
  <2>2. Init => Steady
    BY RpcAssumption DEF Init, Steady
  <2>3. QED
    BY <2>1, <2>2
<1>2. Inv /\ [Next]_vars => Inv'
  <2> SUFFICES ASSUME RepliesAccounted, late \/ Steady, [Next]_vars
               PROVE  RepliesAccounted' /\ (late' \/ Steady')
    OBVIOUS
  <2> USE RpcAssumption
  <2>0. TypeOK /\ RepliesAccounted' /\ late' = late
    BY NextAccounted DEF RepliesAccounted, Next, Turn, vars
  <2> SUFFICES ASSUME ~late, Steady PROVE Steady'
    BY <2>0
  <2>1. ASSUME NEW m \in Msg, SendMessage(m) PROVE Steady'
    <3>1. caller[m] = "idle" /\ UNCHANGED <<writer, connected, connectionId, handshakes, follows, late>>
          /\ replies' = replies \cup {m} /\ born' = [born EXCEPT ![m] = connectionId]
      BY <2>0, <2>1 DEF SendMessage
    <3>2. CASE connected
      <4>1. Connect(m)
        BY <2>1, <3>2 DEF SendMessage, Connect, Steady
      <4>2. QED
        BY <2>0, <3>1, <4>1, ConnectSteady
    <3>3. CASE ~connected
      <4>1. Connect(m)
        BY <2>1, <3>3 DEF SendMessage
      <4>2. QED
        BY <2>0, <3>1, <4>1, ConnectSteady
    <3>4. QED
      BY <3>2, <3>3
  <2>2. ASSUME NEW m \in Msg, Wake(m) PROVE Steady'
    <3>1. /\ caller[m] # "sent" /\ Connect(m)
          /\ UNCHANGED <<writer, connected, connectionId, handshakes, follows, late, replies, born>>
      BY <2>0, <2>2 DEF Wake
    <3>2. QED
      BY <2>0, <3>1, ConnectSteady
  <2>3. ASSUME NEW m \in Msg, Follow(m) PROVE Steady'
    BY <2>0, <2>3 DEF Steady, TypeOK, Follow, SameConnection
  <2>4. ASSUME NEW m \in Msg, Reply(m) PROVE Steady'
    BY <2>0, <2>4 DEF Steady, TypeOK, Reply
  <2>5. ASSUME NEW s \in Socket, Opens(s) PROVE Steady'
    <3>1. promise = s /\ conn = None /\ ~connected /\ handshakes = {}
      BY <2>5 DEF Opens, Steady, TypeOK
    <3>2. QED
      BY <2>0, <2>5, <3>1 DEF Opens, Steady, TypeOK
  <2>6. ASSUME NEW s \in Socket, Connected(s) PROVE Steady'
    <3>1. conn = s /\ promise = s /\ attempt[s] = "handshake" /\ writer = s /\ sock[s] = "open"
          /\ handshakes = {s}
      BY <2>6 DEF Connected, Steady, TypeOK
    <3>2. /\ handshakes' = {} /\ connected' = TRUE /\ promise' = None
          /\ caller' = [m \in Msg |-> IF ~Awaits(m, s) THEN caller[m]
                                      ELSE IF caller[m] = "attempts" THEN "sent" ELSE "sleeps"]
          /\ of' = [m \in Msg |-> IF Awaits(m, s) THEN writer ELSE of[m]]
          /\ UNCHANGED <<sock, conn, writer, connectionId, replies, born, follows>>
      BY <2>6, <3>1 DEF Connected
    <3>3. \A m \in Msg : \/ caller'[m] = caller[m] /\ of'[m] = of[m]
                         \/ caller[m] # "sent" /\ of'[m] = s
      BY <3>1, <3>2 DEF Awaits
    <3>4. \A m \in Msg : caller[m] = "sent" => caller'[m] = "sent" /\ of'[m] = of[m]
      BY <3>2 DEF Awaits
    <3>5. QED
      BY <2>0, <3>1, <3>2, <3>3, <3>4 DEF Steady, TypeOK
  <2>7. ASSUME NEW s \in Socket, Refused(s) PROVE Steady'
    <3>1. conn # None
      BY <2>7 DEF Refused, Steady, TypeOK
    <3>2. /\ Drop /\ Reject(Failing({})) /\ promise' = None
          /\ UNCHANGED <<sock, writer, of, born, follows>>
      BY <2>7, <3>1 DEF Refused
    <3>3. QED
      BY <2>0, <3>1, <3>2, DropSteady
  <2>8. ASSUME NEW s \in Socket, ConnectFails(s) PROVE Steady'
    <3>1. promise = s /\ conn = None /\ ~connected /\ handshakes = {}
      BY <2>8 DEF ConnectFails, Steady, TypeOK
    <3>2. /\ sock' = [sock EXCEPT ![s] = "closed"] /\ promise' = None
          /\ UNCHANGED <<conn, connected, connectionId, replies, handshakes, writer, of, born, follows>>
          /\ Reject({s})
      BY <2>8, <3>1 DEF ConnectFails, OnDisconnect, NothingToDrop
    <3>3. \A m \in Msg : caller'[m] = "sent" <=> caller[m] = "sent"
      BY <2>0, <3>2, RejectSpares
    <3>4. QED
      BY <2>0, <3>1, <3>2, <3>3 DEF Steady, TypeOK
  <2>9. ASSUME NEW s \in Socket, NEW failed, s = conn, OnDisconnect(failed),
               sock' = [sock EXCEPT ![s] = "closed"]
        PROVE  Steady'
    <3>1. conn # None
      BY <2>9
    <3>2. /\ Drop /\ Reject(Failing(failed)) /\ promise' = None
          /\ UNCHANGED <<writer, of, born, follows>>
      BY <2>9, <3>1 DEF OnDisconnect
    <3>3. QED
      BY <2>0, <2>9, <3>1, <3>2, DropSteady
  <2>10. ASSUME NEW s \in Socket, SocketFails(s) \/ SocketCloses(s) PROVE Steady'
    BY <2>9, <2>10 DEF SocketFails, SocketCloses, Reports
  <2>11. ASSUME Leave PROVE Steady'
    <3>1. CASE promise = None /\ conn # None /\ sock' = [sock EXCEPT ![conn] = Abandoned]
               /\ OnDisconnect({})
      <4>1. conn \in Socket /\ sock' = [sock EXCEPT ![conn] = "closed"]
        BY <2>0, <3>1 DEF Abandoned, TypeOK
      <4>2. QED
        BY <2>9, <3>1, <4>1
    <3>2. CASE UNCHANGED <<sock, conn, writer, promise, connected, connectionId, replies,
                           handshakes, attempt, caller, of, born, outcome, follows>>
      BY <3>2 DEF Steady
    <3>3. QED
      BY <2>11, <3>1, <3>2 DEF Leave
  <2>12. CASE UNCHANGED vars
    BY <2>12 DEF vars, Steady
  <2>13. ASSUME NEW m \in Msg, OfMessage(m) PROVE Steady'
    BY <2>1, <2>2, <2>3, <2>4, <2>13 DEF OfMessage
  <2>14. ASSUME NEW s \in Socket, OfSocket(s) PROVE Steady'
    BY <2>5, <2>6, <2>7, <2>8, <2>10, <2>14 DEF OfSocket
  <2>15. QED
    BY <2>11, <2>12, <2>13, <2>14 DEF Next, Turn, Disconnect, Resume
<1>3. Inv => ConnectionUsable
  <2> SUFFICES ASSUME TypeOK, Steady PROVE ConnectionUsable
    BY DEF RepliesAccounted, ConnectionUsable
  <2>1. \A m \in replies : caller[m] = "sent" => sock[of[m]] # "closed"
    BY DEF Steady
  <2>2. QED
    BY <2>1 DEF Steady, ConnectionUsable
<1>4. QED
  BY <1>1, <1>2, <1>3, PTL DEF Spec

=============================================================================
