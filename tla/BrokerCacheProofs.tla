-------------------------- MODULE BrokerCacheProofs --------------------------
(***************************************************************************)
(* Proofs about BrokerCache: that no get() returns a value older than an   *)
(* invalidation that has taken effect, that no valid entry outlives its    *)
(* ttl, and that an entry has one builder, which all that wait for it are  *)
(* served by.  The invariant has two halves.  Post says that a message     *)
(* that names a get() is the only one, and finds it where it waits for it. *)
(* Store says that what an entry holds, and what its builder has read, is  *)
(* no older than what any process that can reach the entry may return.     *)
(***************************************************************************)
EXTENDS BrokerCache, TLAPS

-----------------------------------------------------------------------------
(* What the messages are, and which get() one is for.                      *)

Stored == [value : Value, ttl : {Ttl}]

Message ==
  [type : {"Enable", "Enabled", "GetCache", "Ack"}, of : Get]
    \cup [type : {"Value"}, of : Get, stored : Stored \cup {None}]
    \cup [type : {"SetCache"}, of : Get, value : Value]
    \cup [type : {"InvalidateCache", "Invalidation"}]

Untagged == {"InvalidateCache", "Invalidation"}

\* Message m names the call g.
Names(m, g) == m.type \notin Untagged /\ m.of = g

\* Where a get() is while a message for it is under way.
Awaits(type) ==
  CASE type \in {"Enable", "Enabled"} -> "enabling"
    [] type \in {"GetCache", "Value"} -> "fetching"
    [] type \in {"SetCache", "Ack"} -> "storing"

\* No message of the channel names g.
Silent(s, g) == \A i \in 1 .. Len(s) : ~Names(s[i], g)

\* The messages of a channel of p are for calls of p that wait for them ...
Expected(s, p, where) ==
  \A i \in 1 .. Len(s) : \A g \in Get :
    Names(s[i], g) => ProcessOf[g] = p /\ where[g] = Awaits(s[i].type)
\* ... one at most for each, on both channels together.
Single(s) ==
  \A i, j \in 1 .. Len(s) : \A g \in Get : Names(s[i], g) /\ Names(s[j], g) => i = j
Apart(s, t) == \A g \in Get : Silent(s, g) \/ Silent(t, g)

Channels(s, t, p, where) ==
  /\ Expected(s, p, where) /\ Expected(t, p, where)
  /\ Single(s) /\ Single(t) /\ Apart(s, t)

Post ==
  /\ toBroker \in [Process -> Seq(Message)]
  /\ toClient \in [Process -> Seq(Message)]
  /\ \A p \in Process : Channels(toBroker[p], toClient[p], p, pc)

\* The two channels of a process have the same laws.
LEMMA ChannelsCommute ==
  ASSUME NEW s, NEW t, NEW p, NEW where, Channels(s, t, p, where)
  PROVE  Channels(t, s, p, where)
BY DEF Channels, Apart

\* Taking the first message leaves none that names the same call.
LEMMA TakeFirst ==
  ASSUME NEW s \in Seq(Message), s # <<>>, NEW t, NEW p, NEW where,
         Channels(s, t, p, where)
  PROVE  /\ Tail(s) \in Seq(Message) /\ Head(s) \in Message
         /\ Channels(Tail(s), t, p, where)
         /\ \A g \in Get : Names(Head(s), g) =>
              /\ ProcessOf[g] = p /\ where[g] = Awaits(Head(s).type)
              /\ Silent(Tail(s), g) /\ Silent(t, g)
<1>1. /\ Tail(s) \in Seq(Message) /\ Head(s) \in Message
      /\ Len(s) \in Nat /\ Len(s) > 0
      /\ Head(s) = s[1] /\ Len(Tail(s)) = Len(s) - 1
      /\ \A i \in 1 .. Len(Tail(s)) : Tail(s)[i] = s[i + 1]
  OBVIOUS
<1>2. Expected(Tail(s), p, where)
  BY <1>1 DEF Channels, Expected
<1>3. Single(Tail(s))
  <2>1. SUFFICES ASSUME NEW i \in 1 .. Len(Tail(s)), NEW j \in 1 .. Len(Tail(s)), NEW g \in Get,
                        Names(Tail(s)[i], g), Names(Tail(s)[j], g)
                 PROVE  i = j
    BY DEF Single
  <2>2. i + 1 \in 1 .. Len(s) /\ j + 1 \in 1 .. Len(s)
    BY <1>1
  <2>3. Names(s[i + 1], g) /\ Names(s[j + 1], g)
    BY <1>1, <2>1
  <2>4. i + 1 = j + 1
    BY <2>2, <2>3 DEF Channels, Single
  <2>5. QED
    BY <1>1, <2>4
<1>4. \A g \in Get : Silent(s, g) => Silent(Tail(s), g)
  BY <1>1 DEF Silent
<1>5. Apart(Tail(s), t)
  BY <1>4 DEF Channels, Apart
<1>6. ASSUME NEW g \in Get, Names(Head(s), g)
      PROVE  /\ ProcessOf[g] = p /\ where[g] = Awaits(Head(s).type)
             /\ Silent(Tail(s), g) /\ Silent(t, g)
  <2>1. ProcessOf[g] = p /\ where[g] = Awaits(Head(s).type)
    BY <1>1, <1>6 DEF Channels, Expected
  <2>2. ~Silent(s, g)
    BY <1>1, <1>6 DEF Silent
  <2>3. Silent(t, g)
    BY <2>2 DEF Channels, Apart
  <2>4. ASSUME NEW i \in 1 .. Len(Tail(s)), Names(Tail(s)[i], g) PROVE FALSE
    <3>1. i + 1 \in 1 .. Len(s) /\ 1 \in 1 .. Len(s) /\ i + 1 # 1
      BY <1>1
    <3>2. Names(s[i + 1], g) /\ Names(s[1], g)
      BY <1>1, <1>6, <2>4
    <3>3. QED
      BY <3>1, <3>2 DEF Channels, Single
  <2>5. QED
    BY <2>1, <2>3, <2>4 DEF Silent
<1>7. QED
  BY <1>1, <1>2, <1>3, <1>5, <1>6 DEF Channels

\* A message may be added that names nobody, or a call no other message names.
LEMMA AddLast ==
  ASSUME NEW s \in Seq(Message), NEW t, NEW p, NEW where, NEW m \in Message,
         Channels(s, t, p, where),
         \A g \in Get : Names(m, g) =>
           /\ ProcessOf[g] = p /\ where[g] = Awaits(m.type)
           /\ Silent(s, g) /\ Silent(t, g)
  PROVE  Append(s, m) \in Seq(Message) /\ Channels(Append(s, m), t, p, where)
<1> DEFINE r == Append(s, m)
<1>1. /\ r \in Seq(Message) /\ Len(s) \in Nat /\ Len(r) = Len(s) + 1
      /\ r[Len(s) + 1] = m
      /\ \A i \in 1 .. Len(s) : r[i] = s[i]
  OBVIOUS
<1>2. \A i \in 1 .. Len(r) : i \in 1 .. Len(s) \/ i = Len(s) + 1
  BY <1>1
<1> HIDE DEF r
<1>3. Expected(r, p, where)
  BY <1>1, <1>2 DEF Channels, Expected
<1>4. Single(r)
  <2>1. SUFFICES ASSUME NEW i \in 1 .. Len(r), NEW j \in 1 .. Len(r), NEW g \in Get,
                        Names(r[i], g), Names(r[j], g)
                 PROVE  i = j
    BY DEF Single
  <2>2. CASE i \in 1 .. Len(s) /\ j \in 1 .. Len(s)
    BY <1>1, <2>1, <2>2 DEF Channels, Single
  <2>3. CASE i \in 1 .. Len(s) /\ j = Len(s) + 1
    BY <1>1, <2>1, <2>3 DEF Silent
  <2>4. CASE i = Len(s) + 1 /\ j \in 1 .. Len(s)
    BY <1>1, <2>1, <2>4 DEF Silent
  <2>5. QED
    BY <1>2, <2>2, <2>3, <2>4
<1>5. Apart(r, t)
  <2>1. SUFFICES ASSUME NEW g \in Get, ~Silent(t, g) PROVE Silent(r, g)
    BY DEF Apart
  <2>2. Silent(s, g) /\ ~Names(m, g)
    BY <2>1 DEF Channels, Apart
  <2>3. QED
    BY <1>1, <1>2, <2>2 DEF Silent
<1>6. QED
  BY <1>1, <1>3, <1>4, <1>5 DEF Channels, r

\* A call no message names may be anywhere.
LEMMA SilentMoves ==
  ASSUME NEW s, NEW t, NEW p, NEW where, NEW there, Channels(s, t, p, where),
         \A g \in Get : there[g] = where[g] \/ (Silent(s, g) /\ Silent(t, g))
  PROVE  Channels(s, t, p, there)
BY DEF Channels, Expected, Silent

\* Who waits for no message, or belongs to another process, is named by none.
LEMMA NotNamed ==
  ASSUME NEW s \in Seq(Message), NEW t, NEW p, NEW where, Channels(s, t, p, where), NEW g \in Get,
         \/ where[g] \notin {"enabling", "fetching", "storing"}
         \/ ProcessOf[g] # p
  PROVE  Silent(s, g)
<1>1. SUFFICES ASSUME NEW i \in 1 .. Len(s), Names(s[i], g) PROVE FALSE
  BY DEF Silent
<1>2. ProcessOf[g] = p /\ where[g] = Awaits(s[i].type)
  BY <1>1 DEF Channels, Expected
<1>3. s[i] \in Message
  OBVIOUS
<1>4. s[i].type \in {"Enable", "Enabled", "GetCache", "Ack", "Value", "SetCache"}
  BY <1>1, <1>3 DEF Message, Names, Untagged
<1>5. Awaits(s[i].type) \in {"enabling", "fetching", "storing"}
  BY <1>4 DEF Awaits
<1>6. QED
  BY <1>2, <1>5

Waits == {"enabling", "fetching", "storing"}

\* A step at one process: what is left to show are the two channels of that process.
LEMMA PostOfOne ==
  ASSUME Post, NEW p \in Process,
         NEW s \in Seq(Message), NEW t \in Seq(Message),
         toBroker' = [toBroker EXCEPT ![p] = s],
         toClient' = [toClient EXCEPT ![p] = t],
         \A g \in Get : pc'[g] = pc[g] \/ ProcessOf[g] = p \/ pc[g] \notin Waits,
         Channels(s, t, p, pc')
  PROVE  Post'
<1>1. toBroker' \in [Process -> Seq(Message)] /\ toClient' \in [Process -> Seq(Message)]
  BY DEF Post
<1>2. ASSUME NEW q \in Process PROVE Channels(toBroker'[q], toClient'[q], q, pc')
  <2>1. CASE q = p
    <3>1. toBroker'[q] = s /\ toClient'[q] = t
      BY <2>1 DEF Post
    <3>2. QED
      BY <2>1, <3>1
  <2>2. CASE q # p
    <3>1. /\ toBroker'[q] = toBroker[q] /\ toClient'[q] = toClient[q]
          /\ toBroker[q] \in Seq(Message) /\ toClient[q] \in Seq(Message)
          /\ Channels(toBroker[q], toClient[q], q, pc)
          /\ Channels(toClient[q], toBroker[q], q, pc)
      BY <2>2, ChannelsCommute DEF Post
    <3>2. ASSUME NEW g \in Get, pc'[g] # pc[g]
          PROVE  Silent(toBroker[q], g) /\ Silent(toClient[q], g)
      <4>1. pc[g] \notin {"enabling", "fetching", "storing"} \/ ProcessOf[g] # q
        BY <2>2, <3>2 DEF Waits
      <4>2. QED
        BY <3>1, <4>1, NotNamed
    <3>3. Channels(toBroker[q], toClient[q], q, pc')
      BY <3>1, <3>2, SilentMoves
    <3>4. QED
      BY <3>1, <3>3
  <2>3. QED
    BY <2>1, <2>2
<1>3. QED
  BY <1>1, <1>2 DEF Post

\* The channels of a process, and what a handler does with its first message.
LEMMA PostAt ==
  ASSUME Post, NEW p \in Process
  PROVE  /\ toBroker[p] \in Seq(Message) /\ toClient[p] \in Seq(Message)
         /\ Channels(toBroker[p], toClient[p], p, pc)
         /\ Channels(toClient[p], toBroker[p], p, pc)
BY ChannelsCommute DEF Post

\* The types of the messages with what they carry.
LEMMA MessageTypes ==
  /\ \A g \in Get : \A type \in {"Enable", "Enabled", "GetCache", "Ack"} :
       [type |-> type, of |-> g] \in Message
  /\ \A g \in Get : \A v \in Value : [type |-> "SetCache", of |-> g, value |-> v] \in Message
  /\ \A g \in Get : \A v \in Stored \cup {None} :
       [type |-> "Value", of |-> g, stored |-> v] \in Message
  /\ \A type \in Untagged : [type |-> type] \in Message
BY DEF Message, Untagged

LEMMA MessageFields ==
  ASSUME NEW m \in Message
  PROVE  /\ m.type \in Untagged \/ (m.of \in Get /\ Names(m, m.of))
         /\ m.type = "Value" => m.stored \in Stored \cup {None}
         /\ m.type = "SetCache" => m.value \in Value
<1>1. CASE m \in [type : {"Enable", "Enabled", "GetCache", "Ack"}, of : Get]
  BY <1>1 DEF Names, Untagged
<1>2. CASE m \in [type : {"Value"}, of : Get, stored : Stored \cup {None}]
  BY <1>2 DEF Names, Untagged
<1>3. CASE m \in [type : {"SetCache"}, of : Get, value : Value]
  BY <1>3 DEF Names, Untagged
<1>4. CASE m \in [type : {"InvalidateCache", "Invalidation"}]
  BY <1>4 DEF Names, Untagged
<1>5. QED
  BY <1>1, <1>2, <1>3, <1>4 DEF Message

\* The broker answers the call that the message names.
LEMMA Answered ==
  ASSUME Post, NEW p \in Process, NEW m \in Message, toBroker[p] # <<>>,
         toBroker' = [toBroker EXCEPT ![p] = Tail(@)],
         m.type \notin Untagged, Head(toBroker[p]).type \notin Untagged,
         m.of = Head(toBroker[p]).of, Awaits(m.type) = Awaits(Head(toBroker[p]).type),
         Reply(p, m), UNCHANGED pc
  PROVE  Post'
<1> DEFINE s == toBroker[p]
           t == toClient[p]
<1>1. /\ s \in Seq(Message) /\ t \in Seq(Message)
      /\ Channels(s, t, p, pc)
  BY PostAt
<1>2. s # <<>>
  OBVIOUS
<1> HIDE DEF s, t
<1>3. /\ Tail(s) \in Seq(Message) /\ Head(s) \in Message
      /\ Channels(Tail(s), t, p, pc)
      /\ \A g \in Get : Names(Head(s), g) =>
              /\ ProcessOf[g] = p /\ pc[g] = Awaits(Head(s).type)
              /\ Silent(Tail(s), g) /\ Silent(t, g)
  BY <1>1, <1>2, TakeFirst
<1>4. Channels(t, Tail(s), p, pc)
  BY <1>3, ChannelsCommute
<1>5. \A g \in Get : Names(m, g) =>
           /\ ProcessOf[g] = p /\ pc[g] = Awaits(m.type)
           /\ Silent(t, g) /\ Silent(Tail(s), g)
  BY <1>3 DEF Names, s
<1>6. Append(t, m) \in Seq(Message) /\ Channels(Append(t, m), Tail(s), p, pc)
  BY <1>1, <1>4, <1>5, AddLast
<1>7. Channels(Tail(s), Append(t, m), p, pc)
  BY <1>6, ChannelsCommute
<1>8. /\ toBroker' = [toBroker EXCEPT ![p] = Tail(s)]
      /\ toClient' = [toClient EXCEPT ![p] = Append(t, m)]
      /\ pc' = pc
  BY DEF Reply, s, t
<1>9. QED
  BY <1>3, <1>6, <1>7, <1>8, PostOfOne

\* A process takes a message for g, and g goes on without another one.
LEMMA Taken ==
  ASSUME Post, NEW p \in Process, NEW type, Arrives(p, type), NEW g \in Get,
         Names(Head(toClient[p]), g),
         \A h \in Get \ {g} : pc'[h] = pc[h],
         UNCHANGED toBroker
  PROVE  Post' /\ ProcessOf[g] = p /\ pc[g] = Awaits(type)
<1> DEFINE s == toClient[p]
           t == toBroker[p]
<1>1. s \in Seq(Message) /\ t \in Seq(Message) /\ Channels(s, t, p, pc)
  BY PostAt
<1>2. s # <<>> /\ Names(Head(s), g) /\ Head(s).type = type
  BY DEF Arrives
<1>3. /\ toClient' = [toClient EXCEPT ![p] = Tail(s)]
      /\ toBroker' = [toBroker EXCEPT ![p] = t]
  BY DEF Arrives, Post
<1> HIDE DEF s, t
<1>4. /\ Tail(s) \in Seq(Message)
      /\ Channels(Tail(s), t, p, pc)
      /\ ProcessOf[g] = p /\ pc[g] = Awaits(Head(s).type)
      /\ Silent(Tail(s), g) /\ Silent(t, g)
  BY <1>1, <1>2, TakeFirst
<1>5. Channels(Tail(s), t, p, pc')
  BY <1>4, SilentMoves
<1>6. Channels(t, Tail(s), p, pc')
  BY <1>5, ChannelsCommute
<1>7. \A h \in Get : pc'[h] = pc[h] \/ ProcessOf[h] = p \/ pc[h] \notin Waits
  BY <1>4
<1>8. QED
  BY <1>1, <1>2, <1>3, <1>4, <1>6, <1>7, PostOfOne

\* A process sends a message that names nobody, or g, which waited for none so far.
LEMMA Sent ==
  ASSUME Post, NEW p \in Process, NEW m \in Message, Send(p, m), UNCHANGED toClient,
         \A g \in Get : Names(m, g) =>
           ProcessOf[g] = p /\ pc[g] \notin Waits /\ pc'[g] = Awaits(m.type),
         \A g \in Get : pc'[g] = pc[g] \/ pc[g] \notin Waits
  PROVE  Post'
<1> DEFINE s == toBroker[p]
           t == toClient[p]
<1>1. /\ s \in Seq(Message) /\ t \in Seq(Message) /\ Channels(s, t, p, pc)
      /\ Channels(t, s, p, pc)
  BY PostAt
<1>2. /\ toBroker' = [toBroker EXCEPT ![p] = Append(s, m)]
      /\ toClient' = [toClient EXCEPT ![p] = t]
  BY DEF Send, Post
<1> HIDE DEF s, t
<1>3. \A g \in Get : pc[g] \notin Waits => Silent(s, g) /\ Silent(t, g)
  BY <1>1, NotNamed DEF Waits
<1>4. Channels(s, t, p, pc')
  BY <1>1, <1>3, SilentMoves
<1>5. Append(s, m) \in Seq(Message) /\ Channels(Append(s, m), t, p, pc')
  BY <1>1, <1>3, <1>4, AddLast
<1>6. QED
  BY <1>1, <1>2, <1>5, PostOfOne

-----------------------------------------------------------------------------
(* What the entries hold, and what is being built for them.                *)

Timer ==
  [type : {"memory"}, process : Process, due : Nat]
    \cup [type : {"stale"}, process : Process, due : Nat, of : Get, version : 0 .. MaxVersion]

Types ==
  /\ TypeOK
  /\ reading \in [Get -> 0 .. MaxVersion]
  /\ need \in [Get -> 0 .. MaxVersion]
  /\ fresh \in [Process -> 0 .. MaxVersion]
  /\ l2 \in Stored \cup {None}
  /\ timers \subseteq Timer

\* A get() that has not made its entry yet, and one that uses the entry on[g].
Early == {"new", "enabling", "fetching"}
Using == {"waiting", "building", "storing"}

Made(e) == entry[e] # None

\* The entries that stores, calls and timers name are there.
Reach ==
  /\ \A p \in Process : l1[p] # None => Made(l1[p]) /\ pc[l1[p]] \notin Early
  /\ \A g \in Get : pc[g] \in Using => on[g] \in Get /\ Made(on[g]) /\ pc[on[g]] \notin Early
  /\ \A t \in timers : t.type = "stale" => pc[t.of] \notin Early

\* entry.building tells whether the entry has a builder.
Flight ==
  /\ \A g \in Get : pc[g] = "building" => entry[on[g]].building = "running"
  /\ \A e \in Get : Made(e) /\ entry[e].building = "running" =>
       \E g \in Get : pc[g] = "building" /\ on[g] = e
  /\ SingleFlight
  /\ WaitersAreServed

\* An entry that was never built has expired if it has a value, and no valid one is
\* older than ttl.
Sound(r) ==
  /\ r.built = 0 => r.value = None \/ r.ttl <= now
  /\ r.built > 0 => r.value \in Value
  /\ r.value = None \/ r.ttl <= now \/ r.ttl <= r.value.at + Ttl

Values == \A e \in Get : Made(e) => Sound(entry[e])

\* No version is due that the data does not have.
Bounds ==
  /\ \A p \in Process : fresh[p] <= data
  /\ \A g \in Get : need[g] <= data
  /\ \A t \in timers : t.type = "stale" => t.version <= data

\* What is being built for entry e, and what it holds, is no older than version v.
BuilderFrom(e, v) == \A h \in Get : pc[h] = "building" /\ on[h] = e => reading[h] >= v
From(e, v) == (entry[e].built > 0 => entry[e].value.version >= v) /\ BuilderFrom(e, v)

\* Whoever can reach an entry may have what it will give.
Freshness ==
  /\ \A p \in Process : l1[p] # None => From(l1[p], fresh[p])
  /\ \A t \in timers :
       t.type = "stale" /\ l1[t.process] \notin {None, t.of} => From(l1[t.process], t.version)
  /\ \A g \in Get : pc[g] \in {"building", "waiting"} => BuilderFrom(on[g], need[g])
  /\ \A g \in Get : pc[g] = "storing" => entry[on[g]].built > 0 /\ From(on[g], need[g])
  /\ FreshAfterInvalidate

Store == Types /\ Reach /\ Flight /\ Values /\ Bounds /\ Freshness

IInv == Store /\ Post

\* What else the assumption on the constants says.
LEMMA ConstantTypes ==
  /\ Ttl \in Nat /\ InMemoryTtl \in Nat /\ MaxNow \in Nat /\ MaxVersion \in Nat
  /\ MaxInvalidate \in Nat /\ MaxStales \subseteq Nat /\ Start \in Nat /\ Start <= MaxNow
  /\ Time \subseteq Nat /\ Ttl \in Time /\ None \notin Get /\ None \notin Entry
BY BrokerCacheAssumption DEF Start, Time

\* What the types say of the things the proofs use.
LEMMA TypeFacts ==
  ASSUME Types
  PROVE  /\ now \in Nat /\ now > Ttl /\ now \in Time /\ now + Ttl \in Time
         /\ data \in 0 .. MaxVersion /\ maxStale \in Nat
         /\ l1 \in [Process -> Get \cup {None}]
         /\ on \in [Get -> Get \cup {None}]
         /\ \A e \in Get : Made(e) => entry[e] \in Entry /\ entry[e].ttl \in Nat /\ entry[e].built \in Nat
         /\ \A v \in Value : v.version \in 0 .. MaxVersion /\ v.at \in Nat
BY ConstantTypes DEF Types, TypeOK, Start, Time, Entry, Made, Value

LEMMA InitStore == Init => IInv
<1> SUFFICES ASSUME Init PROVE IInv
  OBVIOUS
<1>1. Types
  BY ConstantTypes DEF Init, Types, TypeOK
<1>2. Reach /\ Flight /\ Bounds
  BY ConstantTypes DEF Init, Reach, Flight, Bounds, Using, SingleFlight, WaitersAreServed, Made
<1>3. Values
  BY DEF Init, Values, Made
<1>4. Freshness
  BY DEF Init, Freshness, FreshAfterInvalidate
<1>5. Post
  BY DEF Init, Post, Channels, Expected, Single, Apart, Silent
<1>6. QED
  BY <1>1, <1>2, <1>3, <1>4, <1>5 DEF IInv, Store

-----------------------------------------------------------------------------
(* What the steps leave of the entries.                                    *)

\* A step that no entry and no builder sees: a call g that has no entry yet goes on,
\* returns, throws, or waits for a build, or one that has stored its value returns.
LEMMA MovesOn ==
  ASSUME Store, Types', NEW g \in Get,
         NEW where \in {"enabling", "fetching", "waiting", "done", "threw"},
         pc[g] \in Early \/ (pc[g] = "storing" /\ where = "done"),
         pc' = [pc EXCEPT ![g] = where],
         \A h \in Get \ {g} : need'[h] = need[h] /\ on'[h] = on[h] /\ result'[h] = result[h],
         need'[g] <= data,
         where = "waiting" =>
           /\ on'[g] \in Get /\ Made(on'[g]) /\ pc[on'[g]] \notin Early
           /\ entry[on'[g]].building = "running" /\ BuilderFrom(on'[g], need'[g]),
         where = "done" /\ result'[g] # None => result'[g].version >= need'[g],
         UNCHANGED <<worldVars, storeVars, reading, fresh>>
  PROVE  Store'
<1> USE DEF worldVars, storeVars
<1>1. /\ \A h \in Get : pc[h] \notin Early => pc'[h] \notin Early
      /\ pc[g] \notin {"building", "waiting"}
      /\ \A h \in Get \ {g} : pc'[h] = pc[h]
      /\ pc'[g] = where
  BY DEF Store, Types, TypeOK, Early
<1>2. \A h \in Get : pc'[h] = "building" => pc[h] = "building" /\ h # g
  BY <1>1
<1>3. \A h \in Get : pc[h] = "building" => pc'[h] = "building" /\ on'[h] = on[h]
  BY <1>1
<1>4. /\ l1 \in [Process -> Get \cup {None}]
      /\ \A t \in timers : t.type = "stale" => t.of \in Get /\ t.process \in Process
  BY TypeFacts DEF Store, Types, Timer
<1>5. Reach'
  <2>1. \A e \in Get : pc[e] \notin Early => pc'[e] \notin Early
    BY <1>1
  <2>2. \A h \in Get : pc'[h] \in Using => on'[h] \in Get /\ Made(on'[h]) /\ pc[on'[h]] \notin Early
    BY <1>1 DEF Store, Reach, Using, Made
  <2>3. QED
    BY <1>4, <2>1, <2>2 DEF Store, Reach, Made
<1>6. Flight'
  <2>1. \A h \in Get : pc'[h] = "building" => entry[on'[h]].building = "running"
    BY <1>1, <1>2 DEF Store, Flight
  <2>2. \A e \in Get : Made(e) /\ entry[e].building = "running" =>
          \E h \in Get : pc'[h] = "building" /\ on'[h] = e
    BY <1>3 DEF Store, Flight
  <2>3. SingleFlight'
    BY <1>1, <1>2 DEF Store, Flight, SingleFlight
  <2>4. WaitersAreServed'
    <3>1. SUFFICES ASSUME NEW w \in Get, pc'[w] = "waiting"
                   PROVE  \E h \in Get : pc'[h] = "building" /\ on'[h] = on'[w]
      BY DEF WaitersAreServed
    <3>2. CASE w = g
      BY <1>1, <2>2, <3>1, <3>2
    <3>3. CASE w # g
      BY <1>1, <1>3, <3>1, <3>3 DEF Store, Flight, WaitersAreServed
    <3>4. QED
      BY <3>2, <3>3
  <2>5. QED
    BY <2>1, <2>2, <2>3, <2>4 DEF Flight, Made
<1>7. Values'
  BY DEF Store, Values, Sound, Made
<1>8. Bounds'
  BY DEF Store, Bounds
<1>9. Freshness'
  <2>1. \A e \in Get : \A v : BuilderFrom(e, v) => BuilderFrom(e, v)'
    BY <1>1, <1>2 DEF BuilderFrom
  <2>2. \A e \in Get : \A v : From(e, v) => From(e, v)'
    BY <2>1 DEF From
  <2>3. \A p \in Process : l1'[p] # None => From(l1[p], fresh[p])'
    BY <1>4, <2>2 DEF Store, Freshness
  <2>4. \A t \in timers : t.type = "stale" /\ l1[t.process] \notin {None, t.of} =>
          From(l1[t.process], t.version)'
    BY <1>4, <2>2 DEF Store, Freshness
  <2>5. ASSUME NEW h \in Get, pc'[h] \in {"building", "waiting"}
        PROVE  BuilderFrom(on[h], need[h])'
    <3>1. CASE h = g
      BY <1>1, <2>1, <2>5, <3>1
    <3>2. CASE h # g
      BY <1>1, <2>1, <2>5, <3>2 DEF Store, Freshness, Reach, Using
    <3>3. QED
      BY <3>1, <3>2
  <2>6. ASSUME NEW h \in Get, pc'[h] = "storing"
        PROVE  entry'[on'[h]].built > 0 /\ From(on[h], need[h])'
    BY <1>1, <2>2, <2>6 DEF Store, Freshness, Reach, Using
  <2>7. FreshAfterInvalidate'
    BY <1>1 DEF Store, Freshness, FreshAfterInvalidate
  <2>8. QED
    BY <2>3, <2>4, <2>5, <2>6, <2>7 DEF Freshness
<1>10. QED
  BY <1>5, <1>6, <1>7, <1>8, <1>9 DEF Store

\* A builder starts for entry e: for one that has none, or for the entry g has just made.
LEMMA BuildKeeps ==
  ASSUME Store, Types', NEW g \in Get, NEW e \in Get, NEW r \in Entry,
         pc[g] \in Early, r.building = "running", Sound(r),
         \/ /\ Made(e) /\ entry[e].building # "running" /\ pc[e] \notin Early
            /\ r.built = entry[e].built /\ r.value = entry[e].value
         \/ e = g /\ r.built = 0,
         entry' = [entry EXCEPT ![e] = r],
         pc' = [pc EXCEPT ![g] = "building"],
         on' = [on EXCEPT ![g] = e],
         reading' = [reading EXCEPT ![g] = data],
         \A p \in Process : l1'[p] = l1[p] \/ (l1'[p] = e /\ r.built = 0),
         \A t \in timers' : t \in timers \/ t.type = "memory",
         \A h \in Get \ {g} : need'[h] = need[h], need'[g] <= data,
         UNCHANGED <<worldVars, result, fresh>>
  PROVE  Store'
<1> USE DEF worldVars
<1>1. /\ \A h \in Get : pc[h] \notin Early => pc'[h] = pc[h] /\ h # g
      /\ \A h \in Get \ {g} : pc'[h] = pc[h] /\ on'[h] = on[h] /\ reading'[h] = reading[h]
      /\ pc'[g] = "building" /\ on'[g] = e /\ reading'[g] = data
      /\ entry'[e] = r /\ Made(e)'
      /\ \A f \in Get \ {e} : entry'[f] = entry[f]
  BY ConstantTypes DEF Store, Types, TypeOK, Early, Made
<1>2. \A h \in Get : pc[h] = "building" => on[h] # e
  BY DEF Store, Flight, Reach, Using
<1>3. \A h \in Get : pc[h] = "waiting" => on[h] # e
  BY <1>2 DEF Store, Flight, WaitersAreServed
<1>4. pc'[e] \notin Early
  BY <1>1 DEF Early
<1>5. Reach'
  <2>1. \A f \in Get : pc[f] \notin Early => pc'[f] \notin Early
    BY <1>1
  <2>2. \A f \in Get : Made(f) => Made(f)'
    BY <1>1 DEF Made
  <2>3. \A t \in timers : t.type = "stale" => t.of \in Get
    BY DEF Store, Types, Timer
  <2>4. l1 \in [Process -> Get \cup {None}]
    BY TypeFacts DEF Store
  <2>5. \A p \in Process : l1'[p] # None => Made(l1[p])' /\ pc'[l1'[p]] \notin Early
    BY <1>1, <1>4, <2>1, <2>2, <2>4 DEF Store, Reach, Made
  <2>6. \A h \in Get : pc'[h] \in Using => on'[h] \in Get /\ Made(on[h])' /\ pc'[on'[h]] \notin Early
    BY <1>1, <1>4, <2>1, <2>2 DEF Store, Reach, Made
  <2>7. \A t \in timers' : t.type = "stale" => pc'[t.of] \notin Early
    BY <2>1, <2>3 DEF Store, Reach
  <2>8. QED
    BY <2>5, <2>6, <2>7 DEF Reach
<1>6. Flight'
  <2>1. \A h \in Get : pc'[h] = "building" => entry'[on'[h]].building = "running"
    BY <1>1, <1>2 DEF Store, Flight, Reach, Using
  <2>2. ASSUME NEW f \in Get, Made(f)', entry'[f].building = "running"
        PROVE  \E h \in Get : pc'[h] = "building" /\ on'[h] = f
    BY <1>1, <2>2 DEF Store, Flight, Made, Early
  <2>3. SingleFlight'
    BY <1>1, <1>2 DEF Store, Flight, SingleFlight
  <2>4. WaitersAreServed'
    <3>1. SUFFICES ASSUME NEW w \in Get, pc'[w] = "waiting"
                   PROVE  \E h \in Get : pc'[h] = "building" /\ on'[h] = on'[w]
      BY DEF WaitersAreServed
    <3>2. w # g /\ pc[w] = "waiting" /\ on'[w] = on[w]
      BY <1>1, <3>1
    <3>3. PICK h \in Get : pc[h] = "building" /\ on[h] = on[w]
      BY <3>2 DEF Store, Flight, WaitersAreServed
    <3>4. h # g
      BY <3>3 DEF Early
    <3>5. QED
      BY <1>1, <3>2, <3>3, <3>4
  <2>5. QED
    BY <2>1, <2>2, <2>3, <2>4 DEF Flight
<1>7. Values'
  BY <1>1 DEF Store, Values, Sound, Made
<1>8. Bounds'
  <2>1. \A t \in timers' : t.type = "stale" => t \in timers
    OBVIOUS
  <2>2. QED
    BY <2>1 DEF Store, Bounds
<1>9. Freshness'
  <2>1. ASSUME NEW f \in Get, NEW v, v <= data, BuilderFrom(f, v) PROVE BuilderFrom(f, v)'
    BY <1>1, <2>1 DEF BuilderFrom
  <2>2. ASSUME NEW f \in Get \ {e}, NEW v, v <= data, From(f, v) PROVE From(f, v)'
    BY <1>1, <2>1, <2>2 DEF From
  <2>3. ASSUME NEW v, v <= data PROVE BuilderFrom(e, v)'
    BY <1>1, <1>2, <2>3 DEF BuilderFrom
  <2>4. ASSUME NEW v, v <= data, r.built = 0 \/ From(e, v) PROVE From(e, v)'
    <3>1. r.built > 0 => r.value.version >= v
      BY <2>4 DEF From
    <3>2. QED
      BY <1>1, <2>3, <2>4, <3>1 DEF From
  <2>5. \A p \in Process : l1[p] \in Get \cup {None} /\ fresh[p] <= data
    BY TypeFacts DEF Store, Bounds
  <2>6. \A p \in Process : l1'[p] # None => From(l1[p], fresh[p])'
    <3>1. SUFFICES ASSUME NEW p \in Process, l1'[p] # None PROVE From(l1[p], fresh[p])'
      OBVIOUS
    <3>2. CASE l1'[p] = e
      <4>1. r.built = 0 \/ From(e, fresh[p])
        BY <3>1, <3>2 DEF Store, Freshness
      <4>2. From(e, fresh[p])'
        BY <2>4, <2>5, <4>1
      <4>3. QED
        BY <3>2, <4>2
    <3>3. CASE l1'[p] # e
      <4>1. l1'[p] = l1[p] /\ l1[p] \in Get \ {e}
        BY <2>5, <3>1, <3>3
      <4>2. From(l1[p], fresh[p])
        BY <3>1, <4>1 DEF Store, Freshness
      <4>3. QED
        BY <2>2, <2>5, <4>1, <4>2
    <3>4. QED
      BY <3>2, <3>3
  <2>7. ASSUME NEW t \in timers', t.type = "stale", l1'[t.process] \notin {None, t.of}
        PROVE  From(l1[t.process], t.version)'
    <3>1. t \in timers /\ t.process \in Process /\ t.version <= data
      BY <2>7 DEF Store, Types, Timer, Bounds
    <3>2. CASE l1'[t.process] = e
      <4>1. r.built = 0 \/ From(e, t.version)
        BY <2>7, <3>1, <3>2 DEF Store, Freshness
      <4>2. From(e, t.version)'
        BY <2>4, <3>1, <4>1
      <4>3. QED
        BY <3>2, <4>2
    <3>3. CASE l1'[t.process] # e
      <4>1. l1'[t.process] = l1[t.process] /\ l1[t.process] \in Get \ {e}
        BY <2>5, <2>7, <3>1, <3>3
      <4>2. From(l1[t.process], t.version)
        BY <2>7, <3>1, <4>1 DEF Store, Freshness
      <4>3. QED
        BY <2>2, <3>1, <4>1, <4>2
    <3>4. QED
      BY <3>2, <3>3
  <2>8. ASSUME NEW h \in Get, pc'[h] \in {"building", "waiting"}
        PROVE  BuilderFrom(on[h], need[h])'
    <3>1. CASE h = g
      BY <1>1, <2>3, <3>1
    <3>2. CASE h # g
      <4>1. /\ pc[h] = pc'[h] /\ on'[h] = on[h] /\ need'[h] = need[h]
            /\ on[h] \in Get /\ need[h] <= data
        BY <1>1, <2>8, <3>2 DEF Store, Reach, Using, Bounds
      <4>2. BuilderFrom(on[h], need[h])
        BY <2>8, <4>1 DEF Store, Freshness
      <4>3. QED
        BY <2>1, <4>1, <4>2
    <3>3. QED
      BY <3>1, <3>2
  <2>9. ASSUME NEW h \in Get, pc'[h] = "storing"
        PROVE  entry'[on'[h]].built > 0 /\ From(on[h], need[h])'
    <3>1. /\ h # g /\ pc[h] = "storing" /\ on'[h] = on[h] /\ need'[h] = need[h]
          /\ on[h] \in Get /\ pc[on[h]] \notin Early /\ need[h] <= data
      BY <1>1, <2>9 DEF Store, Reach, Using, Bounds
    <3>2. entry[on[h]].built > 0 /\ From(on[h], need[h])
      BY <3>1 DEF Store, Freshness
    <3>3. CASE on[h] = e
      <4>1. r.built = entry[e].built
        BY <3>1, <3>3
      <4>2. From(e, need[h])'
        BY <2>4, <3>1, <3>2, <3>3
      <4>3. QED
        BY <1>1, <3>1, <3>2, <3>3, <4>1, <4>2
    <3>4. CASE on[h] # e
      BY <1>1, <2>2, <3>1, <3>2, <3>4
    <3>5. QED
      BY <3>3, <3>4
  <2>10. FreshAfterInvalidate'
    BY <1>1 DEF Store, Freshness, FreshAfterInvalidate
  <2>11. QED
    BY <2>6, <2>7, <2>8, <2>9, <2>10 DEF Freshness
<1>10. QED
  BY <1>5, <1>6, <1>7, <1>8, <1>9 DEF Store

\* A build ends: its entry gets a value if it succeeds, and who waited is told.
LEMMA BuiltKeeps ==
  ASSUME Store, Types', NEW g \in Get, built(g)
  PROVE  Store'
<1>0. PICK e \in Get : e = on[g]
  BY DEF built, Store, Reach, Using
<1> DEFINE value == [version |-> reading[g], at |-> now]
           waiting == { w \in Get : pc[w] = "waiting" /\ on[w] = e }
<1>1. /\ e \in Get /\ Made(e) /\ pc[e] \notin Early /\ entry[e] \in Entry
      /\ now \in Nat /\ Ttl \in Nat
  BY <1>0, TypeFacts, ConstantTypes DEF built, Store, Reach, Using
<1>3. value \in Value
  BY <1>1, TypeFacts DEF Store, Types, Value
<1>4. /\ entry'[e] = [value |-> value, ttl |-> now + Ttl, built |-> entry[e].built + 1,
                      building |-> "no"]
      /\ \A f \in Get \ {e} : entry'[f] = entry[f]
      /\ entry'[e] \in Entry /\ entry'[e] # None
      /\ entry'[e].built > 0 /\ entry[e].built \in Nat
  <2>1. entry \in [Get -> Entry \cup {None}] /\ entry' \in [Get -> Entry \cup {None}]
    BY DEF Store, Types, TypeOK
  <2>2. entry'[e] = [value |-> value, ttl |-> now + Ttl, built |-> entry[e].built + 1,
                      building |-> "no"]
    BY <1>0, <1>1, <2>1 DEF built, NoPromise
  <2>3. now + Ttl \in Time /\ entry[e].built \in Nat
    BY <1>1, TypeFacts DEF Store, Entry
  <2>4. entry'[e] \in Entry
    BY <1>3, <2>2, <2>3 DEF Entry
  <2>5. \A f \in Get \ {e} : entry'[f] = entry[f]
    BY <1>0, <1>1, <2>1 DEF built
  <2>6. QED
    BY <2>2, <2>3, <2>4, <2>5, ConstantTypes
<1>5. /\ pc'[g] = "storing"
      /\ \A w \in waiting : pc'[w] = "done" /\ result'[w] = value
      /\ \A h \in Get : h \notin waiting => result'[h] = result[h]
      /\ \A h \in Get : h \notin waiting /\ h # g => pc'[h] = pc[h]
      /\ g \notin waiting /\ pc[g] = "building"
  BY <1>0 DEF built
<1>6. UNCHANGED <<worldVars, l1, timers, on, reading, need, fresh>>
  BY DEF built, history
<1> HIDE DEF value, waiting
<1> USE DEF worldVars
<1>7. /\ \A h \in Get : pc'[h] = "building" <=> pc[h] = "building" /\ h # g
      /\ \A h \in Get : pc'[h] = "building" => on[h] # e
      /\ \A h \in Get : pc'[h] = "waiting" <=> pc[h] = "waiting" /\ on[h] # e
      /\ \A h \in Get : pc'[h] = "storing" <=> pc[h] = "storing" \/ h = g
      /\ \A h \in Get : pc'[h] \in Early <=> pc[h] \in Early
      /\ \A h \in waiting : pc[h] = "waiting" /\ on[h] = e
  <2>1. \A h \in Get : h \in waiting <=> pc[h] = "waiting" /\ on[h] = e
    BY DEF waiting
  <2>2. \A h \in Get : pc[h] = "building" /\ on[h] = e => h = g
    BY <1>0, <1>5 DEF Store, Flight, SingleFlight
  <2>3. \A h \in Get : pc'[h] = "building" <=> pc[h] = "building" /\ h # g
    BY <1>5, <2>1
  <2>4. \A h \in Get : pc'[h] = "waiting" <=> pc[h] = "waiting" /\ on[h] # e
    BY <1>5, <2>1
  <2>5. \A h \in Get : pc'[h] \in Early <=> pc[h] \in Early
    BY <1>5, <2>1 DEF Early
  <2>6. \A h \in Get : pc'[h] = "storing" <=> pc[h] = "storing" \/ h = g
    BY <1>5, <2>1
  <2>7. \A h \in waiting : pc[h] = "waiting" /\ on[h] = e
    BY DEF waiting
  <2>8. QED
    BY <2>2, <2>3, <2>4, <2>5, <2>6, <2>7
<1>8. /\ l1 \in [Process -> Get \cup {None}]
      /\ \A t \in timers : t.type = "stale" => t.of \in Get /\ t.process \in Process
  BY TypeFacts DEF Store, Types, Timer
<1>9. \A f \in Get : Made(f) => Made(f)'
  BY <1>4 DEF Made
<1>10. Reach'
  <2>1. \A h \in Get : pc'[h] \in Using => pc[h] \in Using
    BY <1>5, <1>7 DEF Using
  <2>2. QED
    BY <1>6, <1>7, <1>8, <1>9, <2>1 DEF Store, Reach
<1>11. Flight'
  <2>1. \A h \in Get : pc'[h] = "building" => entry'[on[h]].building = "running"
    <3>1. SUFFICES ASSUME NEW h \in Get, pc'[h] = "building" PROVE entry'[on[h]].building = "running"
      OBVIOUS
    <3>2. on[h] \in Get \ {e}
      BY <1>7, <3>1 DEF Store, Reach, Using
    <3>3. QED
      BY <1>4, <1>7, <3>1, <3>2 DEF Store, Flight
  <2>2. ASSUME NEW f \in Get, Made(f)', entry'[f].building = "running"
        PROVE  \E h \in Get : pc'[h] = "building" /\ on[h] = f
    <3>1. f # e
      BY <1>4, <2>2
    <3>2. PICK h \in Get : pc[h] = "building" /\ on[h] = f
      BY <1>4, <2>2, <3>1 DEF Store, Flight, Made
    <3>3. h # g
      BY <1>0, <3>1, <3>2
    <3>4. QED
      BY <1>7, <3>2, <3>3
  <2>3. SingleFlight'
    BY <1>6, <1>7 DEF Store, Flight, SingleFlight
  <2>4. WaitersAreServed'
    <3>1. SUFFICES ASSUME NEW w \in Get, pc'[w] = "waiting"
                   PROVE  \E h \in Get : pc'[h] = "building" /\ on[h] = on[w]
      BY <1>6 DEF WaitersAreServed
    <3>2. pc[w] = "waiting" /\ on[w] # e
      BY <1>7, <3>1
    <3>3. PICK h \in Get : pc[h] = "building" /\ on[h] = on[w]
      BY <3>2 DEF Store, Flight, WaitersAreServed
    <3>4. h # g
      BY <1>0, <3>2, <3>3
    <3>5. QED
      BY <1>7, <3>3, <3>4
  <2>5. QED
    BY <1>6, <2>1, <2>2, <2>3, <2>4 DEF Flight
<1>12. Values'
  <2>1. Sound(entry[e])'
    <3>1. /\ entry'[e].value = value /\ entry'[e].ttl = now + Ttl
          /\ value.at = now
      BY <1>3, <1>4 DEF value
    <3>2. QED
      BY <1>1, <1>3, <1>4, <1>6, <3>1 DEF Sound
  <2>2. \A f \in Get \ {e} : Made(f)' => Sound(entry[f])'
    BY <1>4, <1>6 DEF Store, Values, Sound, Made
  <2>3. QED
    BY <2>1, <2>2 DEF Values
<1>13. Bounds'
  BY <1>6 DEF Store, Bounds
<1>14. Freshness'
  <2>1. ASSUME NEW f \in Get, NEW v, BuilderFrom(f, v) PROVE BuilderFrom(f, v)'
    BY <1>6, <1>7, <2>1 DEF BuilderFrom
  <2>2. ASSUME NEW v PROVE BuilderFrom(e, v)'
    BY <1>6, <1>7, <2>2 DEF BuilderFrom
  <2>3. ASSUME NEW v, BuilderFrom(e, v) PROVE reading[g] >= v
    BY <1>0, <1>5, <2>3 DEF BuilderFrom
  <2>4. ASSUME NEW v, BuilderFrom(e, v) PROVE From(e, v)'
    <3>1. entry'[e].value.version = reading[g]
      BY <1>4 DEF value
    <3>2. QED
      BY <2>2, <2>3, <2>4, <3>1 DEF From
  <2>5. ASSUME NEW f \in Get, NEW v, From(f, v) PROVE From(f, v)'
    <3>1. CASE f = e
      BY <2>4, <2>5, <3>1 DEF From
    <3>2. CASE f # e
      <4>1. entry'[f] = entry[f]
        BY <1>4, <3>2
      <4>2. QED
        BY <2>1, <2>5, <4>1 DEF From
    <3>3. QED
      BY <3>1, <3>2
  <2>6. \A p \in Process : l1'[p] # None => From(l1[p], fresh[p])'
    BY <1>6, <1>8, <2>5 DEF Store, Freshness
  <2>7. \A t \in timers' : t.type = "stale" /\ l1'[t.process] \notin {None, t.of} =>
          From(l1[t.process], t.version)'
    BY <1>6, <1>8, <2>5 DEF Store, Freshness
  <2>8. ASSUME NEW h \in Get, pc'[h] \in {"building", "waiting"}
        PROVE  BuilderFrom(on[h], need[h])'
    BY <1>6, <1>7, <2>1, <2>8 DEF Store, Freshness, Reach, Using
  <2>9. ASSUME NEW h \in Get, pc'[h] = "storing"
        PROVE  entry'[on'[h]].built > 0 /\ From(on[h], need[h])'
    <3>1. CASE h = g
      <4>1. BuilderFrom(e, need[g])
        BY <1>0, <1>5 DEF Store, Freshness
      <4>2. QED
        BY <1>4, <1>6, <2>4, <3>1, <4>1, <1>0
    <3>2. CASE h # g
      <4>1. pc[h] = "storing" /\ on[h] \in Get
        BY <1>7, <2>9, <3>2 DEF Store, Reach, Using
      <4>2. entry[on[h]].built > 0 /\ From(on[h], need[h])
        BY <4>1 DEF Store, Freshness
      <4>3. From(on[h], need[h])'
        BY <1>6, <2>5, <4>1, <4>2
      <4>4. QED
        BY <1>4, <1>6, <4>1, <4>2, <4>3
    <3>3. QED
      BY <3>1, <3>2
  <2>10. FreshAfterInvalidate'
    <3>1. SUFFICES ASSUME NEW h \in Get, pc'[h] = "done", result'[h] # None
                   PROVE  result'[h].version >= need'[h]
      BY DEF FreshAfterInvalidate
    <3>2. CASE h \in waiting
      <4>1. BuilderFrom(e, need[h])
        BY <1>7, <3>2 DEF Store, Freshness
      <4>2. reading[g] >= need[h]
        BY <2>3, <4>1
      <4>3. QED
        BY <1>5, <1>6, <3>2, <4>2 DEF value
    <3>3. CASE h \notin waiting
      <4>1. h # g /\ pc[h] = "done" /\ result'[h] = result[h]
        BY <1>5, <3>1, <3>3
      <4>2. QED
        BY <1>6, <3>1, <4>1 DEF Store, Freshness, FreshAfterInvalidate
    <3>4. QED
      BY <3>2, <3>3
  <2>11. QED
    BY <2>6, <2>7, <2>8, <2>9, <2>10 DEF Freshness
<1>15. QED
  BY <1>10, <1>11, <1>12, <1>13, <1>14 DEF Store

\* A build fails: its entry is as it was, and who waited is told.
LEMMA FailedKeeps ==
  ASSUME Store, Types', NEW g \in Get, failed(g)
  PROVE  Store'
<1>1. PICK e \in Get : e = on[g]
  BY DEF failed, Store, Reach, Using
<1>2. /\ Made(e) /\ entry[e] \in Entry /\ pc[g] = "building"
  BY <1>1, TypeFacts DEF failed, Store, Reach, Using
<1>3. /\ entry'[e].built = entry[e].built /\ entry'[e].value = entry[e].value
      /\ entry'[e].ttl = entry[e].ttl /\ entry'[e].building = "failed"
      /\ \A f \in Get \ {e} : entry'[f] = entry[f]
      /\ Made(e)'
  <2>1. entry \in [Get -> Entry \cup {None}] /\ entry' \in [Get -> Entry \cup {None}]
    BY DEF Store, Types, TypeOK
  <2>2. entry'[e] = [entry[e] EXCEPT !.building = "failed"]
    BY <1>1, <2>1 DEF failed
  <2>3. entry'[e] \in Entry
    BY <1>2, <2>2 DEF Entry
  <2>4. \A f \in Get \ {e} : entry'[f] = entry[f]
    BY <1>1, <2>1 DEF failed
  <2>5. QED
    BY <1>2, <2>2, <2>3, <2>4, ConstantTypes DEF Entry, Made
<1>4. UNCHANGED <<worldVars, l1, timers, on, reading, result, need, fresh>>
  BY DEF failed, history
<1> USE DEF worldVars
<1>5. /\ \A h \in Get : pc'[h] = "building" <=> pc[h] = "building" /\ on[h] # e
      /\ \A h \in Get : pc'[h] = "waiting" <=> pc[h] = "waiting" /\ on[h] # e
      /\ \A h \in Get : pc'[h] \in {"storing", "done"} => pc'[h] = pc[h]
      /\ \A h \in Get : pc'[h] \in Early <=> pc[h] \in Early
  <2>1. \A h \in Get : pc[h] = "building" /\ on[h] = e <=> h = g
    BY <1>1, <1>2 DEF Store, Flight, SingleFlight
  <2>2. \A h \in Get : pc'[h] = IF h = g \/ (pc[h] = "waiting" /\ on[h] = e)
                                THEN "threw" ELSE pc[h]
    BY <1>1 DEF failed
  <2>3. \A h \in Get : pc'[h] \in Early <=> pc[h] \in Early
    BY <1>2, <2>2 DEF Early
  <2>4. QED
    BY <1>2, <2>1, <2>2, <2>3
<1>6. /\ l1 \in [Process -> Get \cup {None}]
      /\ \A t \in timers : t.type = "stale" => t.of \in Get /\ t.process \in Process
  BY TypeFacts DEF Store, Types, Timer
<1>7. \A f \in Get : Made(f) => Made(f)'
  BY <1>3 DEF Made
<1>8. Reach'
  <2>1. \A h \in Get : pc'[h] \in Using => pc[h] \in Using
    BY <1>5 DEF Using
  <2>2. QED
    BY <1>4, <1>5, <1>6, <1>7, <2>1 DEF Store, Reach
<1>9. Flight'
  <2>1. \A h \in Get : pc'[h] = "building" => entry'[on[h]].building = "running"
    <3>1. SUFFICES ASSUME NEW h \in Get, pc'[h] = "building" PROVE entry'[on[h]].building = "running"
      OBVIOUS
    <3>2. on[h] \in Get \ {e} /\ pc[h] = "building"
      BY <1>5, <3>1 DEF Store, Reach, Using
    <3>3. QED
      BY <1>3, <3>2 DEF Store, Flight
  <2>2. ASSUME NEW f \in Get, Made(f)', entry'[f].building = "running"
        PROVE  \E h \in Get : pc'[h] = "building" /\ on[h] = f
    BY <1>3, <1>5, <2>2 DEF Store, Flight, Made
  <2>3. SingleFlight'
    BY <1>4, <1>5 DEF Store, Flight, SingleFlight
  <2>4. WaitersAreServed'
    BY <1>4, <1>5 DEF Store, Flight, WaitersAreServed
  <2>5. QED
    BY <1>4, <2>1, <2>2, <2>3, <2>4 DEF Flight
<1>10. Values'
  <2>1. Sound(entry[e])'
    BY <1>2, <1>3, <1>4 DEF Store, Values, Sound
  <2>2. \A f \in Get \ {e} : Made(f)' => Sound(entry[f])'
    BY <1>3, <1>4 DEF Store, Values, Sound, Made
  <2>3. QED
    BY <2>1, <2>2 DEF Values
<1>11. Bounds'
  BY <1>4 DEF Store, Bounds
<1>12. Freshness'
  <2>1. \A f \in Get : \A v : BuilderFrom(f, v) => BuilderFrom(f, v)'
    BY <1>4, <1>5 DEF BuilderFrom
  <2>2. \A f \in Get : entry'[f].built = entry[f].built /\ entry'[f].value = entry[f].value
    BY <1>3
  <2>3. \A f \in Get : \A v : From(f, v) => From(f, v)'
    BY <2>1, <2>2 DEF From
  <2>4. \A p \in Process : l1'[p] # None => From(l1[p], fresh[p])'
    BY <1>4, <1>6, <2>3 DEF Store, Freshness
  <2>5. \A t \in timers' : t.type = "stale" /\ l1'[t.process] \notin {None, t.of} =>
          From(l1[t.process], t.version)'
    BY <1>4, <1>6, <2>3 DEF Store, Freshness
  <2>6. \A h \in Get : pc'[h] \in {"building", "waiting"} => BuilderFrom(on[h], need[h])'
    BY <1>4, <1>5, <2>1 DEF Store, Freshness, Reach, Using
  <2>7. \A h \in Get : pc'[h] = "storing" => entry'[on'[h]].built > 0 /\ From(on[h], need[h])'
    BY <1>4, <1>5, <2>2, <2>3 DEF Store, Freshness, Reach, Using
  <2>8. FreshAfterInvalidate'
    BY <1>4, <1>5 DEF Store, Freshness, FreshAfterInvalidate
  <2>9. QED
    BY <2>4, <2>5, <2>6, <2>7, <2>8 DEF Freshness
<1>13. QED
  BY <1>8, <1>9, <1>10, <1>11, <1>12 DEF Store

\* A step that no call sees: stores lose their entry, an entry expires, more is due.
LEMMA StoreKeeps ==
  ASSUME Store, Types', UNCHANGED <<pc, on, reading, result, need>>,
         now' >= now, data' >= data,
         \A e \in Get :
           \/ entry'[e] = entry[e]
           \/ now' = now /\ Made(e) /\ Made(e)' /\ entry'[e] = [entry[e] EXCEPT !.ttl = now],
         \A p \in Process :
           /\ l1'[p] \in {l1[p], None} /\ fresh'[p] <= data'
           /\ l1'[p] # None => From(l1[p], fresh'[p]),
         \A t \in timers' : t.type = "stale" =>
           /\ pc[t.of] \notin Early /\ t.version <= data'
           /\ l1'[t.process] \notin {None, t.of} => From(l1[t.process], t.version)
  PROVE  Store'
<1>1. \A e \in Get : Made(e) => entry[e] \in Entry
  BY TypeFacts DEF Store
<1>2. \A e \in Get : /\ Made(e)' <=> Made(e)
                     /\ Made(e) => /\ entry'[e].built = entry[e].built
                                   /\ entry'[e].value = entry[e].value
                                   /\ entry'[e].building = entry[e].building
  <2>1. SUFFICES ASSUME NEW e \in Get
                 PROVE  /\ Made(e)' <=> Made(e)
                        /\ Made(e) => /\ entry'[e].built = entry[e].built
                                      /\ entry'[e].value = entry[e].value
                                      /\ entry'[e].building = entry[e].building
    OBVIOUS
  <2>2. CASE entry'[e] = entry[e]
    BY <2>2 DEF Made
  <2>3. CASE entry'[e] # entry[e]
    BY <1>1, <2>3 DEF Entry
  <2>4. QED
    BY <2>2, <2>3
<1>3. /\ l1 \in [Process -> Get \cup {None}]
      /\ \A t \in timers' : t.type = "stale" => t.of \in Get /\ t.process \in Process
  BY TypeFacts DEF Store, Types, Timer
<1>4. \A p \in Process : l1[p] # None => l1[p] \in Get /\ Made(l1[p])
  BY <1>3 DEF Store, Reach
<1>5. Reach'
  BY <1>2, <1>3, <1>4 DEF Store, Reach
<1>6. Flight'
  BY <1>2 DEF Store, Flight, Reach, Using, SingleFlight, WaitersAreServed
<1>7. Values'
  <2>1. SUFFICES ASSUME NEW e \in Get, Made(e)' PROVE Sound(entry[e])'
    BY DEF Values
  <2>2. Made(e) /\ Sound(entry[e]) /\ entry[e] \in Entry
    BY <1>1, <1>2, <2>1 DEF Store, Values
  <2>3. now \in Nat /\ now' \in Nat /\ entry[e].ttl \in Nat
    BY <2>2, TypeFacts, ConstantTypes DEF Store, Types, TypeOK, Start
  <2>4. CASE entry'[e] = entry[e]
    BY <2>2, <2>3, <2>4 DEF Sound
  <2>5. CASE entry'[e] = [entry[e] EXCEPT !.ttl = now] /\ now' = now
    <3>1. entry'[e].ttl = now
      BY <2>2, <2>5 DEF Entry
    <3>2. QED
      BY <1>2, <2>2, <2>3, <2>5, <3>1 DEF Sound
  <2>6. QED
    BY <2>4, <2>5
<1>8. Bounds'
  <2>1. \A g \in Get : need[g] <= data'
    BY TypeFacts DEF Store, Bounds, Types, TypeOK
  <2>2. QED
    BY <2>1 DEF Bounds
<1>9. Freshness'
  <2>1. \A e \in Get : \A v : BuilderFrom(e, v) => BuilderFrom(e, v)'
    BY DEF BuilderFrom
  <2>2. ASSUME NEW e \in Get, NEW v, Made(e), entry[e].built > 0 => entry[e].value.version >= v,
               BuilderFrom(e, v)
        PROVE  From(e, v)'
    BY <1>2, <2>1, <2>2 DEF From
  <2>3. ASSUME NEW p \in Process, l1'[p] # None PROVE From(l1[p], fresh[p])'
    <3>1. PICK e \in Get : l1[p] = e /\ l1'[p] = e /\ Made(e)
      BY <1>4, <2>3
    <3>2. PICK v : v = fresh'[p]
      OBVIOUS
    <3>3. From(e, v)
      BY <2>3, <3>1, <3>2
    <3>4. From(e, v)'
      BY <2>2, <3>1, <3>3 DEF From
    <3>5. QED
      BY <3>1, <3>2, <3>4
  <2>4. ASSUME NEW t \in timers', t.type = "stale", l1'[t.process] \notin {None, t.of}
        PROVE  From(l1[t.process], t.version)'
    <3>1. PICK e \in Get : l1[t.process] = e /\ l1'[t.process] = e /\ Made(e)
      BY <1>3, <1>4, <2>4
    <3>2. From(e, t.version)
      BY <2>4, <3>1
    <3>3. From(e, t.version)'
      BY <2>2, <3>1, <3>2 DEF From
    <3>4. QED
      BY <3>1, <3>3
  <2>5. \A h \in Get : pc'[h] \in {"building", "waiting"} => BuilderFrom(on[h], need[h])'
    BY <2>1 DEF Store, Freshness, Reach, Using
  <2>6. \A h \in Get : pc'[h] = "storing" => entry'[on'[h]].built > 0 /\ From(on[h], need[h])'
    BY <1>2, <2>2 DEF Store, Freshness, Reach, Using, From
  <2>7. FreshAfterInvalidate'
    BY DEF Store, Freshness, FreshAfterInvalidate
  <2>8. QED
    BY <2>3, <2>4, <2>5, <2>6, <2>7 DEF Freshness
<1>10. QED
  BY <1>5, <1>6, <1>7, <1>8, <1>9 DEF Store

\* What an invalidation leaves of the entries, the stores and the timers.
LEMMA InvalidationKeeps ==
  ASSUME Store, NEW p \in Process, StoreInvalidate(p),
         UNCHANGED <<worldVars, getVars, l2>>, enabled' \subseteq Process, asked' \subseteq Process
  PROVE  Store'
<1> USE DEF worldVars, getVars
<1>1. /\ l1 \in [Process -> Get \cup {None}] /\ now \in Time /\ now \in Nat /\ data \in 0 .. MaxVersion
      /\ entry \in [Get -> Entry \cup {None}] /\ fresh \in [Process -> 0 .. MaxVersion]
      /\ maxStale \in Nat /\ timers \subseteq Timer /\ MaxVersion \in Nat
  BY TypeFacts, ConstantTypes DEF Store, Types, TypeOK
<1>2. \A e \in Get :
        \/ entry'[e] = entry[e]
        \/ now' = now /\ Made(e) /\ entry'[e] = [entry[e] EXCEPT !.ttl = now]
  BY <1>1 DEF StoreInvalidate, DeleteNow, storeVars, Store, Reach
<1>3. entry' \in [Get -> Entry \cup {None}] /\ \A e \in Get : Made(e) => Made(e)'
  <2>1. \A e \in Get : Made(e) => [entry[e] EXCEPT !.ttl = now] \in Entry
    BY <1>1 DEF Made, Entry
  <2>2. entry' = entry \/ \E e \in Get : Made(e) /\ entry' = [entry EXCEPT ![e].ttl = now]
    BY <1>1 DEF StoreInvalidate, DeleteNow, storeVars, Store, Reach
  <2>3. CASE entry' = entry
    BY <1>1, <2>3 DEF Made
  <2>4. CASE \E e \in Get : Made(e) /\ entry' = [entry EXCEPT ![e].ttl = now]
    BY <1>1, <2>1, <2>4, ConstantTypes DEF Made
  <2>5. QED
    BY <2>2, <2>3, <2>4
<1>4. \A t \in timers' \ timers :
        /\ l1[p] \in Get /\ l1' = l1
        /\ t = [type |-> "stale", process |-> p, due |-> now + maxStale, of |-> l1[p],
                version |-> data]
  BY <1>1 DEF StoreInvalidate, storeVars
<1>5. \A t \in timers' \ timers :
        t \in Timer /\ t.version = data /\ t.of = l1[p] /\ t.process = p
  BY <1>1, <1>4 DEF Timer
<1>6. /\ fresh' \in [Process -> 0 .. MaxVersion] /\ l1' \in [Process -> Get \cup {None}]
      /\ \A q \in Process : /\ l1'[q] \in {l1[q], None}
                            /\ fresh'[q] = fresh[q] \/ (fresh'[q] = data /\ l1'[q] = None)
  BY <1>1 DEF StoreInvalidate, DeleteNow, storeVars
<1>7. Types'
  <2>1. timers' \subseteq Timer
    BY <1>1, <1>5
  <2>2. TypeOK'
    BY <1>3, <1>6 DEF Store, Types, TypeOK
  <2>3. QED
    BY <1>6, <2>1, <2>2 DEF Store, Types
<1>8. ASSUME NEW q \in Process
      PROVE  /\ l1'[q] \in {l1[q], None} /\ fresh'[q] <= data'
             /\ l1'[q] # None => From(l1[q], fresh'[q])
  <2>1. fresh'[q] <= data'
    BY <1>1, <1>6 DEF Store, Bounds
  <2>2. l1'[q] # None => fresh'[q] = fresh[q] /\ l1[q] # None
    BY <1>6
  <2>3. l1'[q] # None => From(l1[q], fresh'[q])
    BY <2>2 DEF Store, Freshness
  <2>4. QED
    BY <1>6, <2>1, <2>3
<1>9. ASSUME NEW t \in timers', t.type = "stale"
      PROVE  /\ pc[t.of] \notin Early /\ t.version <= data'
             /\ l1'[t.process] \notin {None, t.of} => From(l1[t.process], t.version)
  <2>1. CASE t \in timers
    <3>1. pc[t.of] \notin Early /\ t.version <= data' /\ t.process \in Process
      BY <1>1, <1>9, <2>1 DEF Store, Reach, Bounds, Timer
    <3>2. l1'[t.process] # None => l1'[t.process] = l1[t.process]
      BY <1>6, <3>1
    <3>3. QED
      BY <1>9, <2>1, <3>1, <3>2 DEF Store, Freshness
  <2>2. CASE t \notin timers
    BY <1>1, <1>4, <1>5, <2>2, ConstantTypes DEF Store, Reach
  <2>3. QED
    BY <2>1, <2>2
<1>10. now' >= now /\ data' >= data
  BY <1>1
<1>11. QED
  BY <1>2, <1>3, <1>7, <1>8, <1>9, <1>10, StoreKeeps

\* A timer that fires deletes the entry of its store or nothing.
LEMMA TimerKeeps ==
  ASSUME Store, NEW t \in timers, memoryTimer(t) \/ staleTimer(t)
  PROVE  Store'
<1>1. /\ l1 \in [Process -> Get \cup {None}] /\ now \in Nat /\ data \in 0 .. MaxVersion
      /\ fresh \in [Process -> 0 .. MaxVersion] /\ timers \subseteq Timer /\ MaxVersion \in Nat
  BY TypeFacts, ConstantTypes DEF Store, Types, TypeOK
<1>2. /\ UNCHANGED <<worldVars, entry, brokerVars, asked, getVars>>
      /\ timers' = timers \ {t}
      /\ l1' = l1 \/ l1' = [l1 EXCEPT ![t.process] = None]
      /\ fresh' = fresh \/
           /\ t.type = "stale" /\ l1' = DropStale(t)
           /\ fresh' = [fresh EXCEPT ![t.process] = IF @ > t.version THEN @ ELSE t.version]
  BY DEF memoryTimer, staleTimer, DropStale, history
<1> USE DEF worldVars, brokerVars, getVars
<1>3. t.process \in Process /\ t \in Timer
  BY <1>1 DEF Timer
<1>4. t.type = "stale" => t.version \in 0 .. MaxVersion /\ t.version <= data
  BY <1>3 DEF Timer, Store, Bounds
<1>5. \A q \in Process : l1'[q] \in {l1[q], None}
  BY <1>1, <1>2
<1>6. fresh' \in [Process -> 0 .. MaxVersion] /\ l1' \in [Process -> Get \cup {None}]
  BY <1>1, <1>2, <1>4
<1>7. Types'
  <2>1. TypeOK'
    BY <1>2, <1>6 DEF Store, Types, TypeOK
  <2>2. QED
    BY <1>1, <1>2, <1>6, <2>1 DEF Store, Types
<1>8. ASSUME NEW q \in Process
      PROVE  /\ l1'[q] \in {l1[q], None} /\ fresh'[q] <= data'
             /\ l1'[q] # None => From(l1[q], fresh'[q])
  <2>1. fresh[q] <= data /\ (l1[q] # None => From(l1[q], fresh[q]))
    BY DEF Store, Bounds, Freshness
  <2>2. CASE fresh'[q] = fresh[q]
    BY <1>2, <1>5, <2>1, <2>2
  <2>3. CASE fresh'[q] # fresh[q]
    <3>1. q = t.process /\ fresh'[q] = t.version /\ t.type = "stale" /\ l1' = DropStale(t)
      BY <1>1, <1>2, <1>3, <2>3
    <3>2. l1'[q] # None => l1[q] \notin {None, t.of}
      BY <1>1, <1>3, <3>1 DEF DropStale
    <3>3. l1'[q] # None => From(l1[q], t.version)
      BY <3>1, <3>2 DEF Store, Freshness
    <3>4. QED
      BY <1>2, <1>4, <1>5, <3>1, <3>3
  <2>4. QED
    BY <2>2, <2>3
<1>9. ASSUME NEW u \in timers', u.type = "stale"
      PROVE  /\ pc[u.of] \notin Early /\ u.version <= data'
             /\ l1'[u.process] \notin {None, u.of} => From(l1[u.process], u.version)
  <2>1. u \in timers /\ u.process \in Process
    BY <1>1, <1>2, <1>9 DEF Timer
  <2>2. l1'[u.process] # None => l1'[u.process] = l1[u.process]
    BY <1>5, <2>1
  <2>3. QED
    BY <1>2, <1>9, <2>1, <2>2 DEF Store, Reach, Bounds, Freshness
<1>10. now' >= now /\ data' >= data
  BY <1>1, <1>2
<1>11. \A e \in Get : entry'[e] = entry[e]
  BY <1>2
<1>12. UNCHANGED <<pc, on, reading, result, need>>
  BY <1>2
<1>13. QED
  BY <1>7, <1>8, <1>9, <1>10, <1>11, <1>12, StoreKeeps

\* The clock, the data and the broker.
LEMMA WorldKeeps ==
  ASSUME Store, Types', UNCHANGED <<storeVars, getVars, fresh>>, now' >= now, data' >= data
  PROVE  Store'
<1> USE DEF storeVars, getVars
<1>1. data \in Nat /\ data' \in Nat /\ fresh \in [Process -> 0 .. MaxVersion] /\ timers \subseteq Timer
  BY ConstantTypes DEF Store, Types, TypeOK
<1>2. \A q \in Process : fresh[q] <= data' /\ (l1[q] # None => From(l1[q], fresh[q]))
  BY <1>1, ConstantTypes DEF Store, Bounds, Freshness
<1>3. \A t \in timers : t.type = "stale" =>
           /\ pc[t.of] \notin Early /\ t.version <= data'
           /\ l1[t.process] \notin {None, t.of} => From(l1[t.process], t.version)
  BY <1>1, ConstantTypes DEF Store, Bounds, Freshness, Reach, Timer
<1>4. QED
  BY <1>2, <1>3, StoreKeeps

-----------------------------------------------------------------------------
(* Every action keeps both halves of the invariant.                        *)

\* Without a message nothing changes for who waits for one.
LEMMA NoMail ==
  ASSUME Post, UNCHANGED netVars, \A g \in Get : pc'[g] = pc[g] \/ pc[g] \notin Waits
  PROVE  Post'
<1>1. ASSUME NEW p \in Process PROVE Channels(toBroker[p], toClient[p], p, pc')
  <2>1. PICK s \in Seq(Message), t \in Seq(Message) :
          /\ s = toBroker[p] /\ t = toClient[p]
          /\ Channels(s, t, p, pc) /\ Channels(t, s, p, pc)
    BY PostAt
  <2>2. \A g \in Get : pc[g] \notin Waits => Silent(s, g) /\ Silent(t, g)
    BY <2>1, NotNamed DEF Waits
  <2>3. Channels(s, t, p, pc')
    BY <2>1, <2>2, SilentMoves
  <2>4. QED
    BY <2>1, <2>3
<1>2. QED
  BY <1>1 DEF Post, netVars

LEMMA GetKeeps ==
  ASSUME IInv, NEW g \in Get, get(g)
  PROVE  IInv'
<1>1. PICK p \in Process : p = ProcessOf[g]
  BY BrokerCacheAssumption
<1>2. /\ pc[g] = "new" /\ pc[g] \in Early
      /\ need' = [need EXCEPT ![g] = fresh[p]]
      /\ asked' = (IF l1[p] = None THEN asked \cup {p} ELSE asked)
      /\ UNCHANGED <<worldVars, l1, timers, brokerVars, toClient, fresh>>
  BY <1>1 DEF get, Early, history
<1>3. /\ l1 \in [Process -> Get \cup {None}] /\ now \in Nat
      /\ entry \in [Get -> Entry \cup {None}] /\ result \in [Get -> Value \cup {None}]
      /\ fresh \in [Process -> 0 .. MaxVersion] /\ need \in [Get -> 0 .. MaxVersion]
      /\ reading \in [Get -> 0 .. MaxVersion] /\ on \in [Get -> Get \cup {None}]
      /\ data \in 0 .. MaxVersion
  BY TypeFacts DEF IInv, Store, Types, TypeOK
<1>4. /\ need'[g] = fresh[p] /\ need'[g] <= data /\ \A h \in Get \ {g} : need'[h] = need[h]
      /\ need' \in [Get -> 0 .. MaxVersion]
  BY <1>2, <1>3 DEF IInv, Store, Bounds
<1>5. ASSUME entry' \in [Get -> Entry \cup {None}], result' \in [Get -> Value \cup {None}],
             on' \in [Get -> Get \cup {None}], reading' \in [Get -> 0 .. MaxVersion],
             NEW where \in {"enabling", "fetching", "waiting", "building", "done", "threw"},
             pc' = [pc EXCEPT ![g] = where]
      PROVE  Types'
  BY <1>2, <1>4, <1>5 DEF IInv, Store, Types, TypeOK, worldVars, brokerVars
<1>6. CASE l1[p] = None
  <2>1. Ask(g) /\ UNCHANGED <<entry, on, reading, result>>
    BY <1>1, <1>6 DEF get
  <2>2. PICK where \in {"enabling", "fetching"}, m \in Message :
          /\ pc' = [pc EXCEPT ![g] = where] /\ Send(p, m)
          /\ m.of = g /\ m.type \notin Untagged /\ Awaits(m.type) = where
    <3>1. CASE p \notin asked
      <4>1. /\ pc' = [pc EXCEPT ![g] = "enabling"]
            /\ Send(p, [type |-> "Enable", of |-> g])
        BY <1>1, <2>1, <3>1 DEF Ask
      <4>2. [type |-> "Enable", of |-> g] \in Message
        BY MessageTypes
      <4>3. QED
        BY <4>1, <4>2 DEF Awaits, Untagged
    <3>2. CASE p \in asked
      <4>1. /\ pc' = [pc EXCEPT ![g] = "fetching"]
            /\ Send(p, [type |-> "GetCache", of |-> g])
        BY <1>1, <2>1, <3>2 DEF Ask
      <4>2. [type |-> "GetCache", of |-> g] \in Message
        BY MessageTypes
      <4>3. QED
        BY <4>1, <4>2 DEF Awaits, Untagged
    <3>3. QED
      BY <3>1, <3>2
  <2>3. Types'
    BY <1>3, <1>5, <2>1, <2>2
  <2>4. Store'
    BY <1>2, <1>4, <2>1, <2>2, <2>3, MovesOn DEF IInv, storeVars
  <2>5. \A h \in Get : Names(m, h) =>
           ProcessOf[h] = p /\ pc[h] \notin Waits /\ pc'[h] = Awaits(m.type)
    BY <1>1, <1>2, <2>2 DEF Names, Waits, IInv, Store, Types, TypeOK
  <2>6. \A h \in Get : pc'[h] = pc[h] \/ pc[h] \notin Waits
    BY <1>2, <2>2 DEF Waits, IInv, Store, Types, TypeOK
  <2>7. Post'
    BY <1>2, <2>2, <2>5, <2>6, Sent DEF IInv
  <2>8. QED
    BY <2>4, <2>7 DEF IInv
<1>7. CASE l1[p] # None
  <2>1. PICK e \in Get : e = l1[p]
    BY <1>3, <1>7
  <2>2. Check(g, e, entry) /\ UNCHANGED toBroker
    BY <1>1, <1>7, <2>1 DEF get
  <2>3. /\ Made(e) /\ pc[e] \notin Early /\ From(e, need'[g]) /\ Sound(entry[e])
        /\ entry[e] \in Entry /\ entry[e].ttl \in Nat
    <3>1. Made(e) /\ pc[e] \notin Early /\ From(e, fresh[p])
      BY <1>7, <2>1 DEF IInv, Store, Reach, Freshness
    <3>2. Sound(entry[e]) /\ entry[e] \in Entry /\ entry[e].ttl \in Nat
      BY <3>1, TypeFacts DEF IInv, Store, Values
    <3>3. QED
      BY <1>4, <3>1, <3>2
  <2>4. PICK where \in {"waiting", "building", "done", "threw"} : pc' = [pc EXCEPT ![g] = where]
    BY <2>2 DEF Check, Return, StartBuild
  <2>5. Post'
    <3>1. \A h \in Get : pc'[h] = pc[h] \/ pc[h] \notin Waits
      BY <1>2, <2>4 DEF Waits, IInv, Store, Types, TypeOK
    <3>2. QED
      BY <1>2, <2>2, <3>1, NoMail DEF IInv, netVars
  <2>6. ASSUME entry[e].value # None => entry[e].built > 0 /\ entry[e].value \in Value,
               Return(g, entry[e].value), entry' = entry
        PROVE  Store'
    <3>1. /\ result'[g] = entry[e].value /\ \A h \in Get \ {g} : result'[h] = result[h]
          /\ result' \in [Get -> Value \cup {None}]
          /\ pc' = [pc EXCEPT ![g] = "done"] /\ on' = on /\ reading' = reading
      BY <1>3, <2>6 DEF Return
    <3>2. Types'
      BY <1>3, <1>5, <2>6, <3>1
    <3>3. result'[g] # None => result'[g].version >= need'[g]
      BY <2>3, <2>6, <3>1 DEF From
    <3>4. QED
      BY <1>2, <1>4, <2>6, <3>1, <3>2, <3>3, MovesOn DEF IInv, storeVars
  <2>7. CASE ~Expired(entry, e) /\ Return(g, entry[e].value) /\ entry' = entry
    <3>1. ~(entry[e].ttl <= now)
      BY <2>7 DEF Expired
    <3>2. entry[e].value # None => entry[e].built > 0 /\ entry[e].value \in Value
      BY <2>3, <3>1 DEF Sound, Entry
    <3>3. QED
      BY <2>5, <2>6, <2>7, <3>2 DEF IInv
  <2>8. CASE Expired(entry, e) /\ ~IsBuilding(entry, e) /\ StartBuild(g, e, entry)
    <3>1. PICK r \in Entry : r = [entry[e] EXCEPT !.building = "running"]
      BY <2>3 DEF Entry
    <3>2. /\ r.building = "running" /\ r.built = entry[e].built /\ r.value = entry[e].value
          /\ r.ttl = entry[e].ttl
      BY <2>3, <3>1 DEF Entry
    <3>3. Sound(r) /\ entry[e].building # "running"
      BY <2>3, <2>8, <3>2 DEF Sound, IsBuilding
    <3>4. /\ entry' = [entry EXCEPT ![e] = r] /\ pc' = [pc EXCEPT ![g] = "building"]
          /\ on' = [on EXCEPT ![g] = e] /\ reading' = [reading EXCEPT ![g] = data]
          /\ result' = result
      BY <2>8, <3>1, <1>3 DEF StartBuild
    <3>5. Types'
      <4>1. entry' \in [Get -> Entry \cup {None}] /\ on' \in [Get -> Get \cup {None}]
              /\ reading' \in [Get -> 0 .. MaxVersion] /\ result' \in [Get -> Value \cup {None}]
        BY <1>3, <3>4
      <4>2. QED
        BY <1>5, <3>4, <4>1
    <3>6. /\ \A q \in Process : l1'[q] = l1[q] \/ (l1'[q] = e /\ r.built = 0)
          /\ \A t \in timers' : t \in timers \/ t.type = "memory"
          /\ UNCHANGED <<worldVars, result, fresh>>
      BY <1>2, <3>4
    <3>7. QED
      BY <1>2, <1>4, <2>3, <2>5, <3>2, <3>3, <3>4, <3>5, <3>6, BuildKeeps DEF IInv
  <2>9. CASE /\ Expired(entry, e) /\ IsBuilding(entry, e) /\ entry' = entry
             /\ entry[e].built > 0 /\ Return(g, entry[e].value)
    BY <2>3, <2>5, <2>6, <2>9 DEF Sound, IInv
  <2>10. CASE /\ Expired(entry, e) /\ IsBuilding(entry, e) /\ entry' = entry
              /\ pc' = [pc EXCEPT ![g] =
                          IF entry[e].building = "failed" THEN "threw" ELSE "waiting"]
              /\ on' = [on EXCEPT ![g] = e]
              /\ UNCHANGED <<reading, result>>
    <3>1. /\ on'[g] = e /\ on' \in [Get -> Get \cup {None}]
          /\ \A h \in Get \ {g} : on'[h] = on[h] /\ result'[h] = result[h]
      BY <1>3, <2>10
    <3>2. PICK there \in {"waiting", "threw"} :
            /\ pc' = [pc EXCEPT ![g] = there]
            /\ there = "waiting" => entry[e].building = "running"
      BY <2>3, <2>10 DEF IsBuilding, Entry
    <3>3. Types'
      BY <1>3, <1>5, <2>10, <3>1, <3>2
    <3>4. BuilderFrom(e, need'[g])
      BY <2>3 DEF From
    <3>5. there = "waiting" =>
           /\ on'[g] \in Get /\ Made(on'[g]) /\ pc[on'[g]] \notin Early
           /\ entry[on'[g]].building = "running" /\ BuilderFrom(on'[g], need'[g])
      BY <2>3, <3>1, <3>2, <3>4
    <3>6. UNCHANGED <<worldVars, storeVars, reading, fresh>>
      BY <1>2, <2>10 DEF storeVars
    <3>7. QED
      BY <1>2, <1>4, <2>5, <3>1, <3>2, <3>3, <3>5, <3>6, MovesOn DEF IInv
  <2>11. QED
    BY <2>2, <2>7, <2>8, <2>9, <2>10 DEF Check
<1>8. QED
  BY <1>6, <1>7

\* The messages are enabled, and the entry of the broker is asked for.
LEMMA EnabledAckKeeps ==
  ASSUME IInv, NEW p \in Process, enabledAck(p)
  PROVE  IInv'
<1>1. PICK m \in Message, g \in Get : m = Head(toClient[p]) /\ g = m.of /\ Names(m, g)
  <2>1. Head(toClient[p]) \in Message /\ Head(toClient[p]).type = "Enabled"
    BY PostAt DEF enabledAck, Arrives, IInv
  <2>2. QED
    BY <2>1, MessageFields DEF Untagged
<1>2. PICK n \in Message : n = [type |-> "GetCache", of |-> g]
  BY MessageTypes
<1>3. /\ Arrives(p, "Enabled") /\ Send(p, n) /\ pc' = [pc EXCEPT ![g] = "fetching"]
      /\ UNCHANGED <<worldVars, storeVars, brokerVars, on, reading, result, need, asked, history>>
  BY <1>1, <1>2 DEF enabledAck
<1> DEFINE s == toClient[p]
           t == toBroker[p]
<1>4. /\ s \in Seq(Message) /\ t \in Seq(Message) /\ Channels(s, t, p, pc)
      /\ s # <<>> /\ Head(s).type = "Enabled" /\ Names(Head(s), g)
  BY <1>1, <1>3, PostAt DEF IInv, Arrives
<1>5. /\ toClient' = [toClient EXCEPT ![p] = Tail(s)]
      /\ toBroker' = [toBroker EXCEPT ![p] = Append(t, n)]
  BY <1>3 DEF Arrives, Send
<1> HIDE DEF s, t
<1>6. /\ Tail(s) \in Seq(Message)
      /\ Channels(Tail(s), t, p, pc)
      /\ ProcessOf[g] = p /\ pc[g] = Awaits("Enabled")
      /\ Silent(Tail(s), g) /\ Silent(t, g)
  BY <1>4, TakeFirst
<1>7. pc[g] = "enabling" /\ pc[g] \in Early
  BY <1>6 DEF Awaits, Early
<1>8. pc'[g] = "fetching" /\ \A h \in Get \ {g} : pc'[h] = pc[h]
  BY <1>3 DEF IInv, Store, Types, TypeOK
<1>9. Channels(t, Tail(s), p, pc')
  <2>1. Channels(Tail(s), t, p, pc')
    BY <1>6, <1>8, SilentMoves
  <2>2. QED
    BY <2>1, ChannelsCommute
<1>10. Append(t, n) \in Seq(Message) /\ Channels(Append(t, n), Tail(s), p, pc')
  <2>1. \A h \in Get : Names(n, h) => h = g
    BY <1>2 DEF Names
  <2>2. Awaits(n.type) = "fetching"
    BY <1>2 DEF Awaits
  <2>3. QED
    BY <1>4, <1>6, <1>8, <1>9, <2>1, <2>2, AddLast
<1>11. Post'
  BY <1>5, <1>6, <1>8, <1>10, PostOfOne DEF IInv
<1>12. Types'
  BY <1>3 DEF IInv, Store, Types, TypeOK, worldVars, storeVars, brokerVars, history
<1>13. UNCHANGED <<worldVars, storeVars, on, reading, result, need, fresh>>
  BY <1>3 DEF history
<1>14. need[g] <= data
  BY DEF IInv, Store, Bounds
<1>15. Store'
  BY <1>3, <1>7, <1>12, <1>13, <1>14, MovesOn DEF IInv
<1>16. QED
  BY <1>11, <1>15 DEF IInv

\* The call for which the broker has answered, and where it was.
LEMMA AnswerFor ==
  ASSUME IInv, NEW p \in Process, NEW type \in {"Value", "Ack"}, Arrives(p, type)
  PROVE  /\ Head(toClient[p]) \in Message
         /\ Head(toClient[p]).of \in Get
         /\ Names(Head(toClient[p]), Head(toClient[p]).of)
<1>1. Head(toClient[p]) \in Message /\ Head(toClient[p]).type = type
  BY PostAt DEF Arrives, IInv
<1>2. QED
  BY <1>1, MessageFields DEF Untagged

\* The entry that is made of the answer has no builder and has expired: what the
\* broker stores as the ttl is a duration.
LEMMA FetchedKeeps ==
  ASSUME IInv, NEW p \in Process, fetched(p)
  PROVE  IInv'
<1>1. Arrives(p, "Value")
  BY DEF fetched
<1>2. PICK m \in Message, g \in Get : m = Head(toClient[p]) /\ g = m.of /\ Names(m, g)
  BY <1>1, AnswerFor
<1>3. m.stored \in Stored \cup {None}
  BY <1>1, <1>2, MessageFields DEF Arrives
<1>4. /\ l1 \in [Process -> Get \cup {None}] /\ now \in Nat /\ now > Ttl /\ Ttl \in Time
      /\ now + Ttl \in Time /\ Ttl \in Nat /\ InMemoryTtl \in Nat
      /\ entry \in [Get -> Entry \cup {None}] /\ result \in [Get -> Value \cup {None}]
      /\ reading \in [Get -> 0 .. MaxVersion] /\ on \in [Get -> Get \cup {None}]
      /\ data \in 0 .. MaxVersion /\ timers \subseteq Timer
  BY TypeFacts, ConstantTypes DEF IInv, Store, Types, TypeOK
<1>5. PICK first \in Entry :
        /\ first.built = 0 /\ first.building = "no"
        /\ first.value = None \/ first.ttl <= now
        /\ \/ StartBuild(g, g, [entry EXCEPT ![g] = first])
           \/ first.ttl <= now /\ Check(g, g, [entry EXCEPT ![g] = first])
  <2>1. CASE m.stored = None
    <3>1. PICK first \in Entry : first = [value |-> None, ttl |-> now + Ttl, built |-> 0, building |-> "no"]
      BY <1>4 DEF Entry
    <3>2. StartBuild(g, g, [entry EXCEPT ![g] = first])
      BY <1>2, <2>1, <3>1 DEF fetched
    <3>3. QED
      BY <3>1, <3>2
  <2>2. CASE m.stored # None
    <3>1. m.stored \in Stored /\ TtlOf(m.stored) = Ttl
      BY <1>3, <2>2 DEF Stored, TtlOf
    <3>2. PICK first \in Entry :
            first = [value |-> m.stored.value, ttl |-> Ttl, built |-> 0, building |-> "no"]
      BY <1>4, <3>1 DEF Entry, Stored
    <3>3. Check(g, g, [entry EXCEPT ![g] = first])
      BY <1>2, <2>2, <3>1, <3>2 DEF fetched
    <3>4. first.built = 0 /\ first.building = "no" /\ first.ttl <= now
      BY <1>4, <3>2
    <3>5. QED
      BY <3>3, <3>4
  <2>3. QED
    BY <2>1, <2>2
<1>6. StartBuild(g, g, [entry EXCEPT ![g] = first])
  <2>1. [entry EXCEPT ![g] = first][g] = first
    BY <1>4
  <2>2. QED
    BY <1>5, <2>1 DEF Check, Expired, IsBuilding
<1>7. PICK r \in Entry : r = [first EXCEPT !.building = "running"]
  BY DEF Entry
<1>8. /\ r.building = "running" /\ r.built = 0 /\ r.value = first.value /\ r.ttl = first.ttl
  BY <1>5, <1>7 DEF Entry
<1>9. Sound(r)
  BY <1>5, <1>8 DEF Sound
<1>10. /\ entry' = [entry EXCEPT ![g] = r] /\ pc' = [pc EXCEPT ![g] = "building"]
       /\ on' = [on EXCEPT ![g] = g] /\ reading' = [reading EXCEPT ![g] = data]
       /\ result' = result
  BY <1>4, <1>6, <1>7 DEF StartBuild
<1>11. UNCHANGED <<worldVars, brokerVars, toBroker, need, asked, fresh>> /\ StoreSet(p, g)
  BY <1>2 DEF fetched, history
<1>12. /\ l1' \in [Process -> Get \cup {None}] /\ timers' \subseteq Timer
       /\ \A q \in Process : l1'[q] = l1[q] \/ l1'[q] = g
       /\ \A t \in timers' : t \in timers \/ t.type = "memory"
  BY <1>4, <1>11 DEF StoreSet, Timer
<1>13. Types'
  <2>1. /\ entry' \in [Get -> Entry \cup {None}] /\ on' \in [Get -> Get \cup {None}]
        /\ reading' \in [Get -> 0 .. MaxVersion] /\ result' \in [Get -> Value \cup {None}]
    BY <1>4, <1>10
  <2>2. QED
    BY <1>10, <1>11, <1>12, <2>1 DEF IInv, Store, Types, TypeOK, worldVars, brokerVars
<1>14. Post' /\ pc[g] = "fetching"
  <2>1. \A h \in Get \ {g} : pc'[h] = pc[h]
    BY <1>10 DEF IInv, Store, Types, TypeOK
  <2>2. Post' /\ pc[g] = Awaits("Value")
    BY <1>1, <1>2, <1>11, <2>1, Taken DEF IInv
  <2>3. QED
    BY <2>2 DEF Awaits
<1>15. pc[g] \in Early /\ need[g] <= data
  BY <1>14 DEF Early, IInv, Store, Bounds
<1>16. Store'
  BY <1>8, <1>9, <1>10, <1>11, <1>12, <1>13, <1>15, BuildKeeps DEF IInv
<1>17. QED
  BY <1>14, <1>16 DEF IInv

\* The value is stored, and returned as the entry has it by now.
LEMMA StoredKeeps ==
  ASSUME IInv, NEW p \in Process, stored(p)
  PROVE  IInv'
<1>1. Arrives(p, "Ack")
  BY DEF stored
<1>2. PICK g \in Get : g = Head(toClient[p]).of /\ Names(Head(toClient[p]), g)
  BY <1>1, AnswerFor
<1>3. /\ Return(g, entry[on[g]].value)
      /\ UNCHANGED <<worldVars, storeVars, brokerVars, toBroker, need, asked, fresh>>
  BY <1>2 DEF stored, history
<1>4. pc' = [pc EXCEPT ![g] = "done"] /\ on' = on /\ reading' = reading
  BY <1>3 DEF Return
<1>5. Post' /\ pc[g] = "storing"
  <2>1. \A h \in Get \ {g} : pc'[h] = pc[h]
    BY <1>4 DEF IInv, Store, Types, TypeOK
  <2>2. Post' /\ pc[g] = Awaits("Ack")
    BY <1>1, <1>2, <1>3, <2>1, Taken DEF IInv
  <2>3. QED
    BY <2>2 DEF Awaits
<1>6. PICK e \in Get : e = on[g] /\ Made(e) /\ entry[e].built > 0 /\ From(e, need[g])
  BY <1>5 DEF IInv, Store, Freshness, Reach, Using
<1>7. entry[e].value \in Value /\ entry[e].value.version >= need[g]
  BY <1>6 DEF IInv, Store, Values, Sound, From
<1>8. /\ result'[g] = entry[e].value /\ \A h \in Get \ {g} : result'[h] = result[h]
      /\ result' \in [Get -> Value \cup {None}]
  BY <1>3, <1>6, <1>7 DEF Return, IInv, Store, Types, TypeOK
<1>9. Types'
  BY <1>3, <1>4, <1>8 DEF IInv, Store, Types, TypeOK, worldVars, storeVars, brokerVars
<1>10. need[g] <= data
  BY DEF IInv, Store, Bounds
<1>11. UNCHANGED <<worldVars, storeVars, on, reading, need, fresh>>
  BY <1>3, <1>4
<1>12. Store'
  BY <1>4, <1>5, <1>7, <1>8, <1>9, <1>10, <1>11, MovesOn DEF IInv
<1>13. QED
  BY <1>5, <1>12 DEF IInv

LEMMA BuilderKeeps ==
  ASSUME IInv, NEW g \in Get, built(g) \/ failed(g)
  PROVE  IInv'
<1>1. PICK e \in Get : e = on[g] /\ entry[e] \in Entry /\ pc[g] = "building"
  BY TypeFacts DEF built, failed, IInv, Store, Reach, Using
<1>2. PICK v \in Value : v = [version |-> reading[g], at |-> now]
  BY TypeFacts DEF IInv, Store, Types, Value
<1>3. /\ entry \in [Get -> Entry \cup {None}] /\ result \in [Get -> Value \cup {None}]
      /\ now + Ttl \in Time
  BY TypeFacts DEF IInv, Store, Types, TypeOK
<1>4. CASE built(g)
  <2> DEFINE Told(w) == \/ pc'[w] = "done" /\ pc[w] = "waiting" /\ w # g
                        \/ pc'[w] = "storing" /\ w = g
                        \/ pc'[w] = pc[w] /\ w # g
  <2>0. /\ pc' = [w \in Get |-> CASE w = g -> "storing"
                                     [] w \in { u \in Get : pc[u] = "waiting" /\ on[u] = e } -> "done"
                                     [] OTHER -> pc[w]]
        /\ result' = [w \in Get |-> IF w \in { u \in Get : pc[u] = "waiting" /\ on[u] = e }
                                    THEN v ELSE result[w]]
    BY <1>1, <1>2, <1>4 DEF built
  <2>1. /\ entry' = [entry EXCEPT ![e] = [value |-> v, ttl |-> now + Ttl,
                                          built |-> @.built + 1, building |-> "no"]]
        /\ \A w \in Get : Told(w)
        /\ DOMAIN pc' = Get /\ pc' = [w \in Get |-> pc'[w]]
        /\ result' \in [Get -> Value \cup {None}]
        /\ Send(ProcessOf[g], [type |-> "SetCache", of |-> g, value |-> v])
        /\ UNCHANGED <<worldVars, l1, timers, brokerVars, toClient, on, reading, need, asked, history>>
    <3>1. /\ \A w \in Get : Told(w)
          /\ DOMAIN pc' = Get /\ pc' = [w \in Get |-> pc'[w]]
      <4>1. ASSUME NEW w \in Get
            PROVE  Told(w)
        <5>1. pc'[w] = CASE w = g -> "storing"
                         [] w \in { u \in Get : pc[u] = "waiting" /\ on[u] = e } -> "done"
                         [] OTHER -> pc[w]
          BY <2>0
        <5>2. CASE w = g
          BY <5>1, <5>2, <1>1
        <5>3. CASE w # g /\ pc[w] = "waiting" /\ on[w] = e
          BY <5>1, <5>3
        <5>4. CASE w # g /\ ~(pc[w] = "waiting" /\ on[w] = e)
          BY <5>1, <5>4
        <5>5. QED
          BY <5>2, <5>3, <5>4
      <4>2. DOMAIN pc' = Get /\ pc' = [w \in Get |-> pc'[w]]
        BY <2>0
      <4>3. QED
        BY <4>1, <4>2
    <3>2. result' \in [Get -> Value \cup {None}]
      BY <1>3, <2>0
    <3>3. entry' = [entry EXCEPT ![e] = [value |-> v, ttl |-> now + Ttl,
                                          built |-> @.built + 1, building |-> "no"]]
      BY <1>1, <1>2, <1>4 DEF built, NoPromise
    <3>4. /\ Send(ProcessOf[g], [type |-> "SetCache", of |-> g, value |-> v])
          /\ UNCHANGED <<worldVars, l1, timers, brokerVars, toClient, on, reading, need, asked, history>>
      BY <1>2, <1>4 DEF built
    <3>5. QED
      BY <3>1, <3>2, <3>3, <3>4
  <2>2. entry' \in [Get -> Entry \cup {None}]
    <3>1. [value |-> v, ttl |-> now + Ttl, built |-> entry[e].built + 1, building |-> "no"] \in Entry
      BY <1>1, <1>3 DEF Entry
    <3>2. QED
      BY <1>3, <2>1, <3>1
  <2>3. Types'
    <3>1. pc' \in [Get -> {"new", "enabling", "fetching", "waiting", "building", "storing",
                           "done", "threw"}]
      BY <2>1 DEF IInv, Store, Types, TypeOK
    <3>2. QED
      BY <2>1, <2>2, <3>1 DEF IInv, Store, Types, TypeOK, worldVars, brokerVars, history
  <2>4. Store'
    BY <1>4, <2>3, BuiltKeeps DEF IInv
  <2>5. PICK p \in Process, m \in Message :
          p = ProcessOf[g] /\ m = [type |-> "SetCache", of |-> g, value |-> v]
    BY BrokerCacheAssumption, MessageTypes
  <2>6. \A h \in Get : Names(m, h) =>
           ProcessOf[h] = p /\ pc[h] \notin Waits /\ pc'[h] = Awaits(m.type)
    BY <1>1, <2>1, <2>5 DEF Names, Waits, Awaits
  <2>7. \A h \in Get : pc'[h] = pc[h] \/ pc[h] \notin Waits
    BY <1>1, <2>1 DEF Waits
  <2>8. Post'
    BY <2>1, <2>5, <2>6, <2>7, Sent DEF IInv
  <2>9. QED
    BY <2>4, <2>8 DEF IInv
<1>5. CASE failed(g)
  <2>1. /\ entry' = [entry EXCEPT ![e].building = "failed"]
        /\ pc' = [w \in Get |-> IF w = g \/ (pc[w] = "waiting" /\ on[w] = on[g])
                             THEN "threw" ELSE pc[w]]
        /\ UNCHANGED <<worldVars, l1, timers, brokerVars, netVars, on, reading, result, need, asked,
                   history>>
    BY <1>1, <1>5 DEF failed
  <2>2. entry' \in [Get -> Entry \cup {None}]
    <3>1. [entry[e] EXCEPT !.building = "failed"] \in Entry
      BY <1>1 DEF Entry
    <3>2. QED
      BY <1>3, <2>1, <3>1
  <2>3. Types'
    <3>1. pc' \in [Get -> {"new", "enabling", "fetching", "waiting", "building", "storing",
                           "done", "threw"}]
      BY <2>1 DEF IInv, Store, Types, TypeOK
    <3>2. QED
      BY <2>1, <2>2, <3>1 DEF IInv, Store, Types, TypeOK, worldVars, brokerVars, history
  <2>4. Store'
    BY <1>5, <2>3, FailedKeeps DEF IInv
  <2>5. \A h \in Get : pc'[h] = pc[h] \/ pc[h] \notin Waits
    BY <1>1, <2>1 DEF Waits
  <2>6. Post'
    BY <2>1, <2>5, NoMail DEF IInv
  <2>7. QED
    BY <2>4, <2>6 DEF IInv
<1>6. QED
  BY <1>4, <1>5

LEMMA InvalidationsKeep ==
  ASSUME IInv, NEW p \in Process, invalidate(p) \/ invalidated(p)
  PROVE  IInv'
<1>1. /\ StoreInvalidate(p) /\ UNCHANGED <<worldVars, getVars, l2, enabled, asked>>
  BY DEF invalidate, invalidated, brokerVars
<1>2. Store'
  BY <1>1, InvalidationKeeps DEF IInv, Store, Types, TypeOK
<1>3. CASE invalidate(p)
  <2>1. PICK m \in Message : m = [type |-> "InvalidateCache"]
    BY MessageTypes DEF Untagged
  <2>2. Send(p, m) /\ UNCHANGED toClient /\ \A g \in Get : ~Names(m, g) /\ pc'[g] = pc[g]
    BY <1>3, <2>1 DEF invalidate, Names, Untagged, getVars
  <2>3. Post'
    BY <2>1, <2>2, Sent DEF IInv
  <2>4. QED
    BY <1>2, <2>3 DEF IInv
<1>4. CASE invalidated(p)
  <2>1. PICK s \in Seq(Message), t \in Seq(Message) :
          s = toClient[p] /\ t = toBroker[p] /\ Channels(s, t, p, pc)
    BY PostAt DEF IInv
  <2>2. s # <<>> /\ toClient' = [toClient EXCEPT ![p] = Tail(s)]
    BY <1>4, <2>1 DEF invalidated, Arrives
  <2>3. toBroker' = [toBroker EXCEPT ![p] = t] /\ pc' = pc
    BY <1>4, <2>1 DEF invalidated, getVars, IInv, Post
  <2>4. Tail(s) \in Seq(Message) /\ Channels(Tail(s), t, p, pc)
    BY <2>1, <2>2, TakeFirst
  <2>5. Channels(t, Tail(s), p, pc')
    BY <2>3, <2>4, ChannelsCommute
  <2>6. Post'
    BY <2>2, <2>3, <2>4, <2>5, PostOfOne DEF IInv
  <2>7. QED
    BY <1>2, <2>6 DEF IInv
<1>5. QED
  BY <1>3, <1>4

LEMMA TimersKeep ==
  ASSUME IInv, NEW t \in timers, memoryTimer(t) \/ staleTimer(t)
  PROVE  IInv'
<1>1. Store'
  BY TimerKeeps DEF IInv
<1>2. UNCHANGED <<netVars, pc>>
  BY DEF memoryTimer, staleTimer, getVars
<1>3. Post'
  BY <1>2, NoMail DEF IInv
<1>4. QED
  BY <1>1, <1>3 DEF IInv

\* What the broker answers has the types that the handlers of the answers rely on.
LEMMA BrokerKeeps ==
  ASSUME IInv, NEW p \in Process, Broker(p)
  PROVE  IInv'
<1>1. /\ UNCHANGED <<worldVars, storeVars, getVars, asked, fresh>>
      /\ toBroker[p] # <<>> /\ toBroker' = [toBroker EXCEPT ![p] = Tail(@)]
  BY DEF Broker, handleEnable, handleGetCache, handleSetCache, handleInvalidateCache, Handles, history
<1>2. PICK m \in Message : m = Head(toBroker[p])
  BY <1>1, PostAt DEF IInv
<1>3. l2 \in Stored \cup {None} /\ enabled \subseteq Process
  BY DEF IInv, Store, Types, TypeOK
<1>4. l2' \in Stored \cup {None} /\ enabled' \subseteq Process
  <2>1. CASE handleSetCache(p)
    <3>1. m.value \in Value /\ l2' = [value |-> m.value, ttl |-> Ttl] /\ enabled' = enabled
      BY <1>2, <2>1, MessageFields DEF handleSetCache, Handles
    <3>2. QED
      BY <1>3, <3>1 DEF Stored
  <2>2. CASE ~handleSetCache(p)
    BY <1>3, <2>2 DEF Broker, handleEnable, handleGetCache, handleInvalidateCache, brokerVars
  <2>3. QED
    BY <2>1, <2>2
<1>5. Types'
  <2>1. l2' = None \/ l2' \in [value : Value, ttl : Time]
    BY <1>4, ConstantTypes DEF Stored
  <2>2. QED
    BY <1>1, <1>4, <2>1 DEF IInv, Store, Types, TypeOK, worldVars, storeVars, getVars
<1>6. Store'
  <2>1. now \in Nat /\ data \in Nat /\ now' = now /\ data' = data
    BY <1>1, TypeFacts, ConstantTypes DEF IInv, Store, worldVars
  <2>2. now' >= now /\ data' >= data
    BY <2>1
  <2>3. QED
    BY <1>1, <1>5, <2>2, WorldKeeps DEF IInv
<1>7. pc' = pc
  BY <1>1 DEF getVars
<1>8. CASE handleEnable(p) \/ handleGetCache(p) \/ handleSetCache(p)
  <2>1. m.type \in {"Enable", "GetCache", "SetCache"}
    BY <1>2, <1>8 DEF handleEnable, handleGetCache, handleSetCache, Handles
  <2>2. m.type \notin Untagged /\ m.of \in Get
    BY <2>1, MessageFields DEF Untagged
  <2>3. PICK n \in Message :
          /\ n.of = m.of /\ n.type \notin Untagged /\ Awaits(n.type) = Awaits(m.type)
          /\ Reply(p, n)
    <3>1. CASE handleEnable(p)
      <4>1. PICK n \in Message : n = [type |-> "Enabled", of |-> m.of]
        BY <2>2, MessageTypes
      <4>2. m.type = "Enable" /\ Reply(p, n)
        BY <1>2, <3>1, <4>1 DEF handleEnable, Handles
      <4>3. QED
        BY <4>1, <4>2 DEF Awaits, Untagged
    <3>2. CASE handleGetCache(p)
      <4>1. PICK n \in Message : n = [type |-> "Value", of |-> m.of, stored |-> l2]
        BY <1>3, <2>2, MessageTypes
      <4>2. m.type = "GetCache" /\ Reply(p, n)
        BY <1>2, <3>2, <4>1 DEF handleGetCache, Handles
      <4>3. QED
        BY <4>1, <4>2 DEF Awaits, Untagged
    <3>3. CASE handleSetCache(p)
      <4>1. PICK n \in Message : n = [type |-> "Ack", of |-> m.of]
        BY <2>2, MessageTypes
      <4>2. m.type = "SetCache" /\ Reply(p, n)
        BY <1>2, <3>3, <4>1 DEF handleSetCache, Handles
      <4>3. QED
        BY <4>1, <4>2 DEF Awaits, Untagged
    <3>4. QED
      BY <1>8, <3>1, <3>2, <3>3
  <2>4. Post'
    BY <1>1, <1>2, <1>7, <2>2, <2>3, Answered DEF IInv
  <2>5. QED
    BY <1>6, <2>4 DEF IInv
<1>9. CASE handleInvalidateCache(p)
  <2>1. PICK n \in Message : n = [type |-> "Invalidation"]
    BY MessageTypes DEF Untagged
  <2>2. \A g \in Get : ~Names(n, g)
    BY <2>1 DEF Names, Untagged
  <2>3. \/ toClient' = toClient
        \/ toClient' = [q \in Process |-> IF q \in enabled THEN Append(toClient[q], n) ELSE toClient[q]]
    BY <1>9, <2>1 DEF handleInvalidateCache
  <2>4. ASSUME NEW q \in Process
        PROVE  /\ toBroker'[q] \in Seq(Message) /\ toClient'[q] \in Seq(Message)
               /\ Channels(toBroker'[q], toClient'[q], q, pc)
    <3>1. PICK s \in Seq(Message), t \in Seq(Message) :
            s = toBroker[q] /\ t = toClient[q] /\ Channels(s, t, q, pc)
      BY PostAt DEF IInv
    <3>2. PICK u \in Seq(Message) : u = toBroker'[q] /\ Channels(u, t, q, pc)
      <4>1. CASE q = p
        <5>1. toBroker'[q] = Tail(s) /\ s # <<>>
          BY <1>1, <3>1, <4>1 DEF IInv, Post
        <5>2. QED
          BY <3>1, <5>1, TakeFirst
      <4>2. CASE q # p
        BY <1>1, <3>1, <4>2 DEF IInv, Post
      <4>3. QED
        BY <4>1, <4>2
    <3>3. Append(t, n) \in Seq(Message) /\ Channels(u, Append(t, n), q, pc)
      <4>1. Channels(t, u, q, pc)
        BY <3>2, ChannelsCommute
      <4>2. Append(t, n) \in Seq(Message) /\ Channels(Append(t, n), u, q, pc)
        BY <2>2, <4>1, AddLast
      <4>3. QED
        BY <4>2, ChannelsCommute
    <3>4. toClient'[q] = t \/ toClient'[q] = Append(t, n)
      BY <2>3, <3>1
    <3>5. QED
      BY <3>2, <3>3, <3>4
  <2>5. Post'
    <3>1. DOMAIN toBroker' = Process /\ toBroker' = [q \in Process |-> toBroker'[q]]
      BY <1>1 DEF IInv, Post
    <3>2. toClient' = [q \in Process |-> toClient'[q]]
      BY <2>3 DEF IInv, Post
    <3>3. QED
      BY <1>7, <2>4, <3>1, <3>2 DEF Post
  <2>6. QED
    BY <1>6, <2>5 DEF IInv
<1>10. QED
  BY <1>8, <1>9 DEF Broker

LEMMA WorldMoves ==
  ASSUME IInv, tick \/ write \/ UNCHANGED vars
  PROVE  IInv'
<1>1. UNCHANGED <<maxStale, storeVars, brokerVars, netVars, getVars, asked, history>>
  BY DEF tick, write, vars, worldVars
<1>2. /\ now \in Start .. MaxNow /\ data \in 0 .. MaxVersion /\ Start \in Nat
      /\ MaxNow \in Nat /\ MaxVersion \in Nat
  BY ConstantTypes DEF IInv, Store, Types, TypeOK
<1>3. now' >= now /\ data' >= data /\ now' \in Start .. MaxNow /\ data' \in 0 .. MaxVersion
  BY <1>2 DEF tick, write, vars, worldVars
<1>4. Types'
  BY <1>1, <1>3 DEF IInv, Store, Types, TypeOK, storeVars, brokerVars, getVars, history
<1>5. Store'
  BY <1>1, <1>3, <1>4, WorldKeeps DEF IInv, history
<1>6. Post'
  BY <1>1, NoMail DEF IInv, getVars
<1>7. QED
  BY <1>5, <1>6 DEF IInv

LEMMA NextIInv == IInv /\ [Next]_vars => IInv'
<1> SUFFICES ASSUME IInv, [Next]_vars PROVE IInv'
  OBVIOUS
<1>1. ASSUME NEW g \in Get, get(g) \/ built(g) \/ failed(g) PROVE IInv'
  BY <1>1, GetKeeps, BuilderKeeps
<1>2. ASSUME NEW p \in Process, Client(p) \/ Broker(p) \/ invalidate(p) PROVE IInv'
  BY <1>2, EnabledAckKeeps, FetchedKeeps, StoredKeeps, InvalidationsKeep, BrokerKeeps DEF Client
<1>3. ASSUME NEW t \in timers, memoryTimer(t) \/ staleTimer(t) PROVE IInv'
  BY <1>3, TimersKeep
<1>4. CASE tick \/ write \/ UNCHANGED vars
  BY <1>4, WorldMoves
<1>5. QED
  BY <1>1, <1>2, <1>3, <1>4 DEF Next

LEMMA SpecIInv == Spec => []IInv
BY InitStore, NextIInv, PTL DEF Spec

-----------------------------------------------------------------------------
\* No get() returns a version older than an invalidation that has reached its process
\* before the call and is past maxStale: for any number of processes and calls, builders
\* that fail, and every order in which the messages and the timers come.
THEOREM NothingStaleReturned == Spec => []FreshAfterInvalidate
<1>1. IInv => FreshAfterInvalidate
  BY DEF IInv, Store, Freshness
<1>2. QED
  BY <1>1, SpecIInv, PTL

\* A valid entry of a process holds a value that was built less than ttl ago.
THEOREM NothingOutlivesItsTtl == Spec => []FreshWhileValid
<1>1. ASSUME IInv PROVE FreshWhileValid
  <2>1. SUFFICES ASSUME NEW p \in Process, l1[p] # None, entry[l1[p]].value # None,
                        ~Expired(entry, l1[p])
                 PROVE  now < entry[l1[p]].value.at + Ttl
    BY DEF FreshWhileValid
  <2>2. PICK e \in Get : e = l1[p] /\ Made(e)
    BY <1>1, <2>1, TypeFacts DEF IInv, Store, Reach
  <2>3. Sound(entry[e]) /\ entry[e] \in Entry /\ now \in Nat /\ entry[e].ttl \in Nat /\ Ttl \in Nat
    BY <1>1, <2>2, TypeFacts, ConstantTypes DEF IInv, Store, Values
  <2>4. entry[e].value.at \in Nat
    BY <1>1, <2>1, <2>2, <2>3, TypeFacts DEF IInv, Store, Entry
  <2>5. entry[e].ttl <= entry[e].value.at + Ttl /\ ~(entry[e].ttl <= now)
    BY <2>1, <2>2, <2>3 DEF Sound, Expired
  <2>6. QED
    BY <2>2, <2>3, <2>4, <2>5
<1>2. QED
  BY <1>1, SpecIInv, PTL

\* An entry never has two builders, and who waits for a build waits for one that runs.
THEOREM OneBuildServesAll == Spec => []BuildsShared
<1>1. IInv => BuildsShared
  BY DEF IInv, Store, Types, Flight, BuildsShared
<1>2. QED
  BY <1>1, SpecIInv, PTL

=============================================================================
