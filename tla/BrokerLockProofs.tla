-------------------------- MODULE BrokerLockProofs --------------------------
(***************************************************************************)
(* The distributed lock, for any number of items, requests and             *)
(* connections, whichever of them break and however the calls interleave.  *)
(*                                                                         *)
(* The lock objects keep the invariant of ProcessLock (P!IInv): every step *)
(* of the broker is a step of them or leaves them alone. What clients and  *)
(* broker know of a request is tied together by Consistent, which follows  *)
(* a request through its life: not sent, on its way, in the queue of the   *)
(* broker, holding or over, with the answers that are still under way.     *)
(* None of the properties is inductive without it: that a granted lock is  *)
(* listed when its answer arrives (GrantIsListed) needs that the answer    *)
(* was sent with the grant and that nothing unlocked it since, so that no  *)
(* Unlock was sent by a client that was not yet told; and that a client    *)
(* settles with the answer it gets needs that it is the only one.          *)
(***************************************************************************)
EXTENDS BrokerLock, SequenceTheorems, WellFoundedInduction, TLAPS

P == INSTANCE ProcessLockProofs WITH Lock <- Req, Ttl <- {TRUE}, Timeout <- {TRUE},
                                     Nobody <- CHOOSE x : x \notin Req

-----------------------------------------------------------------------------
(* What is left of a list of the client.                                   *)

\* A set of indices has a smallest one.
LEMMA SmallestOf ==
    ASSUME NEW T, T \subseteq Nat, T # {}
    PROVE  \E x \in T : \A y \in T : x <= y
<1> DEFINE R == { ss \in Nat \X Nat : ss[1] < ss[2] }
<1>1. IsWellFoundedOn(R, Nat)
  BY NatLessThanWellFounded DEF OpToRel
<1>2. \A x, y \in Nat : y < x => <<y, x>> \in R
  OBVIOUS
<1> HIDE DEF R
<1>3. PICK x \in T : \A y \in T : ~ (<<y, x>> \in R)
  BY <1>1, WFMin
<1>4. ASSUME NEW y \in T PROVE x <= y
  <2>1. x \in Nat /\ y \in Nat
    OBVIOUS
  <2>2. ~(y < x)
    BY <1>2, <1>3, <2>1, Zenon
  <2> QED
    BY <2>1, <2>2
<1> QED
  BY <1>4

\* In an array that may hold an item twice, arrayRemoveItem removes nothing else.
LEMMA RemoveOne ==
    ASSUME NEW S, NEW array \in Seq(S), NEW item
    PROVE  /\ arrayRemoveItem(array, item) \in Seq(S)
           /\ Items(arrayRemoveItem(array, item)) \subseteq Items(array)
           /\ Items(array) \ {item} \subseteq Items(arrayRemoveItem(array, item))
<1> DEFINE new == arrayRemoveItem(array, item)
<1>1. CASE item \notin Items(array)
  BY <1>1 DEF arrayRemoveItem
<1>2. CASE item \in Items(array)
  <2> DEFINE k == IndexOf(array, item)
             n == Len(array)
             T == { i \in DOMAIN array : array[i] = item }
  <2>1. n \in Nat /\ DOMAIN array = 1 .. n /\ \A j \in 1 .. n : array[j] \in S
    OBVIOUS
  <2>2. T \subseteq Nat /\ T # {}
    BY <1>2, <2>1 DEF Items
  <2>3. \E i \in DOMAIN array :
          array[i] = item /\ \A j \in DOMAIN array : array[j] = item => i <= j
    <3> HIDE DEF T
    <3>1. PICK i \in T : \A j \in T : i <= j
      BY <2>2, SmallestOf
    <3> QED
      BY <3>1 DEF T
  <2>4. k \in 1 .. n /\ array[k] = item
    BY <2>1, <2>3 DEF IndexOf
  <2> HIDE DEF k, n
  <2>5. new = [ i \in 1 .. (n - 1) |-> IF i < k THEN array[i] ELSE array[i + 1] ]
    BY <1>2 DEF arrayRemoveItem, k, n
  <2>6. n - 1 \in Nat /\ DOMAIN new = 1 .. (n - 1)
    BY <2>1, <2>4, <2>5
  <2> HIDE DEF new
  <2>7. \A i \in 1 .. (n - 1) : new[i] = IF i < k THEN array[i] ELSE array[i + 1]
    BY <2>5
  <2>8. ASSUME NEW i \in 1 .. (n - 1) PROVE new[i] \in Items(array) /\ new[i] \in S
    <3>1. PICK j \in 1 .. n : new[i] = array[j]
      <4>1. i \in 1 .. n /\ i + 1 \in 1 .. n
        BY <2>1
      <4> QED
        BY <2>7, <4>1
    <3> QED
      BY <2>1, <3>1 DEF Items
  <2>9. new \in Seq(S)
    <3>1. new = [ i \in 1 .. (n - 1) |-> new[i] ]
      BY <2>5
    <3> QED
      BY <2>6, <2>8, <3>1
  <2>10. Items(array) \ {item} \subseteq Items(new)
    <3> SUFFICES ASSUME NEW j \in 1 .. n, array[j] # item
                 PROVE  \E i \in 1 .. (n - 1) : new[i] = array[j]
      BY <2>1, <2>6 DEF Items
    <3>1. CASE j < k
      <4>1. j \in 1 .. (n - 1) /\ new[j] = array[j]
        BY <2>1, <2>4, <2>7, <3>1
      <4> QED
        BY <4>1
    <3>2. CASE j > k
      <4>1. j - 1 \in 1 .. (n - 1) /\ new[j - 1] = array[j]
        BY <2>1, <2>4, <2>7, <3>2
      <4> QED
        BY <4>1
    <3> QED
      BY <2>1, <2>4, <3>1, <3>2
  <2>11. Items(new) \subseteq Items(array)
    BY <2>6, <2>8 DEF Items
  <2> QED
    BY <2>9, <2>10, <2>11 DEF new
<1> QED
  BY <1>1, <1>2

-----------------------------------------------------------------------------
(* Channels: sequences of messages per connection.                         *)

ToServer == [type : {"Lock", "TryLock", "Unlock"}, req : Req]
ToClient == [type : {"ResponseLock", "ResponseLockFailed", "Error", "Ack"}, req : Req]
Packet == ToServer \cup ToClient

\* The types of the messages about r that are under way.
Kinds(channel, r) == { m.type : m \in { n \in UNION { Items(channel[c]) : c \in Conn } : n.req = r } }

\* There is one message about r at most on a connection.
OnceAbout(channel, r) ==
    \A c \in Conn : \A j, k \in DOMAIN channel[c] :
        channel[c][j].req = r /\ channel[c][k].req = r => j = k

\* Messages are on the connections of their requests.
Addressed(channel, at) == \A c \in Conn : \A m \in Items(channel[c]) : at[m.req] = c

-----------------------------------------------------------------------------
(* The invariant, request by request.                                      *)

Waits == {"acquiring", "trying"}
Served == {"held", "releasing", "stuck", "released"}

Asked(x) == Kinds(toServer, x)
Told(x) == Kinds(toClient, x)
Listed(x) == \E c \in Conn : x \in Items(locks[c])
Client(x) == IF conn[x] \in Conn THEN clientUp[conn[x]] ELSE "new"
Server(x) == conn[x] \in Conn /\ serverUp[conn[x]]
Closing(x) == x \in Items(closing)

\* What a request starts from.
NotSent(x) ==
    /\ conn[x] = None <=> call[x] = "unused"
    /\ call[x] = "unused" =>
         ~holding[x] /\ promise[x] = "none" /\ ~Listed(x) /\ Asked(x) = {} /\ Told(x) = {}

\* The request is under way: nothing has happened on the broker.
OnItsWay(x) ==
    Asked(x) \cap {"Lock", "TryLock"} # {} =>
        /\ promise[x] = "none" /\ ~holding[x] /\ ~Listed(x) /\ Told(x) = {}
        /\ OnceAbout(toServer, x)
        /\ \/ Asked(x) = {"Lock"} /\ call[x] \in {"acquiring", "failed"}
           \/ Asked(x) = {"TryLock"} /\ call[x] \in {"trying", "failed"}

\* The request waits in the queue of the broker.
InQueue(x) ==
    promise[x] = "pending" =>
        /\ ~holding[x] /\ ~Listed(x) /\ Asked(x) = {} /\ Told(x) = {}
        /\ call[x] \in {"acquiring", "failed"}

\* Answers are under way to a client that knows what they answer.
Answers(x) ==
    /\ Told(x) \cap {"ResponseLock", "ResponseLockFailed"} # {} => call[x] \in Waits
    /\ "ResponseLock" \in Told(x) => Listed(x)
    /\ Told(x) \ {"ResponseLock"} # {} => ~holding[x]
    /\ "Unlock" \in Asked(x) \/ "Ack" \in Told(x) => call[x] \in Served
    /\ "Unlock" \in Asked(x) /\ Client(x) = "up" => call[x] # "held"
    /\ call[x] \in Waits => Client(x) = "up" /\ OnceAbout(toClient, x)

\* What a tenure means for the client and the connection.
Tenure(x) ==
    /\ holding[x] => Listed(x)
    /\ call[x] = "held" /\ Client(x) = "up" /\ Server(x) => Listed(x)
    /\ call[x] = "failed" /\ Client(x) = "up" =>
         ~holding[x] /\ promise[x] # "pending" /\ Asked(x) = {}
    /\ call[x] = "released" => ~holding[x]
    /\ call[x] = "stuck" => Client(x) = "down"
    /\ holding[x] /\ ~Server(x) /\ ~Closing(x) =>
         call[x] \in {"acquiring", "failed"} /\ "ResponseLock" \notin Told(x)
    /\ holding[x] /\ Client(x) = "up" /\ Server(x) /\ call[x] \in Waits =>
         "ResponseLock" \in Told(x)
    /\ conn[x] # None => Client(x) # "new"

Consistent(x) == NotSent(x) /\ OnItsWay(x) /\ InQueue(x) /\ Answers(x) /\ Tenure(x)

\* The releaser of an item is a request of its own that was served.
OwnReleaser ==
    \A i \in Item : releaser[i] # None =>
        ItemOf[releaser[i]] = i /\ call[releaser[i]] \in {"held", "releasing", "stuck"}

\* Awaited calls: one at a time, and none while the item has a releaser.
OneByOne ==
    Sequential =>
        /\ \A x, y \in Req :
             call[x] \in Waits /\ call[y] \in Waits /\ ItemOf[x] = ItemOf[y] => x = y
        /\ \A x \in Req : call[x] \in Waits => releaser[ItemOf[x]] = None
        /\ \A x \in Req : call[x] \in {"held", "releasing"} /\ Client(x) = "up" =>
                             releaser[ItemOf[x]] = x

\* Locks are listed for the connections of their requests.
Placed(map, at) == \A c \in Conn : \A x \in Items(map[c]) : at[x] = c

Routed ==
    /\ Addressed(toServer, conn) /\ Addressed(toClient, conn)
    /\ Placed(locks, conn)

\* The types of what the broker adds to the locks of a process.
Typed ==
    /\ clientUp \in [Conn -> {"new", "up", "down"}]
    /\ serverUp \in [Conn -> BOOLEAN]
    /\ toServer \in [Conn -> Seq(ToServer)]
    /\ toClient \in [Conn -> Seq(ToClient)]
    /\ locks \in [Conn -> Seq(Req)]
    /\ closing \in Seq(Req)
    /\ conn \in [Req -> Conn \cup {None}]
    /\ call \in [Req -> Call]
    /\ releaser \in [Item -> Req \cup {None}]

IInv ==
    /\ Typed /\ Routed
    /\ \A x \in Req : Consistent(x)
    /\ OwnReleaser /\ OneByOne

\* The items of a sequence of messages.
LEMMA TailItems ==
    ASSUME NEW S, NEW s \in Seq(S), s # <<>>
    PROVE  /\ Head(s) \in S /\ Head(s) = s[1] /\ 1 \in DOMAIN s
           /\ Tail(s) \in Seq(S)
           /\ Items(s) = Items(Tail(s)) \cup {Head(s)}
           /\ \A j \in DOMAIN Tail(s) : j + 1 \in DOMAIN s /\ Tail(s)[j] = s[j + 1] /\ j + 1 # 1
<1>1. /\ Len(s) \in Nat /\ Len(s) >= 1 /\ DOMAIN s = 1 .. Len(s)
      /\ Head(s) \in S /\ Head(s) = s[1]
      /\ Tail(s) \in Seq(S) /\ Len(Tail(s)) = Len(s) - 1
      /\ DOMAIN Tail(s) = 1 .. Len(s) - 1
      /\ \A i \in 1 .. Len(s) - 1 : Tail(s)[i] = s[i + 1]
  BY HeadTailProperties, EmptySeq, LenProperties
<1>2. ASSUME NEW x PROVE x \in Items(s) <=> x \in Items(Tail(s)) \cup {Head(s)}
  <2>1. ASSUME NEW i \in DOMAIN s PROVE s[i] \in Items(Tail(s)) \cup {Head(s)}
    <3>1. CASE i = 1
      BY <1>1, <3>1
    <3>2. CASE i # 1
      <4>1. i - 1 \in DOMAIN Tail(s) /\ Tail(s)[i - 1] = s[i]
        BY <1>1, <3>2
      <4> QED
        BY <4>1 DEF Items
    <3> QED
      BY <3>1, <3>2
  <2>2. ASSUME NEW i \in DOMAIN Tail(s) PROVE Tail(s)[i] \in Items(s)
    <3>1. i + 1 \in DOMAIN s /\ Tail(s)[i] = s[i + 1]
      BY <1>1
    <3> QED
      BY <3>1 DEF Items
  <2>3. Head(s) \in Items(s)
    BY <1>1 DEF Items
  <2> QED
    BY <2>1, <2>2, <2>3 DEF Items
<1> QED
  BY <1>1, <1>2

\* The items of a typed array are typed.
LEMMA ItemsTyped == ASSUME NEW S, NEW s \in Seq(S) PROVE \A x \in Items(s) : x \in S
BY DEF Items

\* The items of a longer array.
LEMMA AppendItems ==
    ASSUME NEW S, NEW s \in Seq(S), NEW x \in S
    PROVE  /\ Append(s, x) \in Seq(S)
           /\ Items(Append(s, x)) = Items(s) \cup {x}
           /\ \A j \in DOMAIN Append(s, x) :
                (j \in DOMAIN s /\ Append(s, x)[j] = s[j])
                \/ (j = Len(s) + 1 /\ Append(s, x)[j] = x)
           /\ Len(s) + 1 \notin DOMAIN s
<1>1. /\ Len(s) \in Nat /\ DOMAIN s = 1 .. Len(s)
      /\ Append(s, x) \in Seq(S) /\ Len(Append(s, x)) = Len(s) + 1
      /\ DOMAIN Append(s, x) = 1 .. Len(s) + 1
      /\ \A i \in 1 .. Len(s) : Append(s, x)[i] = s[i]
      /\ Append(s, x)[Len(s) + 1] = x
  BY AppendProperties, LenProperties
<1>2. Items(Append(s, x)) = Items(s) \cup {x}
  <2>1. ASSUME NEW i \in 1 .. Len(s) + 1 PROVE Append(s, x)[i] \in Items(s) \cup {x}
    BY <1>1 DEF Items
  <2>2. ASSUME NEW i \in 1 .. Len(s) PROVE s[i] \in Items(Append(s, x))
    BY <1>1 DEF Items
  <2>3. x \in Items(Append(s, x))
    BY <1>1 DEF Items
  <2> QED
    BY <1>1, <2>1, <2>2, <2>3 DEF Items
<1> QED
  BY <1>1, <1>2

\* new is the channel after a message of type t about r was written to c.
Delivered(channel, new, c, t, r) ==
    /\ \A x \in Req : x # r => Kinds(new, x) = Kinds(channel, x)
    /\ \A x \in Req : x # r /\ OnceAbout(channel, x) => OnceAbout(new, x)
    /\ ~Up(c) => new = channel
    /\ Up(c) => Kinds(new, r) = Kinds(channel, r) \cup {t}
    /\ Kinds(channel, r) = {} => OnceAbout(new, r)

\* write(): the message is added behind the others, or lost.
LEMMA SentMessage ==
    ASSUME NEW S \in SUBSET Packet, NEW channel \in [Conn -> Seq(S)], NEW c \in Conn,
           NEW t, NEW r \in Req, [type |-> t, req |-> r] \in S, NEW new,
           new = Sent(channel, c, t, r)
    PROVE  /\ new \in [Conn -> Seq(S)]
           /\ Delivered(channel, new, c, t, r)
           /\ \A at : Addressed(channel, at) /\ at[r] = c => Addressed(new, at)
<1> DEFINE m == [type |-> t, req |-> r]
<1>1. CASE ~Up(c)
  <2>1. new = channel
    BY <1>1 DEF Sent, Up
  <2>2. Kinds(channel, r) = {} => OnceAbout(channel, r)
    <3> SUFFICES ASSUME Kinds(channel, r) = {}, NEW d \in Conn, NEW j \in DOMAIN channel[d],
                        channel[d][j].req = r
                 PROVE  FALSE
      BY DEF OnceAbout
    <3>1. channel[d][j] \in Items(channel[d])
      BY DEF Items
    <3> QED
      BY <3>1 DEF Kinds
  <2> QED
    BY <1>1, <2>1, <2>2 DEF Delivered
<1>2. CASE Up(c)
  <2>1. new = [channel EXCEPT ![c] = Append(@, m)]
    BY <1>2 DEF Sent, Up
  <2>2. m \in S /\ m.type = t /\ m.req = r
    OBVIOUS
  <2> HIDE DEF m
  <2>3. channel[c] \in Seq(S) /\ new[c] = Append(channel[c], m)
        /\ \A d \in Conn : d # c => new[d] = channel[d]
    BY <2>1
  <2>4. /\ new[c] \in Seq(S)
        /\ Items(new[c]) = Items(channel[c]) \cup {m}
        /\ \A j \in DOMAIN new[c] :
             (j \in DOMAIN channel[c] /\ new[c][j] = channel[c][j])
             \/ (j = Len(channel[c]) + 1 /\ new[c][j] = m)
    BY <2>2, <2>3, AppendItems
  <2>5. new \in [Conn -> Seq(S)]
    BY <2>1, <2>3, <2>4
  <2>6. ASSUME NEW d \in Conn, NEW i \in DOMAIN new[d]
        PROVE  \/ i \in DOMAIN channel[d] /\ new[d][i] = channel[d][i]
               \/ d = c /\ i = Len(channel[c]) + 1 /\ new[d][i] = m
    <3>1. CASE d = c
      BY <2>4, <3>1
    <3>2. CASE d # c
      BY <2>3, <3>2
    <3> QED
      BY <3>1, <3>2
  <2>7. ASSUME NEW d \in Conn, NEW n \in Items(new[d])
        PROVE  n \in Items(channel[d]) \/ (d = c /\ n = m)
    <3>1. CASE d = c
      BY <2>4, <3>1
    <3>2. CASE d # c
      BY <2>3, <3>2
    <3> QED
      BY <3>1, <3>2
  <2>8. ASSUME NEW x \in Req
        PROVE  Kinds(new, x) = IF x = r THEN Kinds(channel, x) \cup {t} ELSE Kinds(channel, x)
    <3>1. ASSUME NEW k PROVE k \in Kinds(new, x) <=>
                             k \in Kinds(channel, x) \/ (x = r /\ k = t)
      <4>1. k \in Kinds(new, x) <=>
              \E d \in Conn : \E n \in Items(new[d]) : n.type = k /\ n.req = x
        BY DEF Kinds
      <4>2. k \in Kinds(channel, x) <=>
              \E d \in Conn : \E n \in Items(channel[d]) : n.type = k /\ n.req = x
        BY DEF Kinds
      <4>3. ASSUME NEW d \in Conn, NEW n
            PROVE  n \in Items(new[d]) <=> n \in Items(channel[d]) \/ (d = c /\ n = m)
        <5>1. CASE d = c
          <6>1. Items(new[c]) = Items(channel[c]) \cup {m}
            BY <2>4
          <6> QED
            BY <5>1, <6>1, Zenon
        <5>2. CASE d # c
          BY <2>3, <5>2, Zenon
        <5> QED
          BY <5>1, <5>2
      <4> QED
        BY <2>2, <4>1, <4>2, <4>3
    <3> QED
      BY <3>1
  <2>9. ASSUME NEW x \in Req, x # r, OnceAbout(channel, x) PROVE OnceAbout(new, x)
    <3> SUFFICES ASSUME NEW d \in Conn, NEW j \in DOMAIN new[d], NEW k \in DOMAIN new[d],
                        new[d][j].req = x, new[d][k].req = x
                 PROVE  j = k
      BY DEF OnceAbout
    <3>1. j \in DOMAIN channel[d] /\ channel[d][j].req = x
      BY <2>2, <2>6, <2>9
    <3>2. k \in DOMAIN channel[d] /\ channel[d][k].req = x
      BY <2>2, <2>6, <2>9
    <3> QED
      BY <2>9, <3>1, <3>2 DEF OnceAbout
  <2>10. ASSUME Kinds(channel, r) = {} PROVE OnceAbout(new, r)
    <3> SUFFICES ASSUME NEW d \in Conn, NEW j \in DOMAIN new[d], NEW k \in DOMAIN new[d],
                        new[d][j].req = r, new[d][k].req = r
                 PROVE  j = k
      BY DEF OnceAbout
    <3>1. ASSUME NEW i \in DOMAIN channel[d] PROVE channel[d][i].req # r
      <4>1. channel[d][i] \in Items(channel[d])
        BY DEF Items
      <4> QED
        BY <2>10, <4>1 DEF Kinds
    <3>2. ASSUME NEW i \in DOMAIN new[d], new[d][i].req = r
          PROVE  d = c /\ i = Len(channel[c]) + 1
      BY <2>6, <3>1, <3>2
    <3> QED
      BY <3>2
  <2>11. ASSUME NEW at, Addressed(channel, at), at[r] = c
        PROVE  Addressed(new, at)
    BY <2>2, <2>7, <2>11 DEF Addressed
  <2>12. \A x \in Req : x # r => Kinds(new, x) = Kinds(channel, x)
    BY <2>8, Zenon
  <2>13. Kinds(new, r) = Kinds(channel, r) \cup {t}
    BY <2>8, Zenon
  <2>14. Delivered(channel, new, c, t, r)
    BY <1>2, <2>9, <2>10, <2>12, <2>13, Zenon DEF Delivered
  <2> QED
    BY <2>5, <2>11, <2>14, Zenon
<1> QED
  BY <1>1, <1>2

\* new is the channel after the message m was taken from the front.
Taken(channel, new, m) ==
    /\ m.type \in Kinds(channel, m.req)
    /\ \A x \in Req : x # m.req => Kinds(new, x) = Kinds(channel, x)
    /\ \A x \in Req : OnceAbout(channel, x) => OnceAbout(new, x)
    /\ Kinds(new, m.req) \subseteq Kinds(channel, m.req)
    /\ OnceAbout(channel, m.req) =>
         Kinds(channel, m.req) = {m.type} /\ Kinds(new, m.req) = {}

TakesFirst(channel, new, c, m) ==
    channel[c] # <<>> /\ new = [channel EXCEPT ![c] = Tail(@)] /\ m = Head(channel[c])

\* The first message of a connection is taken.
LEMMA TakeMessage ==
    ASSUME NEW S \in SUBSET Packet, NEW channel \in [Conn -> Seq(S)], NEW c \in Conn,
           NEW at, Addressed(channel, at), NEW new, NEW m, TakesFirst(channel, new, c, m)
    PROVE  /\ m \in S /\ m.req \in Req /\ at[m.req] = c
           /\ new \in [Conn -> Seq(S)] /\ Addressed(new, at)
           /\ Taken(channel, new, m)
<1>1. /\ channel[c] \in Seq(S) /\ channel[c] # <<>> /\ m = Head(channel[c])
      /\ new = [channel EXCEPT ![c] = Tail(@)]
      /\ new[c] = Tail(channel[c]) /\ \A d \in Conn : d # c => new[d] = channel[d]
  BY DEF TakesFirst
<1>2. /\ m \in S /\ m = channel[c][1] /\ 1 \in DOMAIN channel[c]
      /\ new[c] \in Seq(S)
      /\ Items(channel[c]) = Items(new[c]) \cup {m}
      /\ \A j \in DOMAIN new[c] : j + 1 \in DOMAIN channel[c]
                              /\ new[c][j] = channel[c][j + 1] /\ j + 1 # 1
  BY <1>1, TailItems
<1>3. m.req \in Req
  BY <1>2 DEF Packet, ToServer, ToClient
<1>4. new \in [Conn -> Seq(S)]
  BY <1>1, <1>2
<1>5. at[m.req] = c /\ Addressed(new, at)
  BY <1>1, <1>2 DEF Addressed
<1>6. ASSUME NEW x \in Req, NEW k
      PROVE  k \in Kinds(channel, x) <=> k \in Kinds(new, x) \/ (x = m.req /\ k = m.type)
  <2>1. k \in Kinds(new, x) <=>
          \E d \in Conn : \E n \in Items(new[d]) : n.type = k /\ n.req = x
    BY DEF Kinds
  <2>2. k \in Kinds(channel, x) <=>
          \E d \in Conn : \E n \in Items(channel[d]) : n.type = k /\ n.req = x
    BY DEF Kinds
  <2>3. ASSUME NEW d \in Conn, NEW n
        PROVE  n \in Items(channel[d]) <=> n \in Items(new[d]) \/ (d = c /\ n = m)
    BY <1>1, <1>2
  <2> QED
    BY <2>1, <2>2, <2>3
<1>7. ASSUME NEW x \in Req, OnceAbout(channel, x) PROVE OnceAbout(new, x)
  <2> SUFFICES ASSUME NEW d \in Conn, NEW j \in DOMAIN new[d], NEW k \in DOMAIN new[d],
                      new[d][j].req = x, new[d][k].req = x
               PROVE  j = k
    BY DEF OnceAbout
  <2>1. CASE d # c
    BY <1>1, <1>7, <2>1 DEF OnceAbout
  <2>2. CASE d = c
    <3>1. j + 1 = k + 1
      BY <1>2, <1>7, <2>2 DEF OnceAbout
    <3>2. j \in Int /\ k \in Int
      BY <1>2, <2>2, LenProperties
    <3> QED
      BY <3>1, <3>2
  <2> QED
    BY <2>1, <2>2
<1>8. ASSUME OnceAbout(channel, m.req) PROVE Kinds(new, m.req) = {}
  <2> SUFFICES ASSUME NEW d \in Conn, NEW n \in Items(new[d]), n.req = m.req PROVE FALSE
    BY DEF Kinds
  <2>1. d = c
    BY <1>5 DEF Addressed
  <2>2. PICK j \in DOMAIN new[c] : new[c][j] = n
    BY <2>1 DEF Items
  <2>3. channel[c][j + 1].req = channel[c][1].req
    BY <1>2, <2>2
  <2> QED
    BY <1>2, <1>8, <2>2, <2>3 DEF OnceAbout
<1>9. \A x \in Req : x # m.req => Kinds(new, x) = Kinds(channel, x)
  BY <1>6
<1>10. m.type \in Kinds(channel, m.req) /\ Kinds(new, m.req) \subseteq Kinds(channel, m.req)
  BY <1>3, <1>6
<1>11. OnceAbout(channel, m.req) => Kinds(channel, m.req) = {m.type}
  BY <1>3, <1>6, <1>8
<1>12. Taken(channel, new, m)
  BY <1>7, <1>8, <1>9, <1>10, <1>11 DEF Taken
<1> QED
  BY <1>2, <1>3, <1>4, <1>5, <1>12

\* new is the channel after what was under way on c is lost.
Dropped(channel, new, at, c) ==
    /\ \A x \in Req : at[x] = c => Kinds(new, x) = {}
    /\ \A x \in Req : at[x] # c => Kinds(new, x) = Kinds(channel, x)
    /\ \A x \in Req : OnceAbout(channel, x) => OnceAbout(new, x)

\* What is under way on a connection is lost.
LEMMA DropMessages ==
    ASSUME NEW S \in SUBSET Packet, NEW channel \in [Conn -> Seq(S)], NEW c \in Conn,
           NEW at, Addressed(channel, at), NEW new, new = [channel EXCEPT ![c] = <<>>]
    PROVE  /\ new \in [Conn -> Seq(S)] /\ Addressed(new, at)
           /\ Dropped(channel, new, at, c)
<1>1. new[c] = <<>> /\ \A d \in Conn : d # c => new[d] = channel[d]
  OBVIOUS
<1>2. Items(new[c]) = {} /\ DOMAIN new[c] = {}
  BY <1>1 DEF Items
<1>3. new \in [Conn -> Seq(S)]
  BY <1>1
<1>4. Addressed(new, at)
  BY <1>1, <1>2 DEF Addressed
<1>5. ASSUME NEW x \in Req, at[x] = c PROVE Kinds(new, x) = {}
  BY <1>2, <1>4, <1>5 DEF Addressed, Kinds
<1>6. ASSUME NEW x \in Req, at[x] # c PROVE Kinds(new, x) = Kinds(channel, x)
  <2>1. ASSUME NEW k PROVE k \in Kinds(new, x) <=> k \in Kinds(channel, x)
    <3>1. k \in Kinds(new, x) <=>
            \E d \in Conn : \E n \in Items(new[d]) : n.type = k /\ n.req = x
      BY DEF Kinds
    <3>2. k \in Kinds(channel, x) <=>
            \E d \in Conn : \E n \in Items(channel[d]) : n.type = k /\ n.req = x
      BY DEF Kinds
    <3>3. \A n \in Items(channel[c]) : n.req # x
      BY <1>6 DEF Addressed
    <3> QED
      BY <1>1, <1>2, <3>1, <3>2, <3>3
  <2> QED
    BY <2>1
<1>7. \A x \in Req : OnceAbout(channel, x) => OnceAbout(new, x)
  BY <1>1, <1>2 DEF OnceAbout
<1>8. Dropped(channel, new, at, c)
  BY <1>5, <1>6, <1>7 DEF Dropped
<1> QED
  BY <1>3, <1>4, <1>8

\* Nothing under way is not more than one thing.
LEMMA NoneOnce ==
    ASSUME NEW S, NEW channel \in [Conn -> Seq(S)], NEW x \in Req, Kinds(channel, x) = {}
    PROVE  OnceAbout(channel, x)
<1> SUFFICES ASSUME NEW d \in Conn, NEW j \in DOMAIN channel[d], channel[d][j].req = x
             PROVE  FALSE
  BY DEF OnceAbout
<1>1. channel[d][j] \in Items(channel[d])
  BY DEF Items
<1> QED
  BY <1>1 DEF Kinds

\* write() on the side of the client.
LEMMA SentToServer ==
    ASSUME NEW channel \in [Conn -> Seq(ToServer)], NEW c \in Conn,
           NEW t \in {"Lock", "TryLock", "Unlock"}, NEW r \in Req,
           NEW at, Addressed(channel, at), at[r] = c
    PROVE  /\ Sent(channel, c, t, r) \in [Conn -> Seq(ToServer)]
           /\ Addressed(Sent(channel, c, t, r), at)
           /\ Delivered(channel, Sent(channel, c, t, r), c, t, r)
<1>1. [type |-> t, req |-> r] \in ToServer
  BY DEF ToServer
<1>2. ToServer \in SUBSET Packet
  BY DEF Packet
<1> DEFINE new == Sent(channel, c, t, r)
<1>3. new = Sent(channel, c, t, r)
  OBVIOUS
<1> HIDE DEF new
<1>4. /\ new \in [Conn -> Seq(ToServer)]
      /\ Delivered(channel, new, c, t, r)
      /\ \A a : Addressed(channel, a) /\ a[r] = c => Addressed(new, a)
  BY <1>1, <1>2, <1>3, SentMessage
<1> QED
  BY <1>3, <1>4

\* write() on the side of the broker.
LEMMA SentToClient ==
    ASSUME NEW channel \in [Conn -> Seq(ToClient)], NEW c \in Conn,
           NEW t \in {"ResponseLock", "ResponseLockFailed", "Error", "Ack"}, NEW r \in Req,
           NEW at, Addressed(channel, at), at[r] = c
    PROVE  /\ Sent(channel, c, t, r) \in [Conn -> Seq(ToClient)]
           /\ Addressed(Sent(channel, c, t, r), at)
           /\ Delivered(channel, Sent(channel, c, t, r), c, t, r)
<1>1. [type |-> t, req |-> r] \in ToClient
  BY DEF ToClient
<1>2. ToClient \in SUBSET Packet
  BY DEF Packet
<1> DEFINE new == Sent(channel, c, t, r)
<1>3. new = Sent(channel, c, t, r)
  OBVIOUS
<1> HIDE DEF new
<1>4. /\ new \in [Conn -> Seq(ToClient)]
      /\ Delivered(channel, new, c, t, r)
      /\ \A a : Addressed(channel, a) /\ a[r] = c => Addressed(new, a)
  BY <1>1, <1>2, <1>3, SentMessage
<1> QED
  BY <1>3, <1>4

-----------------------------------------------------------------------------
(* The process lock.                                                       *)

\* The lock objects are given one id and always a ttl and a timeout.
LEMMA Ids == IdOf \in [Req -> Id] /\ {TRUE} \subseteq BOOLEAN /\ \A x \in Req : IdOf[x] = "lock"
BY DEF IdOf, Id

\* r stops holding, and next, if it is a request, starts to.
PassedOn(r, next) ==
    /\ \A x \in Req : holding'[x] <=> (holding[x] /\ x # r) \/ x = next
    /\ \A x \in Req : promise'[x] = IF x = next THEN "resolved" ELSE promise[x]
    /\ next \in Req => next # r /\ promise[next] = "pending" /\ ~holding[next]

\* unlock() passes the lock on.
LEMMA UnlockEffect ==
    ASSUME P!IInv, NEW r \in Req, Process!Unlock(r)
    PROVE  /\ holding' \in [Req -> BOOLEAN]
           /\ \E next \in Req \cup {None} : PassedOn(r, next)
<1> USE BrokerLockAssumption
<1>1. /\ holding \in [Req -> BOOLEAN] /\ promise \in [Req -> Process!Promise]
      /\ queue \in [Id -> Seq(Req)] /\ IdOf[r] \in Id
  BY Ids DEF P!IInv, P!TypeOK, P!Promise, Process!Promise
<1>2. CASE Process!HandOver(r)
  <2> DEFINE next == Head(queue[IdOf[r]])
  <2>1. queue[IdOf[r]] \in Seq(Req) /\ queue[IdOf[r]] # <<>> /\ holding[r]
    BY <1>1, <1>2 DEF Process!HandOver
  <2>2. next \in Req /\ next \in Items(queue[IdOf[r]])
    BY <2>1, TailItems DEF Items
  <2>3. promise[next] = "pending" /\ ~holding[next]
    BY <1>1, <2>2 DEF P!IInv, P!WaitersQueued, P!QueuedAreWaiting, P!Waiting, P!Items, Items
  <2>4. /\ holding' = [[holding EXCEPT ![r] = FALSE] EXCEPT ![next] = TRUE]
        /\ promise' = [promise EXCEPT ![next] = "resolved"]
    BY <1>2 DEF Process!HandOver, Process!NotHolding, Process!NextWaiter
  <2> HIDE DEF next
  <2>5. PassedOn(r, next)
    BY <1>1, <2>1, <2>2, <2>3, <2>4 DEF PassedOn
  <2> QED
    BY <1>1, <2>2, <2>4, <2>5
<1>3. CASE Process!Free(r) \/ Process!UnlockNotHeld(r)
  <2>1. promise' = promise
        /\ \/ holding' = [holding EXCEPT ![r] = FALSE]
           \/ holding' = holding /\ ~holding[r]
    BY <1>3 DEF Process!Free, Process!UnlockNotHeld, Process!NotHolding
  <2>2. PassedOn(r, None)
    BY <1>1, <2>1 DEF PassedOn
  <2> QED
    BY <1>1, <2>1, <2>2
<1> QED
  BY <1>2, <1>3 DEF Process!Unlock

\* The lock objects of the broker and those of the proofs about ProcessLock are one.
LEMMA SameProcess == Process!Next => P!Next
<1> USE Ids
<1>1. ASSUME NEW l \in Req, NEW t \in {TRUE}, Process!AcquireFree(l, t) PROVE P!Next
  <2>1. P!AcquireFree(l, t)
    BY <1>1 DEF P!AcquireFree, P!Fresh, P!Create, P!ArmTtl,
                Process!AcquireFree, Process!Fresh, Process!Create, Process!ArmTtl
  <2> QED
    BY <2>1 DEF P!Next
<1>2. ASSUME NEW l \in Req, NEW t \in {TRUE}, NEW w \in {TRUE}, Process!AcquireWait(l, t, w)
      PROVE  P!Next
  <2>1. P!AcquireWait(l, t, w)
    BY <1>2 DEF P!AcquireWait, P!Fresh, Process!AcquireWait, Process!Fresh
  <2> QED
    BY <2>1 DEF P!Next
<1>3. ASSUME NEW l \in Req, NEW t \in {TRUE}, Process!TryLockFree(l, t) PROVE P!Next
  <2>1. P!TryLockFree(l, t)
    BY <1>3 DEF P!TryLockFree, P!Fresh, P!Create, P!ArmTtl,
                Process!TryLockFree, Process!Fresh, Process!Create, Process!ArmTtl
  <2> QED
    BY <2>1 DEF P!Next
<1>4. ASSUME NEW l \in Req, Process!TryLockTaken(l) PROVE P!Next
  <2>1. P!TryLockTaken(l)
    BY <1>4 DEF P!TryLockTaken, P!Fresh, Process!TryLockTaken, Process!Fresh
  <2> QED
    BY <2>1 DEF P!Next
<1>5. ASSUME NEW l \in Req, Process!Unlock(l) PROVE P!Unlock(l)
  <2>1. CASE Process!HandOver(l)
    BY <2>1 DEF P!Unlock, P!HandOver, P!NotHolding, P!NextWaiter, P!ArmTtl, P!ClearTimeout,
                Process!HandOver, Process!NotHolding, Process!NextWaiter, Process!ArmTtl,
                Process!ClearTimeout
  <2>2. CASE Process!Free(l)
    BY <2>2 DEF P!Unlock, P!Free, P!NotHolding, P!EntryDeleted, P!ClearTimeout,
                Process!Free, Process!NotHolding, Process!EntryDeleted, Process!ClearTimeout
  <2>3. CASE Process!UnlockNotHeld(l)
    BY <2>3 DEF P!Unlock, P!UnlockNotHeld, P!ClearTimeout,
                Process!UnlockNotHeld, Process!ClearTimeout
  <2> QED
    BY <1>5, <2>1, <2>2, <2>3 DEF Process!Unlock
<1>6. ASSUME NEW l \in Req, Process!WaitTimeout(l) PROVE P!WaitTimeout(l)
  <2>1. \A a, x : P!arrayRemoveItem(a, x) = arrayRemoveItem(a, x)
    BY DEF P!arrayRemoveItem, P!Items, P!IndexOf, arrayRemoveItem, Items, IndexOf
  <2>2. \A a, x : Process!arrayRemoveItem(a, x) = arrayRemoveItem(a, x)
    BY DEF Process!arrayRemoveItem, Process!Items, Process!IndexOf,
           arrayRemoveItem, Items, IndexOf
  <2> QED
    BY <1>6, <2>1, <2>2 DEF P!WaitTimeout, P!ClearTimeout, Process!WaitTimeout,
                            Process!ClearTimeout
<1> QED
  BY <1>1, <1>2, <1>3, <1>4, <1>5, <1>6 DEF Process!Next, P!Next, Process!TtlExpire, P!TtlExpire

\* A step of a lock object is a step of ProcessLock.
LEMMA ObjectStep ==
    ASSUME NEW l \in Req,
           \/ Process!AcquireFree(l, TRUE) \/ Process!AcquireWait(l, TRUE, TRUE)
           \/ Process!TryLockFree(l, TRUE) \/ Process!TryLockTaken(l)
           \/ Process!Unlock(l) \/ Process!TtlExpire(l) \/ Process!WaitTimeout(l)
    PROVE  Process!Next
BY DEF Process!Next

-----------------------------------------------------------------------------
(* The promise reactions of a step in which next, if it is a request, starts *)
(* to hold.                                                                *)

Starts(next) == \A x \in Req : ~holding[x] /\ holding'[x] <=> x = next

\* Granted(c) is the request that starts to hold, on its connection.
LEMMA GrantedTo ==
    ASSUME NEW next \in Req \cup {None}, Starts(next), NEW c \in Conn
    PROVE  Granted(c) = IF next \in Req /\ conn[next] = c THEN <<next>> ELSE <<>>
<1> USE BrokerLockAssumption
<1> DEFINE new == { r \in Req : ~holding[r] /\ holding'[r] /\ conn[r] = c }
<1>1. CASE next \in Req /\ conn[next] = c
  <2>1. new = {next}
    BY <1>1 DEF Starts
  <2> HIDE DEF new
  <2>2. (CHOOSE r \in new : TRUE) = next /\ new # {}
    BY <2>1
  <2> QED
    BY <1>1, <2>2 DEF Granted, new
<1>2. CASE ~(next \in Req /\ conn[next] = c)
  <2>1. new = {}
    BY <1>2 DEF Starts
  <2> QED
    BY <1>2, <2>1 DEF Granted
<1> QED
  BY <1>1, <1>2

\* So the reactions list and answer that request, and no other.
LEMMA ReactionsEffect ==
    ASSUME NEW next \in Req \cup {None}, Starts(next),
           next \in Req => conn[next] \in Conn,
           NEW map, map \in [Conn -> Seq(Req)],
           NEW channel, channel \in [Conn -> Seq(ToClient)],
           Reactions(map, channel)
    PROVE  /\ next \notin Req => locks' = map /\ toClient' = channel
           /\ next \in Req =>
                /\ locks' = [map EXCEPT ![conn[next]] = Append(@, next)]
                /\ toClient' = Sent(channel, conn[next], "ResponseLock", next)
<1> USE BrokerLockAssumption
<1>1. /\ locks' = [c \in Conn |-> map[c] \o Granted(c)]
      /\ toClient' = [c \in Conn |->
           IF Granted(c) # <<>>
           THEN Sent(channel, c, "ResponseLock", Granted(c)[1])[c] ELSE channel[c]]
  BY DEF Reactions, RememberGranted
<1>2. \A c \in Conn : map[c] \in Seq(Req) /\ map[c] \o <<>> = map[c]
  BY ConcatEmptySeq
<1>3. CASE next \notin Req
  <2>1. \A c \in Conn : Granted(c) = <<>>
    BY <1>3, GrantedTo
  <2>2. locks' = map
    BY <1>1, <1>2, <2>1
  <2>3. toClient' = channel
    BY <1>1, <2>1
  <2> QED
    BY <1>3, <2>2, <2>3
<1>4. CASE next \in Req
  <2> DEFINE d == conn[next]
  <2>1. d \in Conn
    BY <1>4
  <2> HIDE DEF d
  <2>2. \A c \in Conn : Granted(c) = IF c = d THEN <<next>> ELSE <<>>
    BY <1>4, GrantedTo DEF d
  <2>3. map[d] \o <<next>> = Append(map[d], next)
    BY <1>2, <2>1
  <2>4. locks' = [map EXCEPT ![d] = Append(@, next)]
    BY <1>1, <1>2, <2>2, <2>3
  <2>5. <<next>> # <<>> /\ <<next>>[1] = next
    OBVIOUS
  <2>6. toClient' = [c \in Conn |-> IF c = d THEN Sent(channel, d, "ResponseLock", next)[d]
                                            ELSE channel[c]]
    <3>1. ASSUME NEW c \in Conn
          PROVE  (IF Granted(c) # <<>>
                  THEN Sent(channel, c, "ResponseLock", Granted(c)[1])[c] ELSE channel[c])
                 = IF c = d THEN Sent(channel, d, "ResponseLock", next)[d] ELSE channel[c]
      <4>1. CASE c = d
        <5>1. Granted(c) = <<next>>
          BY <2>2, <4>1
        <5> QED
          BY <2>5, <4>1, <5>1
      <4>2. CASE c # d
        <5>1. Granted(c) = <<>>
          BY <2>2, <4>2
        <5> QED
          BY <4>2, <5>1
      <4> QED
        BY <4>1, <4>2
    <3> QED
      BY <1>1, <3>1
  <2>7. Sent(channel, d, "ResponseLock", next)
          = [c \in Conn |-> IF c = d THEN Sent(channel, d, "ResponseLock", next)[d]
                                     ELSE channel[c]]
    BY <2>1 DEF Sent
  <2> QED
    BY <1>4, <2>4, <2>6, <2>7 DEF d
<1> QED
  BY <1>3, <1>4

\* What the reactions do to the requests, over the state the step leaves otherwise.
GrantedNext(next, map, channel) ==
    /\ locks' \in [Conn -> Seq(Req)] /\ toClient' \in [Conn -> Seq(ToClient)]
    /\ Addressed(toClient', conn) /\ Placed(locks', conn)
    /\ \A x \in Req : Listed(x)' <=> x = next \/ \E c \in Conn : x \in Items(map[c])
    /\ \A x \in Req : x # next => Told(x)' = Kinds(channel, x)
    /\ \A x \in Req : x # next /\ OnceAbout(channel, x) => OnceAbout(toClient', x)
    /\ next \in Req =>
         /\ Up(conn[next]) => Told(next)' = Kinds(channel, next) \cup {"ResponseLock"}
         /\ ~Up(conn[next]) => Told(next)' = Kinds(channel, next)
         /\ Kinds(channel, next) = {} => OnceAbout(toClient', next)

\* The lock is listed and the request answered, if the connection stands.
LEMMA Grant ==
    ASSUME NEW next \in Req \cup {None}, Starts(next), next \in Req => conn[next] \in Conn,
           NEW map, map \in [Conn -> Seq(Req)], Placed(map, conn),
           NEW channel, channel \in [Conn -> Seq(ToClient)], Addressed(channel, conn),
           Reactions(map, channel)
    PROVE  GrantedNext(next, map, channel)
<1> USE BrokerLockAssumption
<1>1. CASE next \notin Req
  <2>1. locks' = map /\ toClient' = channel
    BY <1>1, ReactionsEffect
  <2> QED
    BY <1>1, <2>1 DEF Listed, Told, GrantedNext
<1>2. CASE next \in Req
  <2> DEFINE d == conn[next]
  <2>1. /\ d \in Conn /\ conn[next] = d
        /\ locks' = [map EXCEPT ![d] = Append(@, next)]
        /\ toClient' = Sent(channel, d, "ResponseLock", next)
    BY <1>2, ReactionsEffect
  <2> HIDE DEF d
  <2>3. /\ toClient' \in [Conn -> Seq(ToClient)] /\ Addressed(toClient', conn)
        /\ Delivered(channel, toClient', d, "ResponseLock", next)
    BY <1>2, <2>1, SentToClient
  <2>4. map[d] \in Seq(Req) /\ \A c \in Conn : c # d => locks'[c] = map[c]
    BY <2>1
  <2>5. locks'[d] \in Seq(Req) /\ Items(locks'[d]) = Items(map[d]) \cup {next}
    BY <1>2, <2>1, <2>4, AppendItems
  <2>6. locks' \in [Conn -> Seq(Req)]
    BY <2>1, <2>4, <2>5
  <2>7. Placed(locks', conn)
    BY <2>1, <2>4, <2>5 DEF Placed
  <2>8. \A x \in Req : Listed(x)' <=> x = next \/ \E c \in Conn : x \in Items(map[c])
    BY <2>1, <2>4, <2>5 DEF Listed
  <2> QED
    BY <1>2, <2>1, <2>3, <2>6, <2>7, <2>8 DEF Told, Delivered, GrantedNext
<1> QED
  BY <1>1, <1>2

-----------------------------------------------------------------------------
(* What does not concern a request leaves it consistent.                   *)

Undisturbed(x) ==
    /\ conn'[x] = conn[x] /\ call'[x] = call[x]
    /\ promise'[x] = promise[x] /\ (holding'[x] <=> holding[x])
    /\ Listed(x)' <=> Listed(x)
    /\ Asked(x)' = Asked(x) /\ Told(x)' = Told(x)
    /\ Client(x)' = Client(x) /\ (Server(x)' <=> Server(x)) /\ (Closing(x)' <=> Closing(x))
    /\ OnceAbout(toServer, x) => OnceAbout(toServer, x)'
    /\ OnceAbout(toClient, x) => OnceAbout(toClient, x)'

\* A request nothing of which changes stays consistent.
LEMMA Frame == ASSUME NEW x \in Req, Consistent(x), Undisturbed(x) PROVE Consistent(x)'
<1> USE DEF Undisturbed, Consistent
<1>1. NotSent(x)'
  BY DEF NotSent
<1>2. OnItsWay(x)'
  BY DEF OnItsWay
<1>3. InQueue(x)'
  BY DEF InQueue
<1>4. Answers(x)'
  BY DEF Answers
<1>5. Tenure(x)'
  BY DEF Tenure
<1> QED
  BY <1>1, <1>2, <1>3, <1>4, <1>5

\* The types of messages.
LEMMA KindsTyped ==
    ASSUME Typed, NEW x \in Req
    PROVE  /\ Asked(x) \subseteq {"Lock", "TryLock", "Unlock"}
           /\ Told(x) \subseteq {"ResponseLock", "ResponseLockFailed", "Error", "Ack"}
<1>1. \A c \in Conn : \A m \in Items(toServer[c]) : m \in ToServer
  BY ItemsTyped DEF Typed
<1>2. \A c \in Conn : \A m \in Items(toClient[c]) : m \in ToClient
  BY ItemsTyped DEF Typed
<1>3. Asked(x) \subseteq {"Lock", "TryLock", "Unlock"}
  BY <1>1 DEF Asked, Kinds, ToServer
<1>4. Told(x) \subseteq {"ResponseLock", "ResponseLockFailed", "Error", "Ack"}
  BY <1>2 DEF Told, Kinds, ToClient
<1> QED
  BY <1>3, <1>4

\* A request of a known item is on a connection.
LEMMA SentOn == ASSUME Typed, NEW x \in Req, NotSent(x), call[x] # "unused" PROVE conn[x] \in Conn
BY BrokerLockAssumption DEF Typed, NotSent

-----------------------------------------------------------------------------
(* The steps of the client.                                                *)

\* A new connection concerns no request: none was sent on it.
LEMMA ConnectStep ==
    ASSUME IInv, NEW i \in Item, NEW c \in Conn, Connect(i, c)
    PROVE  IInv'
<1> USE BrokerLockAssumption
<1>1. /\ clientUp[c] = "new" /\ clientUp' = [clientUp EXCEPT ![c] = "up"]
      /\ serverUp' = [serverUp EXCEPT ![c] = TRUE]
      /\ UNCHANGED <<lockVars, toServer, toClient, locks, closing, clientVars>>
  BY DEF Connect
<1>2. Typed'
  BY <1>1 DEF IInv, Typed, clientVars
<1>3. Routed'
  BY <1>1 DEF IInv, Routed, Addressed, Placed, clientVars
<1>4. ASSUME NEW x \in Req PROVE conn[x] # c /\ Client(x)' = Client(x) /\ (Server(x)' <=> Server(x))
  <2>1. conn[x] # c
    BY <1>1 DEF IInv, Consistent, Tenure, Client
  <2> QED
    BY <1>1, <2>1 DEF IInv, Typed, Client, Server, clientVars
<1>5. ASSUME NEW x \in Req PROVE Consistent(x)'
  <2>1. Undisturbed(x)
    BY <1>1, <1>4 DEF Undisturbed, lockVars, clientVars, Listed, Asked, Told, Closing,
                      OnceAbout
  <2> QED
    BY <2>1, Frame DEF IInv
<1>6. OwnReleaser'
  BY <1>1 DEF IInv, OwnReleaser, clientVars
<1>7. OneByOne'
  BY <1>1, <1>4 DEF IInv, OneByOne, clientVars
<1> QED
  BY <1>2, <1>3, <1>5, <1>6, <1>7 DEF IInv

\* acquire() and try(): one message about a request nothing is known of.
LEMMA RequestStep ==
    ASSUME IInv, NEW r \in Req, NEW c \in Conn, NEW type, NEW state,
           Request(r, c, type, state),
           \/ type = "Lock" /\ state = "acquiring"
           \/ type = "TryLock" /\ state = "trying"
    PROVE  IInv'
<1> USE BrokerLockAssumption
<1>1. /\ releaser[ItemOf[r]] = None /\ call[r] = "unused" /\ clientUp[c] = "up"
      /\ Sequential => ~Busy(ItemOf[r])
      /\ call' = [call EXCEPT ![r] = state] /\ conn' = [conn EXCEPT ![r] = c]
      /\ toServer' = Sent(toServer, c, type, r)
      /\ UNCHANGED <<lockVars, clientUp, serverUp, toClient, locks, closing, releaser>>
  BY DEF Request, NotAcquired
<1>2. /\ Typed /\ Routed /\ \A x \in Req : Consistent(x)
  BY DEF IInv
<1>3. /\ conn[r] = None /\ ~holding[r] /\ promise[r] = "none" /\ ~Listed(r)
      /\ Asked(r) = {} /\ Told(r) = {}
  BY <1>1, <1>2 DEF Consistent, NotSent
<1>4. /\ conn'[r] = c /\ call'[r] = state
      /\ \A x \in Req : x # r => conn'[x] = conn[x] /\ call'[x] = call[x]
      /\ conn' \in [Req -> Conn \cup {None}] /\ call' \in [Req -> Call]
  BY <1>1, <1>2 DEF Typed, Call
<1>5. Addressed(toServer, conn') /\ Addressed(toClient, conn') /\ Placed(locks, conn')
  <2>1. ASSUME NEW d \in Conn
        PROVE  /\ \A m \in Items(toServer[d]) : m.req \in Req
               /\ \A m \in Items(toClient[d]) : m.req \in Req
               /\ \A x \in Items(locks[d]) : x \in Req
    <3>1. toServer[d] \in Seq(ToServer) /\ toClient[d] \in Seq(ToClient) /\ locks[d] \in Seq(Req)
      BY <1>2 DEF Typed
    <3>2. /\ \A m \in Items(toServer[d]) : m \in ToServer
          /\ \A m \in Items(toClient[d]) : m \in ToClient
          /\ \A x \in Items(locks[d]) : x \in Req
      BY <3>1, ItemsTyped
    <3> QED
      BY <3>2 DEF ToServer, ToClient
  <2>2. ASSUME NEW d \in Conn
        PROVE  /\ \A m \in Items(toServer[d]) : m.req # r
               /\ \A m \in Items(toClient[d]) : m.req # r
               /\ \A x \in Items(locks[d]) : x # r
    BY <1>3 DEF Asked, Told, Listed, Kinds
  <2>3. ASSUME NEW d \in Conn
        PROVE  /\ \A m \in Items(toServer[d]) : conn[m.req] = d
               /\ \A m \in Items(toClient[d]) : conn[m.req] = d
               /\ \A x \in Items(locks[d]) : conn[x] = d
    BY <1>2 DEF Routed, Addressed, Placed
  <2>4. ASSUME NEW d \in Conn
        PROVE  /\ \A m \in Items(toServer[d]) : conn'[m.req] = d
               /\ \A m \in Items(toClient[d]) : conn'[m.req] = d
               /\ \A x \in Items(locks[d]) : conn'[x] = d
    BY <1>4, <2>1, <2>2, <2>3
  <2> QED
    BY <2>4 DEF Addressed, Placed
<1>6. /\ toServer' \in [Conn -> Seq(ToServer)] /\ Addressed(toServer', conn')
      /\ Delivered(toServer, toServer', c, type, r)
  <2>1. type \in {"Lock", "TryLock", "Unlock"}
    OBVIOUS
  <2>2. toServer \in [Conn -> Seq(ToServer)]
    BY <1>2 DEF Typed
  <2>3. PICK at : at = conn'
    OBVIOUS
  <2>4. Addressed(toServer, at) /\ at[r] = c
    BY <1>4, <1>5, <2>3
  <2>5. /\ Sent(toServer, c, type, r) \in [Conn -> Seq(ToServer)]
        /\ Addressed(Sent(toServer, c, type, r), at)
        /\ Delivered(toServer, Sent(toServer, c, type, r), c, type, r)
    BY <2>1, <2>2, <2>4, SentToServer
  <2> QED
    BY <1>1, <2>3, <2>5
<1>7. Typed'
  BY <1>1, <1>2, <1>4, <1>6 DEF Typed
<1>8. Routed'
  BY <1>1, <1>5, <1>6 DEF Routed
<1>9. ASSUME NEW x \in Req, x # r PROVE Undisturbed(x)
  BY <1>1, <1>4, <1>6, <1>9 DEF Undisturbed, lockVars, Listed, Asked, Told, Client, Server,
                                Closing, Delivered, OnceAbout
<1>10. Consistent(r)'
  <2>1. /\ Client(r)' = "up" /\ Told(r)' = {} /\ ~Listed(r)'
        /\ promise'[r] = "none" /\ ~holding'[r]
        /\ conn'[r] # None
    BY <1>1, <1>3, <1>4 DEF Client, Told, Listed, lockVars
  <2>2. Asked(r)' = {} \/ Asked(r)' = {type}
    BY <1>3, <1>6 DEF Asked, Delivered
  <2>3. OnceAbout(toServer, r)' /\ OnceAbout(toClient, r)'
    <3>1. OnceAbout(toClient, r)
      BY <1>2, <1>3, NoneOnce DEF Typed, Told
    <3> QED
      BY <1>1, <1>3, <1>6, <3>1 DEF Asked, Delivered, OnceAbout
  <2> QED
    BY <1>4, <2>1, <2>2, <2>3
       DEF Consistent, NotSent, OnItsWay, InQueue, Answers, Tenure, Waits, Served
<1>11. OwnReleaser'
  BY <1>1, <1>4 DEF IInv, OwnReleaser, Typed
<1>12. OneByOne'
  <2>1. \A x \in Req : x # r => Client(x)' = Client(x)
    BY <1>9 DEF Undisturbed
  <2> QED
    BY <1>1, <1>4, <2>1 DEF IInv, OneByOne, Busy, Waits
<1> QED
  BY <1>2, <1>7, <1>8, <1>9, <1>10, <1>11, <1>12, Frame DEF IInv

\* release(), before and after the loss of the connection.
LEMMA ReleaseStep ==
    ASSUME IInv, NEW i \in Item, release(i) \/ releaseAfterLoss(i)
    PROVE  IInv'
<1> USE BrokerLockAssumption
<1> DEFINE rel == releaser[i]
<1>1. PICK r : r = rel
  OBVIOUS
<1>2. /\ Typed /\ Routed /\ \A x \in Req : Consistent(x)
  BY DEF IInv
<1>3. /\ r \in Req /\ ItemOf[r] = i /\ call[r] \in {"held", "releasing", "stuck"}
  BY <1>1, <1>2 DEF release, releaseAfterLoss, IInv, OwnReleaser, Typed
<1>4. conn[r] \in Conn /\ Client(r) = clientUp[conn[r]]
  BY <1>2, <1>3, SentOn DEF Consistent, Client
<1>5. PICK state : state = IF clientUp[conn[r]] = "up" THEN "releasing" ELSE "stuck"
  OBVIOUS
<1>6. /\ call' = [call EXCEPT ![r] = state]
      /\ clientUp[conn[r]] = "up" => toServer' = Sent(toServer, conn[r], "Unlock", r)
      /\ clientUp[conn[r]] # "up" => toServer' = toServer /\ clientUp[conn[r]] = "down"
      /\ UNCHANGED <<lockVars, clientUp, serverUp, toClient, locks, closing, conn, releaser>>
  BY <1>1, <1>5 DEF release, releaseAfterLoss, netVars
<1>7. state \in {"releasing", "stuck"} /\ (state = "releasing" <=> Client(r) = "up")
      /\ (state = "stuck" <=> Client(r) = "down")
  BY <1>5, <1>4, <1>6
<1>8. /\ toServer' \in [Conn -> Seq(ToServer)] /\ Addressed(toServer', conn')
      /\ \A x \in Req : x # r => Asked(x)' = Asked(x)
                              /\ (OnceAbout(toServer, x) => OnceAbout(toServer, x)')
      /\ Asked(r)' = Asked(r) \/ Asked(r)' = Asked(r) \cup {"Unlock"}
  <2>1. toServer \in [Conn -> Seq(ToServer)] /\ Addressed(toServer, conn)
    BY <1>2 DEF Typed, Routed
  <2>2. CASE clientUp[conn[r]] = "up"
    <3>1. "Unlock" \in {"Lock", "TryLock", "Unlock"}
      OBVIOUS
    <3>2. /\ toServer' \in [Conn -> Seq(ToServer)] /\ Addressed(toServer', conn)
          /\ Delivered(toServer, toServer', conn[r], "Unlock", r)
      BY <1>3, <1>4, <1>6, <2>1, <2>2, <3>1, SentToServer
    <3> QED
      BY <1>3, <1>6, <3>2 DEF Delivered, Asked
  <2>3. CASE clientUp[conn[r]] # "up"
    BY <1>6, <2>1, <2>3 DEF Asked
  <2> QED
    BY <2>2, <2>3
<1>9. /\ call'[r] = state /\ call' \in [Req -> Call]
      /\ \A x \in Req : x # r => call'[x] = call[x]
  BY <1>2, <1>3, <1>6, <1>7 DEF Typed, Call
<1>10. Typed'
  BY <1>2, <1>6, <1>8, <1>9 DEF Typed
<1>11. Routed'
  BY <1>2, <1>6, <1>8 DEF Routed, Addressed, Placed
<1>12. ASSUME NEW x \in Req, x # r PROVE Undisturbed(x)
  BY <1>6, <1>8, <1>9, <1>12 DEF Undisturbed, lockVars, Listed, Told, Client, Server,
                                 Closing, OnceAbout
<1>13. Consistent(r)'
  <2>1. /\ conn'[r] = conn[r] /\ conn[r] # None
        /\ promise'[r] = promise[r] /\ holding'[r] = holding[r]
        /\ (Listed(r)' <=> Listed(r)) /\ Told(r)' = Told(r)
        /\ Client(r)' = Client(r) /\ (Server(r)' <=> Server(r)) /\ (Closing(r)' <=> Closing(r))
        /\ OnceAbout(toClient, r)' = OnceAbout(toClient, r)
    BY <1>4, <1>6 DEF lockVars, Listed, Told, Client, Server, Closing
  <2>2. /\ Asked(r) \subseteq {"Unlock"} /\ promise[r] # "pending"
        /\ Told(r) \cap {"ResponseLock", "ResponseLockFailed"} = {}
    BY <1>2, <1>3, KindsTyped DEF Consistent, OnItsWay, InQueue, Answers, Waits
  <2>3. Consistent(r)
    BY <1>2, <1>3
  <2> QED
    BY <1>3, <1>7, <1>8, <1>9, <2>1, <2>2, <2>3
       DEF Consistent, NotSent, OnItsWay, InQueue, Answers, Tenure, Waits, Served
<1>14. OwnReleaser'
  BY <1>2, <1>3, <1>6, <1>7, <1>9 DEF IInv, OwnReleaser, Typed
<1>15. OneByOne'
  <2>1. \A x \in Req : Client(x)' = Client(x)
    BY <1>6 DEF Client
  <2>2. releaser'[ItemOf[r]] = r
    BY <1>1, <1>3, <1>6
  <2> QED
    BY <1>3, <1>6, <1>7, <1>9, <2>1, <2>2 DEF IInv, OneByOne, Waits
<1> QED
  BY <1>2, <1>3, <1>10, <1>11, <1>12, <1>13, <1>14, <1>15, Frame DEF IInv

\* The first message of a connection is taken by the client.
LEMMA TakenByClient ==
    ASSUME Typed, Routed, NEW c \in Conn, toClient[c] # <<>>,
           toClient' = [toClient EXCEPT ![c] = Tail(@)], NEW m, m = Head(toClient[c])
    PROVE  /\ m.req \in Req /\ conn[m.req] = c
           /\ m.type \in {"ResponseLock", "ResponseLockFailed", "Error", "Ack"}
           /\ toClient' \in [Conn -> Seq(ToClient)] /\ Addressed(toClient', conn)
           /\ Taken(toClient, toClient', m)
<1>1. PICK channel, new, at : channel = toClient /\ new = toClient' /\ at = conn
  OBVIOUS
<1>2. channel \in [Conn -> Seq(ToClient)] /\ Addressed(channel, at)
  BY <1>1 DEF Typed, Routed
<1>3. TakesFirst(channel, new, c, m) /\ ToClient \in SUBSET Packet
  BY <1>1 DEF TakesFirst, Packet
<1>4. /\ m \in ToClient /\ m.req \in Req /\ at[m.req] = c
      /\ new \in [Conn -> Seq(ToClient)] /\ Addressed(new, at)
      /\ Taken(channel, new, m)
  BY <1>2, <1>3, TakeMessage
<1> QED
  BY <1>1, <1>4 DEF ToClient

\* An answer arrives: what it may mean for its request.
Settled(m, state, rel) ==
    \/ m.type = "ResponseLock" /\ state = "held" /\ rel = m.req
    \/ m.type = "ResponseLockFailed" /\ state = "failed" /\ rel = None
    \/ m.type = "Ack" /\ call[m.req] = "releasing" /\ state = "released" /\ rel = None
    \/ /\ m.type = "Error" /\ call[m.req] = "acquiring"
       /\ state = "failed" /\ rel = releaser[ItemOf[m.req]]
    \/ /\ m.type \in {"Ack", "Error"}
       /\ state = call[m.req] /\ rel = releaser[ItemOf[m.req]]
       /\ m.type = "Error" => call[m.req] # "acquiring"

\* The cases of Receive.
LEMMA ReceiveSettles ==
    ASSUME Typed, NEW c \in Conn, Receive(c), NEW m, m = Head(toClient[c]), m.req \in Req,
           m.type \in {"ResponseLock", "ResponseLockFailed", "Error", "Ack"}
    PROVE  \E state, rel :
             /\ Settled(m, state, rel)
             /\ call' = [call EXCEPT ![m.req] = state]
             /\ releaser' = [releaser EXCEPT ![ItemOf[m.req]] = rel]
<1> USE BrokerLockAssumption
<1> DEFINE i == ItemOf[m.req]
<1>1. /\ call = [call EXCEPT ![m.req] = call[m.req]]
      /\ releaser = [releaser EXCEPT ![i] = releaser[i]]
  BY DEF Typed
<1>2. CASE m.type = "ResponseLock"
  BY <1>2 DEF Receive, Settled
<1>3. CASE m.type = "ResponseLockFailed"
  BY <1>3 DEF Receive, Settled
<1>4. CASE m.type = "Ack" /\ call[m.req] = "releasing"
  BY <1>4 DEF Receive, Settled
<1>5. CASE m.type = "Error" /\ call[m.req] = "acquiring"
  BY <1>5 DEF Receive, Settled
<1>6. CASE \/ m.type = "Ack" /\ call[m.req] # "releasing"
           \/ m.type = "Error" /\ call[m.req] # "acquiring"
  <2>1. call' = call /\ releaser' = releaser
    BY <1>6 DEF Receive
  <2>2. Settled(m, call[m.req], releaser[i])
    BY <1>6 DEF Settled
  <2> QED
    BY <1>1, <2>1, <2>2
<1> QED
  BY <1>2, <1>3, <1>4, <1>5, <1>6

\* An answer settles the call that waits for it, or nobody waits.
LEMMA ReceiveStep ==
    ASSUME IInv, NEW c \in Conn, Receive(c)
    PROVE  IInv'
<1> USE BrokerLockAssumption
<1>1. PICK m : m = Head(toClient[c])
  OBVIOUS
<1>2. /\ Typed /\ Routed /\ \A x \in Req : Consistent(x)
  BY DEF IInv
<1>3. /\ clientUp[c] = "up" /\ toClient[c] # <<>>
      /\ toClient' = [toClient EXCEPT ![c] = Tail(@)]
      /\ UNCHANGED <<lockVars, clientUp, serverUp, toServer, locks, closing, conn>>
  BY DEF Receive
<1>4. /\ m.req \in Req /\ conn[m.req] = c
      /\ m.type \in {"ResponseLock", "ResponseLockFailed", "Error", "Ack"}
      /\ toClient' \in [Conn -> Seq(ToClient)] /\ Addressed(toClient', conn)
      /\ Taken(toClient, toClient', m)
  BY <1>1, <1>2, <1>3, TakenByClient
<1>5. PICK state, rel :
        /\ Settled(m, state, rel)
        /\ call' = [call EXCEPT ![m.req] = state]
        /\ releaser' = [releaser EXCEPT ![ItemOf[m.req]] = rel]
  BY <1>1, <1>2, <1>4, ReceiveSettles
<1>6. PICK r \in Req : r = m.req
  BY <1>4
<1>7. PICK i \in Item : i = ItemOf[r]
  OBVIOUS
<1>8. /\ call[r] \in Call /\ releaser[i] \in Req \cup {None}
      /\ state \in Call /\ rel \in Req \cup {None}
  BY <1>2, <1>5, <1>6, <1>7 DEF Typed, Settled, Call
<1>9. /\ call'[r] = state /\ \A x \in Req : x # r => call'[x] = call[x]
      /\ releaser'[i] = rel /\ \A j \in Item : j # i => releaser'[j] = releaser[j]
      /\ call' \in [Req -> Call] /\ releaser' \in [Item -> Req \cup {None}]
  BY <1>2, <1>5, <1>6, <1>7, <1>8 DEF Typed
<1>10. Typed'
  BY <1>2, <1>3, <1>4, <1>9 DEF Typed
<1>11. Routed'
  BY <1>2, <1>3, <1>4 DEF Routed, Addressed, Placed
<1>12. ASSUME NEW x \in Req, x # r PROVE Undisturbed(x)
  BY <1>3, <1>4, <1>6, <1>9, <1>12
     DEF Undisturbed, lockVars, Listed, Asked, Told, Client, Server, Closing, Taken
\* What is known of the request.
<1>13. /\ Client(r) = "up" /\ m.type \in Told(r) /\ Told(r)' \subseteq Told(r)
       /\ OnceAbout(toClient, r) => Told(r) = {m.type} /\ Told(r)' = {}
       /\ OnceAbout(toClient, r) => OnceAbout(toClient, r)'
  BY <1>3, <1>4, <1>6 DEF Client, Told, Taken
<1>14. /\ Asked(r) \subseteq {"Unlock"} /\ promise[r] # "pending"
       /\ "Unlock" \in Asked(r) => call[r] \in Served
       /\ m.type \in {"ResponseLock", "ResponseLockFailed"} => call[r] \in Waits
       /\ m.type = "ResponseLock" => Listed(r)
       /\ m.type # "ResponseLock" => ~holding[r]
       /\ call[r] \in Waits => Told(r) = {m.type} /\ Told(r)' = {}
       /\ call[r] # "unused"
  <2>1. Consistent(r) /\ Asked(r) \subseteq {"Lock", "TryLock", "Unlock"}
    BY <1>2, KindsTyped
  <2> QED
    BY <1>13, <2>1 DEF Consistent, NotSent, OnItsWay, InQueue, Answers
<1>15. Consistent(r)'
  <2>1. Consistent(r) /\ conn[r] # None
    BY <1>2, <1>4, <1>6
  <2>2. /\ conn'[r] = conn[r] /\ promise'[r] = promise[r] /\ holding'[r] = holding[r]
        /\ (Listed(r)' <=> Listed(r)) /\ Asked(r)' = Asked(r)
        /\ Client(r)' = Client(r) /\ (Server(r)' <=> Server(r)) /\ (Closing(r)' <=> Closing(r))
    BY <1>3 DEF lockVars, Listed, Asked, Client, Server, Closing
  <2>3. /\ \/ m.type = "ResponseLock" /\ state = "held"
           \/ m.type = "ResponseLockFailed" /\ state = "failed"
           \/ m.type = "Ack" /\ call[r] = "releasing" /\ state = "released"
           \/ m.type = "Error" /\ call[r] = "acquiring" /\ state = "failed"
           \/ m.type # "ResponseLock" /\ state = call[r]
    BY <1>5, <1>6 DEF Settled
  <2>4. NotSent(r)' /\ OnItsWay(r)' /\ InQueue(r)'
    BY <1>9, <1>14, <2>1, <2>2, <2>3 DEF NotSent, OnItsWay, InQueue
  <2>5. Answers(r)'
    BY <1>9, <1>13, <1>14, <2>1, <2>2, <2>3 DEF Consistent, Answers, Waits, Served
  <2>6. Tenure(r)'
    BY <1>9, <1>13, <1>14, <2>1, <2>2, <2>3 DEF Consistent, Tenure, Waits, Served
  <2> QED
    BY <2>4, <2>5, <2>6 DEF Consistent
<1>16. OwnReleaser'
  BY <1>5, <1>6, <1>7, <1>9, <1>14 DEF IInv, OwnReleaser, Settled, Waits
<1>17. OneByOne'
  <2>1. \A x \in Req : Client(x)' = Client(x)
    BY <1>3 DEF Client
  <2>2. SUFFICES ASSUME Sequential PROVE OneByOne'
    BY DEF OneByOne
  <2> QED
    BY <1>5, <1>6, <1>7, <1>9, <1>13, <1>14, <2>1, <2>2 DEF IInv, OneByOne, Settled, Waits
<1> QED
  BY <1>2, <1>10, <1>11, <1>12, <1>15, <1>16, <1>17, Frame DEF IInv

\* The client rejects what waits on the connection.
LEMMA ClientDownStep ==
    ASSUME IInv, NEW c \in Conn, ClientDown(c)
    PROVE  IInv'
<1> USE BrokerLockAssumption
<1>1. /\ Typed /\ Routed /\ \A x \in Req : Consistent(x)
  BY DEF IInv
<1>2. /\ clientUp[c] = "up" /\ clientUp' = [clientUp EXCEPT ![c] = "down"]
      /\ toClient' = [toClient EXCEPT ![c] = <<>>] /\ call' = Rejected(c)
      /\ UNCHANGED <<lockVars, serverUp, toServer, locks, closing, conn, releaser>>
  BY DEF ClientDown
<1>3. /\ toClient' \in [Conn -> Seq(ToClient)] /\ Addressed(toClient', conn)
      /\ Dropped(toClient, toClient', conn, c)
  <2>1. PICK channel, new, at : channel = toClient /\ new = toClient' /\ at = conn
    OBVIOUS
  <2>2. channel \in [Conn -> Seq(ToClient)] /\ Addressed(channel, at)
    BY <1>1, <2>1 DEF Typed, Routed
  <2>3. new = [channel EXCEPT ![c] = <<>>] /\ ToClient \in SUBSET Packet
    BY <1>2, <2>1 DEF Packet
  <2>4. /\ new \in [Conn -> Seq(ToClient)] /\ Addressed(new, at)
        /\ Dropped(channel, new, at, c)
    BY <2>2, <2>3, DropMessages
  <2> QED
    BY <2>1, <2>4
<1>4. /\ call' \in [Req -> Call]
      /\ \A x \in Req : conn[x] # c => call'[x] = call[x]
      /\ \A x \in Req : conn[x] = c => call'[x] = IF call[x] \in Waits THEN "failed"
                                                 ELSE IF call[x] = "releasing" THEN "held"
                                                 ELSE call[x]
  BY <1>1, <1>2 DEF Rejected, Typed, Call, Waits
<1>5. Typed'
  BY <1>1, <1>2, <1>3, <1>4 DEF Typed
<1>6. Routed'
  BY <1>1, <1>2, <1>3 DEF Routed, Addressed, Placed
<1>7. \A x \in Req : Client(x)' = IF conn[x] = c THEN "down" ELSE Client(x)
  BY <1>1, <1>2 DEF Client, Typed
<1>8. ASSUME NEW x \in Req, conn[x] # c PROVE Undisturbed(x)
  BY <1>2, <1>3, <1>4, <1>7, <1>8
     DEF Undisturbed, lockVars, Listed, Asked, Told, Server, Closing, Dropped
<1>9. ASSUME NEW x \in Req, conn[x] = c PROVE Consistent(x)'
  <2>1. Consistent(x) /\ conn[x] # None
    BY <1>1, <1>9
  <2>2. /\ conn'[x] = conn[x] /\ promise'[x] = promise[x] /\ holding'[x] = holding[x]
        /\ (Listed(x)' <=> Listed(x)) /\ Asked(x)' = Asked(x) /\ Told(x)' = {}
        /\ Client(x)' = "down" /\ (Server(x)' <=> Server(x)) /\ (Closing(x)' <=> Closing(x))
        /\ OnceAbout(toServer, x)' = OnceAbout(toServer, x)
    BY <1>2, <1>3, <1>7, <1>9 DEF lockVars, Listed, Asked, Told, Server, Closing, Dropped
  <2>3. call'[x] = IF call[x] \in Waits THEN "failed"
                   ELSE IF call[x] = "releasing" THEN "held" ELSE call[x]
    BY <1>4, <1>9
  <2>4. NotSent(x)' /\ OnItsWay(x)' /\ InQueue(x)'
    BY <2>1, <2>2, <2>3 DEF Consistent, NotSent, OnItsWay, InQueue, Waits
  <2>5. Answers(x)'
    BY <2>1, <2>2, <2>3 DEF Consistent, Answers, Waits, Served
  <2>6. Tenure(x)'
    BY <2>1, <2>2, <2>3 DEF Consistent, Tenure, Waits, Served
  <2> QED
    BY <2>4, <2>5, <2>6 DEF Consistent
<1>10. OwnReleaser'
  <2> SUFFICES ASSUME NEW i \in Item, releaser[i] # None
               PROVE  /\ ItemOf[releaser[i]] = i
                      /\ call'[releaser[i]] \in {"held", "releasing", "stuck"}
    BY <1>2 DEF OwnReleaser
  <2>1. releaser[i] \in Req
    BY <1>1 DEF Typed
  <2>2. ItemOf[releaser[i]] = i /\ call[releaser[i]] \in {"held", "releasing", "stuck"}
    BY DEF IInv, OwnReleaser
  <2>3. call[releaser[i]] \notin Waits
    BY <2>2 DEF Waits
  <2> QED
    BY <1>4, <2>1, <2>2, <2>3
<1>11. OneByOne'
  <2>1. SUFFICES ASSUME Sequential PROVE OneByOne'
    BY DEF OneByOne
  <2>2. \A x \in Req : call'[x] \in Waits => call[x] \in Waits
    BY <1>4 DEF Waits
  <2>3. \A x \in Req : call'[x] \in {"held", "releasing"} /\ Client(x)' = "up" =>
                       call[x] \in {"held", "releasing"} /\ Client(x) = "up"
    BY <1>4, <1>7
  <2> QED
    BY <1>2, <2>1, <2>2, <2>3 DEF IInv, OneByOne
<1> QED
  BY <1>1, <1>5, <1>6, <1>8, <1>9, <1>10, <1>11, Frame DEF IInv

-----------------------------------------------------------------------------
(* The steps of the broker. They leave the client alone.                   *)

\* What follows from the client standing still.
LEMMA ClientSame ==
    ASSUME IInv, UNCHANGED <<clientUp, clientVars>>
    PROVE  /\ OwnReleaser' /\ OneByOne'
           /\ \A x \in Req : /\ conn'[x] = conn[x] /\ call'[x] = call[x]
                            /\ Client(x)' = Client(x)
<1>1. conn' = conn /\ call' = call /\ releaser' = releaser /\ clientUp' = clientUp
  BY DEF clientVars
<1>2. \A x \in Req : Client(x)' = Client(x)
  BY <1>1 DEF Client
<1> QED
  BY <1>1, <1>2 DEF IInv, OwnReleaser, OneByOne

\* The first message of a connection is taken by the broker.
LEMMA TakenByServer ==
    ASSUME Typed, Routed, NEW c \in Conn, toServer[c] # <<>>,
           toServer' = [toServer EXCEPT ![c] = Tail(@)], NEW m, m = Head(toServer[c])
    PROVE  /\ m.req \in Req /\ conn[m.req] = c
           /\ m.type \in {"Lock", "TryLock", "Unlock"}
           /\ toServer' \in [Conn -> Seq(ToServer)] /\ Addressed(toServer', conn)
           /\ Taken(toServer, toServer', m)
<1>1. PICK channel, new, at : channel = toServer /\ new = toServer' /\ at = conn
  OBVIOUS
<1>2. channel \in [Conn -> Seq(ToServer)] /\ Addressed(channel, at)
  BY <1>1 DEF Typed, Routed
<1>3. TakesFirst(channel, new, c, m) /\ ToServer \in SUBSET Packet
  BY <1>1 DEF TakesFirst, Packet
<1>4. /\ m \in ToServer /\ m.req \in Req /\ at[m.req] = c
      /\ new \in [Conn -> Seq(ToServer)] /\ Addressed(new, at)
      /\ Taken(channel, new, m)
  BY <1>2, <1>3, TakeMessage
<1> QED
  BY <1>1, <1>4 DEF ToServer

Consumed(r) ==
    /\ toServer' \in [Conn -> Seq(ToServer)] /\ Addressed(toServer', conn)
    /\ \A x \in Req : x # r => Asked(x)' = Asked(x)
    /\ \A x \in Req : OnceAbout(toServer, x) => OnceAbout(toServer', x)
    /\ Asked(r)' \subseteq Asked(r)
    /\ OnceAbout(toServer, r) => Asked(r)' = {}

\* What a handler knows of its message.
LEMMA MessageTaken ==
    ASSUME IInv, NEW c \in Conn, NEW type, Message(c, type), NEW m, m = Head(toServer[c])
    PROVE  /\ m.req \in Req /\ conn[m.req] = c /\ m.type = type
           /\ serverUp[c] /\ closing = <<>>
           /\ type \in Asked(m.req)
           /\ Consumed(m.req)
<1>1. /\ toServer[c] # <<>> /\ m.type = type /\ serverUp[c] /\ closing = <<>>
      /\ toServer' = [toServer EXCEPT ![c] = Tail(@)]
  BY DEF Message, Idle
<1>2. /\ m.req \in Req /\ conn[m.req] = c
      /\ toServer' \in [Conn -> Seq(ToServer)] /\ Addressed(toServer', conn)
      /\ Taken(toServer, toServer', m)
  BY <1>1, TakenByServer DEF IInv
<1> QED
  BY <1>1, <1>2 DEF Taken, Asked, Consumed

\* What the lock objects do to a request for the lock.
Taking(r, type) ==
    \/ /\ \A x \in Req : holding'[x] <=> holding[x] \/ x = r
       /\ \A x \in Req : x # r => promise'[x] = promise[x]
       /\ promise'[r] # "pending"
       /\ Reactions(locks, toClient)
    \/ /\ \A x \in Req : holding'[x] <=> holding[x]
       /\ \A x \in Req : x # r => promise'[x] = promise[x]
       /\ type = "Lock"
       /\ Reactions(locks, toClient)
    \/ /\ \A x \in Req : holding'[x] <=> holding[x]
       /\ promise' = promise
       /\ type = "TryLock"
       /\ Reactions(locks, Sent(toClient, conn[r], "ResponseLockFailed", r))

\* The two handlers of a request do that.
LEMMA TakingEffect ==
    ASSUME IInv, P!IInv, NEW c \in Conn, NEW r \in Req, r = Head(toServer[c]).req,
           conn[r] = c, promise[r] = "none", NEW type,
           \/ type = "Lock" /\ HandleLock(c)
           \/ type = "TryLock" /\ HandleTryLock(c)
    PROVE  /\ Taking(r, type) /\ Message(c, type)
           /\ UNCHANGED <<clientUp, serverUp, closing, clientVars>>
<1>1. holding \in [Req -> BOOLEAN] /\ promise \in [Req -> Process!Promise]
  BY DEF P!IInv, P!TypeOK, P!Promise, Process!Promise
<1>2. Message(c, type) /\ UNCHANGED <<clientUp, serverUp, closing, clientVars>>
  BY DEF HandleLock, HandleTryLock
<1> SUFFICES Taking(r, type)
  BY <1>2
<1>3. CASE type = "Lock" /\ HandleLock(c)
  <2>1. Reactions(locks, toClient)
        /\ (Process!AcquireFree(r, TRUE) \/ Process!AcquireWait(r, TRUE, TRUE))
    BY <1>3 DEF HandleLock
  <2>2. CASE Process!AcquireFree(r, TRUE)
    <3>1. holding' = [holding EXCEPT ![r] = TRUE] /\ promise' = [promise EXCEPT ![r] = "resolved"]
      BY <2>2 DEF Process!AcquireFree, Process!Create
    <3> QED
      BY <1>1, <2>1, <3>1 DEF Taking
  <2>3. CASE Process!AcquireWait(r, TRUE, TRUE)
    <3>1. holding' = holding /\ promise' = [promise EXCEPT ![r] = "pending"]
      BY <2>3 DEF Process!AcquireWait
    <3> QED
      BY <1>1, <1>3, <2>1, <3>1 DEF Taking
  <2> QED
    BY <2>1, <2>2, <2>3
<1>4. CASE type = "TryLock" /\ HandleTryLock(c)
  <2>1. CASE Process!TryLockFree(r, TRUE) /\ Reactions(locks, toClient)
    <3>1. holding' = [holding EXCEPT ![r] = TRUE] /\ promise' = promise
      BY <2>1 DEF Process!TryLockFree, Process!Create
    <3> QED
      BY <1>1, <2>1, <3>1 DEF Taking
  <2>2. CASE /\ Process!TryLockTaken(r)
             /\ Reactions(locks, Sent(toClient, c, "ResponseLockFailed", r))
    <3>1. holding' = [holding EXCEPT ![r] = FALSE] /\ promise' = promise /\ ~holding[r]
      BY <2>2 DEF Process!TryLockTaken, Process!Fresh
    <3>2. \A x \in Req : holding'[x] <=> holding[x]
      BY <1>1, <3>1
    <3> QED
      BY <1>4, <2>2, <3>1, <3>2 DEF Taking
  <2> QED
    BY <1>4, <2>1, <2>2 DEF HandleTryLock
<1> QED
  BY <1>3, <1>4

\* Lock and TryLock: granted, queued or refused.
LEMMA TakingStep ==
    ASSUME IInv, P!IInv, NEW c \in Conn, NEW type \in {"Lock", "TryLock"},
           \/ type = "Lock" /\ HandleLock(c)
           \/ type = "TryLock" /\ HandleTryLock(c)
    PROVE  IInv'
<1> USE BrokerLockAssumption
<1>1. /\ Typed /\ Routed /\ \A x \in Req : Consistent(x)
  BY DEF IInv
<1>2. PICK m : m = Head(toServer[c])
  OBVIOUS
<1>3. Message(c, type)
  BY DEF HandleLock, HandleTryLock
<1>4. PICK r \in Req : r = m.req
  BY <1>2, <1>3, MessageTaken
<1>5. /\ conn[r] = c /\ serverUp[c] /\ closing = <<>> /\ type \in Asked(r)
      /\ Consumed(r)
  BY <1>2, <1>3, <1>4, MessageTaken
\* What is known of the request.
<1>6. /\ promise[r] = "none" /\ ~holding[r] /\ ~Listed(r) /\ Told(r) = {}
      /\ Asked(r)' = {} /\ OnceAbout(toServer, r)'
      /\ call[r] \in {"acquiring", "trying", "failed"}
      /\ type = "Lock" => call[r] # "trying"
      /\ conn[r] # None /\ Client(r) # "new"
      /\ call[r] = "failed" => Client(r) # "up"
      /\ call[r] # "failed" => Client(r) = "up"
  BY <1>1, <1>5 DEF Consistent, OnItsWay, Tenure, Answers, Waits, Consumed
<1>7. /\ Client(r) = clientUp[c] /\ Server(r) /\ (Up(conn[r]) <=> Client(r) = "up")
  BY <1>5 DEF Client, Server, Up
<1>8. Taking(r, type) /\ UNCHANGED <<clientUp, serverUp, closing, clientVars>>
  BY <1>2, <1>4, <1>5, <1>6, TakingEffect
<1>9. /\ OwnReleaser' /\ OneByOne' /\ UNCHANGED <<clientUp, serverUp, conn, closing>>
      /\ \A x \in Req : /\ conn'[x] = conn[x] /\ call'[x] = call[x] /\ Client(x)' = Client(x)
                       /\ (Server(x)' <=> Server(x)) /\ (Closing(x)' <=> Closing(x))
  BY <1>8, ClientSame DEF clientVars, Server, Closing
<1>10. /\ locks \in [Conn -> Seq(Req)] /\ toClient \in [Conn -> Seq(ToClient)]
       /\ Addressed(toClient, conn) /\ Placed(locks, conn)
  BY <1>1 DEF Typed, Routed
\* The reactions.
<1>11. /\ locks' \in [Conn -> Seq(Req)] /\ toClient' \in [Conn -> Seq(ToClient)]
       /\ Addressed(toClient', conn) /\ Placed(locks', conn)
       /\ \A x \in Req : x # r =>
            /\ Listed(x)' <=> Listed(x)
            /\ Told(x)' = Told(x)
            /\ OnceAbout(toClient, x) => OnceAbout(toClient, x)'
            /\ (holding'[x] <=> holding[x]) /\ promise'[x] = promise[x]
       /\ OnceAbout(toClient, r)'
       /\ \/ /\ holding'[r] /\ promise'[r] # "pending" /\ Listed(r)'
             /\ Told(r)' = IF Up(conn[r]) THEN {"ResponseLock"} ELSE {}
          \/ ~holding'[r] /\ type = "Lock" /\ ~Listed(r)' /\ Told(r)' = {}
          \/ /\ ~holding'[r] /\ promise'[r] = "none" /\ type = "TryLock" /\ ~Listed(r)'
             /\ Told(r)' = IF Up(conn[r]) THEN {"ResponseLockFailed"} ELSE {}
  <2>1. CASE /\ \A x \in Req : holding'[x] <=> holding[x] \/ x = r
             /\ \A x \in Req : x # r => promise'[x] = promise[x]
             /\ promise'[r] # "pending"
             /\ Reactions(locks, toClient)
    <3>1. Starts(r)
      BY <1>6, <2>1 DEF Starts
    <3>2. conn[r] \in Conn /\ Reactions(locks, toClient)
      BY <1>5, <2>1
    <3>3. GrantedNext(r, locks, toClient)
      BY <1>10, <3>1, <3>2, Grant
    <3> QED
      BY <1>6, <2>1, <3>3 DEF Listed, Told, GrantedNext
  <2>2. CASE /\ \A x \in Req : holding'[x] <=> holding[x]
             /\ \A x \in Req : x # r => promise'[x] = promise[x]
             /\ type = "Lock"
             /\ Reactions(locks, toClient)
    <3>1. Starts(None)
      BY <2>2 DEF Starts
    <3>2. locks' = locks /\ toClient' = toClient /\ OnceAbout(toClient, r)
      BY <1>6, <1>10, <2>2, <3>1, ReactionsEffect, NoneOnce DEF Told
    <3> QED
      BY <1>6, <1>9, <1>10, <2>2, <3>2 DEF Listed, Told
  <2>3. CASE /\ \A x \in Req : holding'[x] <=> holding[x]
             /\ promise' = promise
             /\ type = "TryLock"
             /\ Reactions(locks, Sent(toClient, conn[r], "ResponseLockFailed", r))
    <3>1. PICK channel : channel = Sent(toClient, conn[r], "ResponseLockFailed", r)
      OBVIOUS
    <3>2. /\ channel \in [Conn -> Seq(ToClient)] /\ Addressed(channel, conn)
          /\ Delivered(toClient, channel, conn[r], "ResponseLockFailed", r)
      BY <1>5, <1>10, <3>1, SentToClient
    <3>3. Starts(None)
      BY <2>3 DEF Starts
    <3>4. locks' = locks /\ toClient' = channel
      BY <1>10, <2>3, <3>1, <3>2, <3>3, ReactionsEffect
    <3> QED
      BY <1>6, <1>9, <1>10, <2>3, <3>2, <3>4 DEF Listed, Told, Delivered
  <2> QED
    BY <1>8, <2>1, <2>2, <2>3 DEF Taking
<1>12. Typed'
  BY <1>1, <1>5, <1>8, <1>11 DEF Typed, clientVars, Consumed
<1>13. Routed'
  BY <1>5, <1>9, <1>11 DEF Routed, Consumed
<1>14. ASSUME NEW x \in Req, x # r PROVE Undisturbed(x)
  BY <1>5, <1>9, <1>11, <1>14 DEF Undisturbed, Consumed
<1>15. Consistent(r)'
  <2>1. Consistent(r)
    BY <1>1
  <2>2. NotSent(r)' /\ OnItsWay(r)' /\ InQueue(r)'
    BY <1>6, <1>9, <1>11, <2>1 DEF Consistent, NotSent, OnItsWay, InQueue
  <2>3. Answers(r)'
    BY <1>6, <1>7, <1>9, <1>11, <2>1 DEF Consistent, Answers, Waits, Served
  <2>4. Tenure(r)'
    BY <1>6, <1>7, <1>9, <1>11, <2>1 DEF Consistent, Tenure, Waits, Served
  <2> QED
    BY <2>2, <2>3, <2>4 DEF Consistent
<1> QED
  BY <1>1, <1>9, <1>12, <1>13, <1>14, <1>15, Frame DEF IInv

-----------------------------------------------------------------------------
(* The steps that unlock.                                                  *)

\* The next holder was waiting: its client was told nothing yet.
LEMMA PassedFacts ==
    ASSUME IInv, NEW r \in Req, NEW next \in Req \cup {None}, PassedOn(r, next)
    PROVE  /\ Starts(next) /\ next # r
           /\ ~holding'[r] /\ promise'[r] = promise[r]
           /\ \A x \in Req : x # r /\ x # next =>
                (holding'[x] <=> holding[x]) /\ promise'[x] = promise[x]
           /\ next \in Req =>
                /\ conn[next] \in Conn /\ promise'[next] = "resolved" /\ holding'[next]
                /\ Asked(next) = {} /\ Told(next) = {} /\ ~Listed(next)
                /\ call[next] \in {"acquiring", "failed"}
                /\ call[next] = "failed" => Client(next) # "up"
                /\ call[next] = "acquiring" => Client(next) = "up"
                /\ Client(next) # "new"
<1> USE BrokerLockAssumption
<1>1. /\ Typed /\ \A x \in Req : Consistent(x)
  BY DEF IInv
<1>2. Starts(next) /\ next # r
  BY DEF PassedOn, Starts
<1>3. ~holding'[r] /\ promise'[r] = promise[r]
  BY <1>2 DEF PassedOn
<1>4. ASSUME next \in Req
      PROVE  /\ Asked(next) = {} /\ Told(next) = {} /\ ~Listed(next)
             /\ call[next] \in {"acquiring", "failed"} /\ conn[next] \in Conn
             /\ call[next] = "failed" => Client(next) # "up"
             /\ call[next] = "acquiring" => Client(next) = "up"
             /\ Client(next) # "new"
  <2>1. Consistent(next) /\ promise[next] = "pending"
    BY <1>1, <1>4 DEF PassedOn
  <2>2. /\ Asked(next) = {} /\ Told(next) = {} /\ ~Listed(next)
        /\ call[next] \in {"acquiring", "failed"}
    BY <2>1 DEF Consistent, InQueue
  <2>3. conn[next] \in Conn
    BY <1>1, <1>4, <2>1, <2>2, SentOn DEF Consistent
  <2> QED
    BY <2>1, <2>2, <2>3 DEF Consistent, Answers, Tenure, Waits
<1> QED
  BY <1>2, <1>3, <1>4 DEF PassedOn

\* Apart from r, nothing but the grant to next happens.
Elsewhere(r, map, channel) ==
    /\ UNCHANGED <<clientUp, serverUp, clientVars>>
    /\ map \in [Conn -> Seq(Req)] /\ Placed(map, conn)
    /\ \A x \in Req : x # r => (Listed(x) <=> \E c \in Conn : x \in Items(map[c]))
    /\ channel \in [Conn -> Seq(ToClient)] /\ Addressed(channel, conn)
    /\ \A x \in Req : x # r => Kinds(channel, x) = Told(x)
    /\ \A x \in Req : x # r /\ OnceAbout(toClient, x) => OnceAbout(channel, x)
    /\ toServer' \in [Conn -> Seq(ToServer)] /\ Addressed(toServer', conn)
    /\ \A x \in Req : x # r => Asked(x)' = Asked(x)
    /\ \A x \in Req : OnceAbout(toServer, x) => OnceAbout(toServer', x)
    /\ closing' \in Seq(Req)
    /\ \A x \in Req : x # r => (Closing(x)' <=> Closing(x))

\* The reactions of such a step.
LEMMA PassedGrant ==
    ASSUME IInv, NEW r \in Req, NEW next \in Req \cup {None}, PassedOn(r, next),
           NEW map, NEW channel, Elsewhere(r, map, channel), Reactions(map, channel)
    PROVE  GrantedNext(next, map, channel)
<1>1. Starts(next) /\ (next \in Req => conn[next] \in Conn)
  BY PassedFacts
<1> QED
  BY <1>1, Grant DEF Elsewhere

\* Such a step keeps the invariant if r stays consistent.
LEMMA PassedStep ==
    ASSUME IInv, NEW r \in Req, NEW next \in Req \cup {None}, PassedOn(r, next),
           NEW map, NEW channel, Elsewhere(r, map, channel), Reactions(map, channel),
           Consistent(r)'
    PROVE  IInv'
<1> USE BrokerLockAssumption
<1>1. /\ Typed /\ \A x \in Req : Consistent(x)
  BY DEF IInv
<1>2. GrantedNext(next, map, channel)
  BY PassedGrant
<1>3. UNCHANGED <<clientUp, serverUp, clientVars>>
  BY DEF Elsewhere
<1>4. /\ OwnReleaser' /\ OneByOne' /\ conn' = conn
      /\ \A x \in Req : /\ conn'[x] = conn[x] /\ call'[x] = call[x] /\ Client(x)' = Client(x)
                       /\ (Server(x)' <=> Server(x))
  BY <1>3, ClientSame DEF clientVars, Server
<1>5. Typed'
  BY <1>1, <1>2, <1>3 DEF Typed, clientVars, Elsewhere, GrantedNext
<1>6. Routed'
  BY <1>2, <1>4 DEF Routed, Elsewhere, GrantedNext
<1>7. ASSUME NEW x \in Req, x # r, x # next PROVE Consistent(x)'
  <2>1. (holding'[x] <=> holding[x]) /\ promise'[x] = promise[x]
    BY <1>7, PassedFacts
  <2>2. (Listed(x)' <=> Listed(x)) /\ Told(x)' = Told(x) /\ Asked(x)' = Asked(x)
        /\ (Closing(x)' <=> Closing(x))
    BY <1>2, <1>7 DEF Elsewhere, GrantedNext
  <2>3. /\ OnceAbout(toServer, x) => OnceAbout(toServer, x)'
        /\ OnceAbout(toClient, x) => OnceAbout(toClient, x)'
    BY <1>2, <1>7 DEF Elsewhere, GrantedNext
  <2>4. Undisturbed(x)
    BY <1>4, <2>1, <2>2, <2>3 DEF Undisturbed
  <2> QED
    BY <1>1, <2>4, Frame
<1>8. ASSUME next \in Req PROVE Consistent(next)'
  <2>1. /\ Starts(next) /\ next # r /\ conn[next] \in Conn
        /\ promise'[next] = "resolved" /\ holding'[next]
        /\ Asked(next) = {} /\ Told(next) = {}
        /\ call[next] \in {"acquiring", "failed"}
        /\ call[next] = "failed" => Client(next) # "up"
        /\ call[next] = "acquiring" => Client(next) = "up"
        /\ Client(next) # "new"
    BY <1>8, PassedFacts
  <2>2. /\ Listed(next)' /\ Asked(next)' = {}
        /\ Up(conn[next]) => Told(next)' = {"ResponseLock"}
        /\ ~Up(conn[next]) => Told(next)' = {}
        /\ OnceAbout(toClient, next)'
    BY <1>2, <1>8, <2>1 DEF Elsewhere, GrantedNext
  <2>3. Up(conn[next]) <=> Client(next) = "up" /\ Server(next)
    BY <2>1 DEF Up, Client, Server
  <2>4. /\ conn'[next] = conn[next] /\ call'[next] = call[next] /\ Client(next)' = Client(next)
        /\ (Server(next)' <=> Server(next)) /\ conn[next] # None
    BY <1>4, <1>8, <2>1
  <2> QED
    BY <2>1, <2>2, <2>3, <2>4
       DEF Consistent, NotSent, OnItsWay, InQueue, Answers, Tenure, Waits, Served
<1> QED
  BY <1>4, <1>5, <1>6, <1>7, <1>8 DEF IInv

\* What r may expect when its own request takes no part in the reactions.
LEMMA Ended ==
    ASSUME IInv, NEW r \in Req, NEW next \in Req \cup {None}, PassedOn(r, next),
           NEW map, NEW channel, Elsewhere(r, map, channel), Reactions(map, channel)
    PROVE  /\ ~holding'[r] /\ promise'[r] = promise[r]
           /\ conn'[r] = conn[r] /\ call'[r] = call[r] /\ Client(r)' = Client(r)
           /\ Server(r)' <=> Server(r)
           /\ Listed(r)' <=> \E c \in Conn : r \in Items(map[c])
           /\ Told(r)' = Kinds(channel, r)
           /\ OnceAbout(channel, r) => OnceAbout(toClient, r)'
           /\ OnceAbout(toServer, r) => OnceAbout(toServer, r)'
<1>1. GrantedNext(next, map, channel)
  BY PassedGrant
<1>2. UNCHANGED <<clientUp, serverUp, clientVars>>
  BY DEF Elsewhere
<1>3. next # r /\ ~holding'[r] /\ promise'[r] = promise[r]
  BY PassedFacts
<1> QED
  BY <1>1, <1>2, <1>3 DEF GrantedNext, Elsewhere, clientVars, Client, Server

\* The end of a tenure by its ttl.
LEMMA TtlExpireStep ==
    ASSUME IInv, P!IInv, NEW r \in Req, TtlExpire(r)
    PROVE  IInv'
<1>1. /\ Reactions(locks, toClient)
      /\ UNCHANGED <<clientUp, serverUp, toServer, closing, clientVars>>
  BY DEF TtlExpire
<1>2. PICK next \in Req \cup {None} : PassedOn(r, next)
  BY UnlockEffect DEF TtlExpire, Process!TtlExpire
<1>3. PICK map, channel : map = locks /\ channel = toClient
  OBVIOUS
<1>4. Elsewhere(r, map, channel) /\ Reactions(map, channel)
  BY <1>1, <1>3 DEF Elsewhere, IInv, Typed, Routed, Listed, Told, Asked, Closing, clientVars
<1>5. Consistent(r)'
  <2>1. Consistent(r)
    BY DEF IInv
  <2>2. /\ ~holding'[r] /\ promise'[r] = promise[r]
        /\ conn'[r] = conn[r] /\ call'[r] = call[r] /\ Client(r)' = Client(r)
        /\ (Server(r)' <=> Server(r)) /\ (Listed(r)' <=> Listed(r)) /\ Told(r)' = Told(r)
        /\ OnceAbout(toClient, r) => OnceAbout(toClient, r)'
        /\ OnceAbout(toServer, r) => OnceAbout(toServer, r)'
    BY <1>2, <1>3, <1>4, Ended DEF Listed, Told
  <2>3. Asked(r)' = Asked(r)
    BY <1>1 DEF Asked
  <2> QED
    BY <2>1, <2>2, <2>3 DEF Consistent, NotSent, OnItsWay, InQueue, Answers, Tenure
<1> QED
  BY <1>2, <1>4, <1>5, PassedStep

\* One unlock() of close().
LEMMA CloseUnlockStep ==
    ASSUME IInv, P!IInv, CloseStep
    PROVE  IInv'
<1>1. /\ closing # <<>> /\ closing \in Seq(Req)
      /\ closing' = Tail(closing)
      /\ Reactions(locks, toClient)
      /\ UNCHANGED <<clientUp, serverUp, toServer, clientVars>>
  BY DEF CloseStep, IInv, Typed
<1>2. PICK r : r = Head(closing)
  OBVIOUS
<1>3. /\ r \in Req /\ closing' \in Seq(Req)
      /\ \A x \in Req : x # r => (Closing(x)' <=> Closing(x))
  BY <1>1, <1>2, TailItems DEF Closing
<1>4. PICK next \in Req \cup {None} : PassedOn(r, next)
  BY <1>2, <1>3, UnlockEffect DEF CloseStep, CloseUnlocks
<1>5. PICK map, channel : map = locks /\ channel = toClient
  OBVIOUS
<1>6. Elsewhere(r, map, channel) /\ Reactions(map, channel)
  BY <1>1, <1>3, <1>5 DEF Elsewhere, IInv, Typed, Routed, Listed, Told, Asked, clientVars
<1>7. Consistent(r)'
  <2>1. Consistent(r)
    BY <1>3 DEF IInv
  <2>2. /\ ~holding'[r] /\ promise'[r] = promise[r]
        /\ conn'[r] = conn[r] /\ call'[r] = call[r] /\ Client(r)' = Client(r)
        /\ (Server(r)' <=> Server(r)) /\ (Listed(r)' <=> Listed(r)) /\ Told(r)' = Told(r)
        /\ OnceAbout(toClient, r) => OnceAbout(toClient, r)'
        /\ OnceAbout(toServer, r) => OnceAbout(toServer, r)'
    BY <1>3, <1>4, <1>5, <1>6, Ended DEF Listed, Told
  <2>3. Asked(r)' = Asked(r)
    BY <1>1 DEF Asked
  <2> QED
    BY <2>1, <2>2, <2>3 DEF Consistent, NotSent, OnItsWay, InQueue, Answers, Tenure
<1> QED
  BY <1>3, <1>4, <1>6, <1>7, PassedStep

\* Unlock: the lock is released, or unknown.
LEMMA HandleUnlockStep ==
    ASSUME IInv, P!IInv, NEW c \in Conn, HandleUnlock(c)
    PROVE  IInv'
<1> USE BrokerLockAssumption
<1>1. /\ Typed /\ Routed /\ \A x \in Req : Consistent(x)
  BY DEF IInv
<1>2. PICK m : m = Head(toServer[c])
  OBVIOUS
<1>3. Message(c, "Unlock") /\ UNCHANGED <<clientUp, serverUp, closing, clientVars>>
  BY DEF HandleUnlock
<1>4. PICK r \in Req : r = m.req
  BY <1>2, <1>3, MessageTaken
<1>5. conn[r] = c /\ serverUp[c] /\ "Unlock" \in Asked(r) /\ Consumed(r)
  BY <1>2, <1>3, <1>4, MessageTaken
<1>6. /\ call[r] \in Served /\ promise[r] # "pending" /\ Asked(r) \subseteq {"Unlock"}
      /\ Told(r) \cap {"ResponseLock", "ResponseLockFailed"} = {}
      /\ Client(r) = "up" => call[r] # "held"
      /\ conn[r] # None
  <2>1. Consistent(r) /\ Asked(r) \subseteq {"Lock", "TryLock", "Unlock"}
    BY <1>1, KindsTyped
  <2> QED
    BY <1>5, <2>1 DEF Consistent, OnItsWay, InQueue, Answers, Waits, Served
<1>7. /\ locks \in [Conn -> Seq(Req)] /\ toClient \in [Conn -> Seq(ToClient)]
      /\ Addressed(toClient, conn) /\ Placed(locks, conn)
  BY <1>1 DEF Typed, Routed
<1>8. CASE /\ r \in Items(locks[c]) /\ UnlockOwn(r)
           /\ Reactions([locks EXCEPT ![c] = arrayRemoveItem(@, r)], Sent(toClient, c, "Ack", r))
  <2>1. PICK map, channel : /\ map = [locks EXCEPT ![c] = arrayRemoveItem(@, r)]
                            /\ channel = Sent(toClient, c, "Ack", r)
    OBVIOUS
  <2>2. PICK next \in Req \cup {None} : PassedOn(r, next)
    BY <1>8, UnlockEffect DEF UnlockOwn
  <2>3. /\ channel \in [Conn -> Seq(ToClient)] /\ Addressed(channel, conn)
        /\ Delivered(toClient, channel, c, "Ack", r)
    BY <1>5, <1>7, <2>1, SentToClient
  <2>4. /\ map[c] \in Seq(Req) /\ Items(map[c]) \subseteq Items(locks[c])
        /\ Items(locks[c]) \ {r} \subseteq Items(map[c])
        /\ \A d \in Conn : d # c => map[d] = locks[d]
    BY <1>7, <2>1, RemoveOne
  <2>5. /\ map \in [Conn -> Seq(Req)] /\ Placed(map, conn)
        /\ \A x \in Req : x # r => (Listed(x) <=> \E d \in Conn : x \in Items(map[d]))
    <3>1. map \in [Conn -> Seq(Req)]
      BY <1>7, <2>1, <2>4
    <3>2. Placed(map, conn)
      BY <1>7, <2>4 DEF Placed
    <3>3. ASSUME NEW x \in Req, x # r, NEW d \in Conn
          PROVE  x \in Items(locks[d]) <=> x \in Items(map[d])
      BY <2>4, <3>3
    <3> QED
      BY <3>1, <3>2, <3>3 DEF Listed
  <2>6. Elsewhere(r, map, channel)
    BY <1>1, <1>3, <1>5, <2>3, <2>5
       DEF Elsewhere, Typed, Told, Closing, Consumed, Delivered
  <2>7. Reactions(map, channel)
    BY <1>8, <2>1
  <2>8. Consistent(r)'
    <3>1. Consistent(r)
      BY <1>1
    <3>2. /\ ~holding'[r] /\ promise'[r] = promise[r]
          /\ conn'[r] = conn[r] /\ call'[r] = call[r] /\ Client(r)' = Client(r)
          /\ Told(r)' = Kinds(channel, r)
      BY <2>2, <2>6, <2>7, Ended
    <3>3. Told(r)' \subseteq Told(r) \cup {"Ack"} /\ Asked(r)' \subseteq {"Unlock"}
      BY <1>5, <1>6, <2>3, <3>2 DEF Told, Delivered, Consumed
    <3>4. NotSent(r)' /\ OnItsWay(r)' /\ InQueue(r)'
      BY <1>6, <3>2, <3>3 DEF NotSent, OnItsWay, InQueue, Served
    <3>5. Answers(r)'
      BY <1>6, <3>2, <3>3 DEF Answers, Waits, Served
    <3>6. Tenure(r)'
      BY <1>6, <3>1, <3>2 DEF Consistent, Tenure, Served
    <3> QED
      BY <3>4, <3>5, <3>6 DEF Consistent
  <2> QED
    BY <2>2, <2>6, <2>7, <2>8, PassedStep
<1>9. CASE /\ r \notin Items(locks[c])
           /\ toClient' = Sent(toClient, c, "Error", r)
           /\ UNCHANGED <<lockVars, locks>>
  <2>1. /\ toClient' \in [Conn -> Seq(ToClient)] /\ Addressed(toClient', conn)
        /\ Delivered(toClient, toClient', c, "Error", r)
    <3>1. PICK channel : channel = Sent(toClient, c, "Error", r)
      OBVIOUS
    <3>2. /\ channel \in [Conn -> Seq(ToClient)] /\ Addressed(channel, conn)
          /\ Delivered(toClient, channel, c, "Error", r)
      BY <1>5, <1>7, <3>1, SentToClient
    <3> QED
      BY <1>9, <3>1, <3>2
  <2>2. /\ OwnReleaser' /\ OneByOne' /\ conn' = conn
        /\ \A x \in Req : /\ conn'[x] = conn[x] /\ call'[x] = call[x] /\ Client(x)' = Client(x)
                         /\ (Server(x)' <=> Server(x)) /\ (Closing(x)' <=> Closing(x))
                         /\ holding'[x] = holding[x] /\ promise'[x] = promise[x]
                         /\ (Listed(x)' <=> Listed(x))
    BY <1>3, <1>9, ClientSame DEF clientVars, lockVars, Server, Closing, Listed
  <2>3. Typed' /\ Routed'
    BY <1>1, <1>3, <1>5, <1>9, <2>1, <2>2 DEF Typed, Routed, clientVars, Consumed
  <2>4. ASSUME NEW x \in Req, x # r PROVE Undisturbed(x)
    BY <1>5, <2>1, <2>2, <2>4 DEF Undisturbed, Told, Delivered, Consumed
  <2>5. ~Listed(r) /\ ~holding[r]
    <3>1. ~Listed(r)
      BY <1>5, <1>7, <1>9 DEF Listed, Placed
    <3> QED
      BY <1>1, <3>1 DEF Consistent, Tenure
  <2>6. Consistent(r)'
    <3>1. Consistent(r)
      BY <1>1
    <3>2. Told(r)' \subseteq Told(r) \cup {"Error"} /\ Asked(r)' \subseteq {"Unlock"}
      BY <1>5, <1>6, <2>1 DEF Told, Delivered, Consumed
    <3>3. NotSent(r)' /\ OnItsWay(r)' /\ InQueue(r)'
      BY <1>6, <2>2, <3>2 DEF NotSent, OnItsWay, InQueue, Served
    <3>4. Answers(r)'
      BY <1>6, <2>2, <2>5, <3>2 DEF Answers, Waits, Served
    <3>5. Tenure(r)'
      BY <1>6, <2>2, <2>5, <3>1 DEF Consistent, Tenure, Served
    <3> QED
      BY <3>3, <3>4, <3>5 DEF Consistent
  <2> QED
    BY <1>1, <2>2, <2>3, <2>4, <2>6, Frame DEF IInv
<1> QED
  BY <1>2, <1>4, <1>8, <1>9 DEF HandleUnlock

\* A wait on the broker times out.
LEMMA WaitTimeoutStep ==
    ASSUME IInv, P!IInv, NEW r \in Req, WaitTimeout(r)
    PROVE  IInv'
<1> USE BrokerLockAssumption
<1>1. /\ Typed /\ Routed /\ \A x \in Req : Consistent(x)
  BY DEF IInv
<1>2. /\ waitTimer[r] /\ promise' = [promise EXCEPT ![r] = "rejected"]
      /\ holding' = holding
      /\ toClient' = Sent(toClient, conn[r], "Error", r)
      /\ UNCHANGED <<clientUp, serverUp, toServer, locks, closing, clientVars>>
  BY DEF WaitTimeout, Process!WaitTimeout
<1>3. promise[r] = "pending" /\ promise \in [Req -> Process!Promise]
  BY <1>2 DEF P!IInv, P!TimersCurrent, P!Waiting, P!TypeOK, P!Promise, Process!Promise
<1>4. /\ ~holding[r] /\ ~Listed(r) /\ Asked(r) = {} /\ Told(r) = {}
      /\ call[r] \in {"acquiring", "failed"} /\ Consistent(r)
      /\ call[r] = "failed" => Client(r) # "up"
  BY <1>1, <1>3 DEF Consistent, InQueue, Tenure
<1>5. conn[r] \in Conn
  BY <1>1, <1>4, SentOn DEF Consistent
<1>6. /\ toClient' \in [Conn -> Seq(ToClient)] /\ Addressed(toClient', conn)
      /\ Delivered(toClient, toClient', conn[r], "Error", r)
  <2>1. PICK channel : channel = Sent(toClient, conn[r], "Error", r)
    OBVIOUS
  <2>2. toClient \in [Conn -> Seq(ToClient)] /\ Addressed(toClient, conn)
    BY <1>1 DEF Typed, Routed
  <2>3. /\ channel \in [Conn -> Seq(ToClient)] /\ Addressed(channel, conn)
        /\ Delivered(toClient, channel, conn[r], "Error", r)
    BY <1>5, <2>1, <2>2, SentToClient
  <2> QED
    BY <1>2, <2>1, <2>3
<1>7. /\ OwnReleaser' /\ OneByOne' /\ conn' = conn
      /\ \A x \in Req : /\ conn'[x] = conn[x] /\ call'[x] = call[x] /\ Client(x)' = Client(x)
                       /\ (Server(x)' <=> Server(x)) /\ (Closing(x)' <=> Closing(x))
                       /\ holding'[x] = holding[x] /\ (Listed(x)' <=> Listed(x))
                       /\ Asked(x)' = Asked(x)
                       /\ OnceAbout(toServer, x)' = OnceAbout(toServer, x)
  BY <1>2, ClientSame DEF clientVars, Server, Closing, Listed, Asked
<1>8. promise'[r] = "rejected" /\ \A x \in Req : x # r => promise'[x] = promise[x]
  BY <1>2, <1>3
<1>9. Typed'
  BY <1>1, <1>2, <1>6 DEF Typed, clientVars
<1>10. Routed'
  BY <1>1, <1>2, <1>6, <1>7 DEF Routed, Addressed, Placed
<1>11. ASSUME NEW x \in Req, x # r PROVE Undisturbed(x)
  BY <1>6, <1>7, <1>8, <1>11 DEF Undisturbed, Told, Delivered
<1>12. Consistent(r)'
  <2>1. Told(r)' \subseteq {"Error"} /\ OnceAbout(toClient, r)' /\ conn[r] # None
    BY <1>4, <1>5, <1>6 DEF Told, Delivered
  <2> QED
    BY <1>4, <1>7, <1>8, <2>1
       DEF Consistent, NotSent, OnItsWay, InQueue, Answers, Tenure, Waits, Served
<1> QED
  BY <1>1, <1>7, <1>9, <1>10, <1>11, <1>12, Frame DEF IInv

\* close() begins: what the connection lists is what it will unlock.
LEMMA ServerDownStep ==
    ASSUME IInv, NEW c \in Conn, ServerDown(c)
    PROVE  IInv'
<1> USE BrokerLockAssumption
<1>1. /\ Typed /\ Routed /\ \A x \in Req : Consistent(x)
  BY DEF IInv
<1>2. /\ closing = <<>> /\ closing' = locks[c]
      /\ serverUp' = [serverUp EXCEPT ![c] = FALSE]
      /\ toServer' = [toServer EXCEPT ![c] = <<>>]
      /\ UNCHANGED <<lockVars, clientUp, toClient, locks, clientVars>>
  BY DEF ServerDown, Idle
<1>3. /\ toServer' \in [Conn -> Seq(ToServer)] /\ Addressed(toServer', conn)
      /\ Dropped(toServer, toServer', conn, c)
  <2>1. PICK channel, new, at : channel = toServer /\ new = toServer' /\ at = conn
    OBVIOUS
  <2>2. channel \in [Conn -> Seq(ToServer)] /\ Addressed(channel, at)
    BY <1>1, <2>1 DEF Typed, Routed
  <2>3. new = [channel EXCEPT ![c] = <<>>] /\ ToServer \in SUBSET Packet
    BY <1>2, <2>1 DEF Packet
  <2>4. /\ new \in [Conn -> Seq(ToServer)] /\ Addressed(new, at)
        /\ Dropped(channel, new, at, c)
    BY <2>2, <2>3, DropMessages
  <2> QED
    BY <2>1, <2>4
<1>4. /\ OwnReleaser' /\ OneByOne' /\ conn' = conn
      /\ \A x \in Req : /\ conn'[x] = conn[x] /\ call'[x] = call[x] /\ Client(x)' = Client(x)
                       /\ holding'[x] = holding[x] /\ promise'[x] = promise[x]
                       /\ (Listed(x)' <=> Listed(x)) /\ Told(x)' = Told(x)
                       /\ OnceAbout(toClient, x)' = OnceAbout(toClient, x)
  BY <1>2, ClientSame DEF clientVars, lockVars, Listed, Told
<1>5. Typed'
  BY <1>1, <1>2, <1>3 DEF Typed, clientVars
<1>6. Routed'
  BY <1>1, <1>2, <1>3, <1>4 DEF Routed, Addressed, Placed
<1>7. ASSUME NEW x \in Req
      PROVE  /\ ~Closing(x)
             /\ Closing(x)' => conn[x] = c
             /\ Listed(x) /\ conn[x] = c => Closing(x)'
             /\ Server(x)' <=> Server(x) /\ conn[x] # c
  <2>1. ~Closing(x)
    BY <1>2 DEF Closing, Items
  <2>2. Closing(x)' <=> x \in Items(locks[c])
    BY <1>2 DEF Closing
  <2>3. Closing(x)' => conn[x] = c
    BY <1>1, <2>2 DEF Routed, Placed
  <2>4. Listed(x) /\ conn[x] = c => Closing(x)'
    BY <1>1, <2>2 DEF Routed, Placed, Listed
  <2>5. Server(x)' <=> Server(x) /\ conn[x] # c
    BY <1>1, <1>2, <1>4 DEF Server, Typed
  <2> QED
    BY <2>1, <2>3, <2>4, <2>5
<1>8. ASSUME NEW x \in Req, conn[x] # c PROVE Undisturbed(x)
  BY <1>3, <1>4, <1>7, <1>8 DEF Undisturbed, Asked, Dropped
<1>9. ASSUME NEW x \in Req, conn[x] = c PROVE Consistent(x)'
  <2>1. Consistent(x) /\ conn[x] # None
    BY <1>1, <1>9
  <2>2. Asked(x)' = {} /\ ~Server(x)' /\ (Listed(x) => Closing(x)')
        /\ (OnceAbout(toServer, x) => OnceAbout(toServer, x)')
    BY <1>3, <1>7, <1>9 DEF Asked, Dropped
  <2>3. NotSent(x)' /\ OnItsWay(x)' /\ InQueue(x)'
    BY <1>4, <2>1, <2>2 DEF Consistent, NotSent, OnItsWay, InQueue
  <2>4. Answers(x)'
    BY <1>4, <2>1, <2>2 DEF Consistent, Answers
  <2>5. Tenure(x)'
    BY <1>4, <2>1, <2>2 DEF Consistent, Tenure
  <2> QED
    BY <2>3, <2>4, <2>5 DEF Consistent
<1> QED
  BY <1>1, <1>4, <1>5, <1>6, <1>8, <1>9, Frame DEF IInv

-----------------------------------------------------------------------------
\* The initial state.
LEMMA InitIInv == Init => IInv
<1> SUFFICES ASSUME Init PROVE IInv
  OBVIOUS
<1> USE BrokerLockAssumption
<1>1. Typed
  BY DEF Init, Typed, Call
<1>2. \A c \in Conn : toServer[c] = <<>> /\ toClient[c] = <<>> /\ locks[c] = <<>>
  BY DEF Init
<1>3. /\ \A c \in Conn : Items(toServer[c]) = {} /\ Items(toClient[c]) = {} /\ Items(locks[c]) = {}
      /\ Items(closing) = {}
  BY <1>2 DEF Init, Items
<1>4. Routed
  BY <1>3 DEF Routed, Addressed, Placed
<1>5. ASSUME NEW x \in Req PROVE Consistent(x)
  <2>1. /\ conn[x] = None /\ call[x] = "unused" /\ ~holding[x] /\ promise[x] = "none"
        /\ Asked(x) = {} /\ Told(x) = {} /\ ~Listed(x) /\ ~Closing(x) /\ Client(x) = "new"
    BY <1>3 DEF Init, Process!Init, Asked, Told, Kinds, Listed, Closing, Client
  <2> QED
    BY <2>1 DEF Consistent, NotSent, OnItsWay, InQueue, Answers, Tenure, Waits, Served
<1>6. OwnReleaser /\ OneByOne
  BY DEF Init, OwnReleaser, OneByOne, Waits
<1> QED
  BY <1>1, <1>4, <1>5, <1>6 DEF IInv

\* Every step of the broker is a step of its lock objects or leaves them alone.
LEMMA ProcessStep ==
    ASSUME IInv, [Next]_vars
    PROVE  [Process!Next]_lockVars
<1>1. ASSUME NEW c \in Conn, NEW type, Message(c, type)
      PROVE  Head(toServer[c]).req \in Req
  BY <1>1, MessageTaken
<1>2. ASSUME NEW c \in Conn, HandleLock(c) PROVE Process!Next
  BY <1>1, <1>2, ObjectStep DEF HandleLock
<1>3. ASSUME NEW c \in Conn, HandleTryLock(c) PROVE Process!Next
  BY <1>1, <1>3, ObjectStep DEF HandleTryLock
<1>4. ASSUME NEW c \in Conn, HandleUnlock(c) PROVE Process!Next \/ UNCHANGED lockVars
  BY <1>1, <1>4, ObjectStep DEF HandleUnlock, UnlockOwn
<1>5. ASSUME NEW r \in Req, TtlExpire(r) \/ WaitTimeout(r) PROVE Process!Next
  BY <1>5, ObjectStep DEF TtlExpire, WaitTimeout
<1>6. ASSUME CloseStep PROVE Process!Next
  <2>1. Head(closing) \in Req
    BY <1>6, TailItems DEF CloseStep, IInv, Typed
  <2> QED
    BY <1>6, <2>1, ObjectStep DEF CloseStep, CloseUnlocks
<1>7. ASSUME NEW i \in Item, NEW c \in Conn, Connect(i, c) PROVE UNCHANGED lockVars
  BY <1>7 DEF Connect
<1>8. ASSUME NEW r \in Req, acquire(r) \/ try(r) PROVE UNCHANGED lockVars
  BY <1>8 DEF acquire, try, Request
<1>9. ASSUME NEW i \in Item, release(i) \/ releaseAfterLoss(i) PROVE UNCHANGED lockVars
  BY <1>9 DEF release, releaseAfterLoss
<1>10. ASSUME NEW c \in Conn, Receive(c) \/ ClientDown(c) \/ ServerDown(c)
       PROVE  UNCHANGED lockVars
  BY <1>10 DEF Receive, ClientDown, ServerDown
<1>11. CASE UNCHANGED vars
  BY <1>11 DEF vars
<1> QED
  BY <1>2, <1>3, <1>4, <1>5, <1>6, <1>7, <1>8, <1>9, <1>10, <1>11 DEF Next

\* What ProcessLock and its mapping to FifoLock assume of their constants.
LEMMA ObjectConstants == P!LockAssumption /\ P!NobodyAssumption
<1>1. P!LockAssumption
  BY Ids DEF P!LockAssumption
<1>2. P!NobodyAssumption
  BY NoSetContainsEverything DEF P!NobodyAssumption
<1> QED
  BY <1>1, <1>2

\* So the lock objects keep their invariant.
LEMMA ObjectsInvariant ==
    ASSUME P!IInv, [Process!Next]_lockVars
    PROVE  P!IInv'
<1>1. [P!Next]_P!vars
  BY SameProcess DEF lockVars, P!vars
<1> QED
  BY <1>1, ObjectConstants, P!NextIInv

\* Every step keeps both invariants.
LEMMA NextIInv == IInv /\ P!IInv /\ [Next]_vars => IInv' /\ P!IInv'
<1> SUFFICES ASSUME IInv, P!IInv, [Next]_vars PROVE IInv' /\ P!IInv'
  OBVIOUS
<1>1. P!IInv'
  BY ProcessStep, ObjectsInvariant
<1>2. ASSUME NEW i \in Item, NEW c \in Conn, Connect(i, c) PROVE IInv'
  BY <1>2, ConnectStep
<1>3. ASSUME NEW r \in Req, acquire(r) PROVE IInv'
  BY <1>3, RequestStep DEF acquire
<1>4. ASSUME NEW r \in Req, try(r) PROVE IInv'
  BY <1>4, RequestStep DEF try
<1>5. ASSUME NEW r \in Req, TtlExpire(r) PROVE IInv'
  BY <1>5, TtlExpireStep
<1>6. ASSUME NEW r \in Req, WaitTimeout(r) PROVE IInv'
  BY <1>6, WaitTimeoutStep
<1>7. ASSUME NEW i \in Item, release(i) \/ releaseAfterLoss(i) PROVE IInv'
  BY <1>7, ReleaseStep
<1>8. ASSUME NEW c \in Conn, Receive(c) PROVE IInv'
  BY <1>8, ReceiveStep
<1>9. ASSUME NEW c \in Conn, ClientDown(c) PROVE IInv'
  BY <1>9, ClientDownStep
<1>10. ASSUME NEW c \in Conn, ServerDown(c) PROVE IInv'
  BY <1>10, ServerDownStep
<1>11. ASSUME NEW c \in Conn, HandleLock(c) PROVE IInv'
  BY <1>11, TakingStep
<1>12. ASSUME NEW c \in Conn, HandleTryLock(c) PROVE IInv'
  BY <1>12, TakingStep
<1>13. ASSUME NEW c \in Conn, HandleUnlock(c) PROVE IInv'
  BY <1>13, HandleUnlockStep
<1>14. CASE CloseStep
  BY <1>1, <1>14, CloseUnlockStep
<1>15. CASE UNCHANGED vars
  <2>1. /\ UNCHANGED <<clientUp, serverUp, toServer, toClient, locks, closing, conn, call, releaser>>
        /\ holding' = holding /\ promise' = promise
    BY <1>15 DEF vars, lockVars, netVars, clientVars
  <2>2. Typed' /\ Routed' /\ OwnReleaser'
    BY <2>1 DEF IInv, Typed, Routed, Addressed, Placed, OwnReleaser
  <2>3. ASSUME NEW x \in Req PROVE Undisturbed(x)
    BY <2>1 DEF Undisturbed, Listed, Asked, Told, Client, Server, Closing
  <2>4. OneByOne'
    BY <2>1, <2>3 DEF IInv, OneByOne, Undisturbed
  <2> QED
    BY <1>1, <2>2, <2>3, <2>4, Frame DEF IInv
<1> QED
  BY <1>1, <1>2, <1>3, <1>4, <1>5, <1>6, <1>7, <1>8, <1>9, <1>10, <1>11, <1>12, <1>13,
     <1>14, <1>15 DEF Next

\* The invariant holds in every state, of the requests and of the lock objects.
THEOREM Invariance == Spec => [](IInv /\ P!IInv)
<1>1. Init => P!IInv
  <2>1. Init => P!Init
    BY DEF Init, Process!Init, P!Init
  <2> QED
    BY <2>1, ObjectConstants, P!InitIInv
<1> QED
  BY <1>1, InitIInv, NextIInv, PTL DEF Spec

\* Only requests have a release() that hangs.
HangingAreRequests == hanging \subseteq Req

LEMMA HangingTyped == Spec => []HangingAreRequests
<1>1. Init => HangingAreRequests
  BY DEF Init, HangingAreRequests
<1>2. IInv /\ HangingAreRequests /\ [Next]_vars => HangingAreRequests'
  <2> SUFFICES ASSUME IInv, hanging \subseteq Req, [Next]_vars
               PROVE  hanging' \subseteq Req
    BY DEF HangingAreRequests
  <2>1. ASSUME NEW i \in Item, release(i) \/ releaseAfterLoss(i) PROVE hanging' \subseteq Req
    <3>1. releaser[i] \in Req
      BY <2>1 DEF IInv, Typed, release, releaseAfterLoss
    <3> QED
      BY <2>1, <3>1 DEF release, releaseAfterLoss
  <2>2. ASSUME NEW i \in Item, NEW c \in Conn, Connect(i, c) PROVE hanging' = hanging
    BY <2>2 DEF Connect, clientVars
  <2>3. ASSUME NEW r \in Req, acquire(r) \/ try(r) PROVE hanging' = hanging
    BY <2>3 DEF acquire, try, Request
  <2>4. ASSUME NEW r \in Req, TtlExpire(r) \/ WaitTimeout(r) PROVE hanging' = hanging
    BY <2>4 DEF TtlExpire, WaitTimeout, clientVars
  <2>5. ASSUME NEW c \in Conn, Receive(c) \/ ClientDown(c) \/ ServerDown(c)
        PROVE  hanging' = hanging
    BY <2>5 DEF Receive, ClientDown, ServerDown, clientVars
  <2>6. ASSUME NEW c \in Conn, HandleLock(c) \/ HandleTryLock(c) \/ HandleUnlock(c)
        PROVE  hanging' = hanging
    BY <2>6 DEF HandleLock, HandleTryLock, HandleUnlock, clientVars
  <2>7. CASE CloseStep
    BY <2>7 DEF CloseStep, clientVars
  <2>8. CASE UNCHANGED vars
    BY <2>8 DEF vars, clientVars
  <2> QED
    BY <2>1, <2>2, <2>3, <2>4, <2>5, <2>6, <2>7, <2>8 DEF Next
<1> QED
  BY <1>1, <1>2, Invariance, PTL DEF Spec

\* What the invariant says of the clients' locks.
LEMMA Correct ==
    ASSUME IInv, P!IInv, HangingAreRequests
    PROVE  GrantsReleasable /\ CloseReleases /\ OverOnBroker
<1> USE BrokerLockAssumption
<1>1. /\ Typed /\ Routed /\ \A x \in Req : Consistent(x)
  BY DEF IInv
<1>2. TypeOK
  <2>1. Process!TypeOK
    BY DEF P!IInv, P!TypeOK, P!Promise, Process!TypeOK, Process!Promise
  <2>2. ASSUME NEW c \in Conn
        PROVE  /\ Items(toServer[c]) \subseteq ToServer
               /\ Items(toClient[c]) \subseteq ToClient
               /\ Items(locks[c]) \subseteq Req
    BY <1>1, ItemsTyped DEF Typed
  <2>3. Items(closing) \subseteq Req
    BY <1>1, ItemsTyped DEF Typed
  <2> QED
    BY <1>1, <2>1, <2>2, <2>3 DEF TypeOK, Typed, ToServer, ToClient, HangingAreRequests
<1>3. ASSUME NEW r \in Req, call[r] # "unused"
      PROVE  /\ conn[r] \in Conn
             /\ Client(r) = clientUp[conn[r]] /\ (Server(r) <=> serverUp[conn[r]])
             /\ Listed(r) => r \in Items(locks[conn[r]])
  <2>1. conn[r] \in Conn
    BY <1>1, <1>3, SentOn DEF Consistent
  <2> QED
    BY <1>1, <2>1 DEF Client, Server, Listed, Routed, Placed
<1>4. GrantIsListed
  BY <1>1, <1>3 DEF GrantIsListed, Up, Consistent, Tenure
<1>5. HeldCanBeReleased
  <2> SUFFICES ASSUME Sequential, NEW r \in Req, holding[r], Up(conn[r])
               PROVE  \/ releaser[ItemOf[r]] = r
                      \/ \E m \in Items(toClient[conn[r]]) : m.type = "ResponseLock" /\ m.req = r
    BY DEF HeldCanBeReleased
  <2>1. call[r] \in Call \ {"unused"} /\ Consistent(r)
    BY <1>1 DEF Consistent, NotSent, Typed
  <2>2. Client(r) = "up" /\ Server(r)
    BY <1>3, <2>1 DEF Up
  <2>3. CASE call[r] \in Waits
    <3>1. "ResponseLock" \in Told(r)
      BY <2>1, <2>2, <2>3 DEF Consistent, Tenure
    <3>2. PICK c \in Conn : \E m \in Items(toClient[c]) : m.type = "ResponseLock" /\ m.req = r
      BY <3>1 DEF Told, Kinds
    <3>3. c = conn[r]
      BY <1>1, <3>2 DEF Routed, Addressed
    <3> QED
      BY <3>2, <3>3
  <2>4. CASE call[r] \notin Waits
    <3>1. call[r] \in {"held", "releasing"}
      BY <2>1, <2>2, <2>4 DEF Consistent, Tenure, Call, Waits
    <3> QED
      BY <2>2, <3>1 DEF IInv, OneByOne
  <2> QED
    BY <2>3, <2>4
<1>6. CloseReleases
  <2> SUFFICES ASSUME closing = <<>>, NEW r \in Req, holding[r], ~serverUp[conn[r]]
               PROVE  call[r] \in {"acquiring", "failed"}
    BY DEF CloseReleases
  <2>1. Consistent(r) /\ call[r] # "unused"
    BY <1>1 DEF Consistent, NotSent
  <2>2. ~Server(r) /\ ~Closing(r)
    BY <1>3, <2>1 DEF Closing, Items
  <2> QED
    BY <2>1, <2>2 DEF Consistent, Tenure
<1>7. OverOnBroker
  <2> SUFFICES ASSUME NEW r \in Req
               PROVE  /\ call[r] = "released" => ~holding[r]
                      /\ call[r] = "failed" /\ clientUp[conn[r]] = "up" =>
                           /\ ~holding[r] /\ promise[r] # "pending"
                           /\ \A c \in Conn : \A m \in Items(toServer[c]) : m.req # r
    BY DEF OverOnBroker
  <2>1. Tenure(r)
    BY <1>1 DEF Consistent
  <2>2. ASSUME call[r] = "failed", clientUp[conn[r]] = "up"
        PROVE  /\ ~holding[r] /\ promise[r] # "pending"
               /\ \A c \in Conn : \A m \in Items(toServer[c]) : m.req # r
    <3>1. Client(r) = "up"
      BY <1>3, <2>2
    <3>2. ~holding[r] /\ promise[r] # "pending" /\ Asked(r) = {}
      BY <2>1, <2>2, <3>1 DEF Tenure
    <3>3. ASSUME NEW c \in Conn, NEW m \in Items(toServer[c]), m.req = r PROVE FALSE
      <4>1. m.type \in Asked(r)
        BY <3>3 DEF Asked, Kinds
      <4> QED
        BY <3>2, <4>1
    <3> QED
      BY <3>2, <3>3
  <2> QED
    BY <2>1, <2>2 DEF Tenure
<1> QED
  BY <1>2, <1>4, <1>5, <1>6, <1>7 DEF GrantsReleasable

\* GrantsReleasable: what an item was granted is listed for its connection while
\* that stands, and what the broker holds for it the item knows or will be told.
THEOREM GrantsAreReleasable == Spec => []GrantsReleasable
<1>1. IInv /\ P!IInv /\ HangingAreRequests => GrantsReleasable
  BY Correct
<1> QED
  BY <1>1, Invariance, HangingTyped, PTL

\* CloseReleases: no close() leaves a lock held that a client had been granted.
THEOREM ClosesRelease == Spec => []CloseReleases
<1>1. IInv /\ P!IInv /\ HangingAreRequests => CloseReleases
  BY Correct
<1> QED
  BY <1>1, Invariance, HangingTyped, PTL

\* OverOnBroker: a call that ended for the client left nothing on the broker, neither a
\* tenure nor a wait, for any number of requests, connections and losses: the timeout of
\* a wait and the hand-over never both take place, and an Unlock is answered after it.
THEOREM CallsEndOnBroker == Spec => []OverOnBroker
<1>1. IInv /\ P!IInv /\ HangingAreRequests => OverOnBroker
  BY Correct
<1> QED
  BY <1>1, Invariance, HangingTyped, PTL

\* The broker takes a message of c, as LateUnlockHarmless says it.
Takes(c) == toServer[c] # <<>> /\ toServer'[c] = Tail(toServer[c])

\* The step that takes an Unlock ends no tenure but that of its own request.
LEMMA OnlyItsOwn ==
    ASSUME IInv, P!IInv, Next, NEW c \in Conn, Takes(c), Head(toServer[c]).type = "Unlock",
           NEW r \in Req, holding[r], ~holding'[r]
    PROVE  r = Head(toServer[c]).req
<1>1. toServer'[c] # toServer[c]
  BY HeadTailProperties, LenProperties DEF IInv, Typed, Takes
<1>2. ASSUME NEW i \in Item, NEW d \in Conn, Connect(i, d) PROVE FALSE
  BY <1>2 DEF Connect, lockVars
<1>3. ASSUME NEW q \in Req, acquire(q) \/ try(q) PROVE FALSE
  BY <1>3 DEF acquire, try, Request, lockVars
<1>4. ASSUME NEW q \in Req, TtlExpire(q) \/ WaitTimeout(q) PROVE FALSE
  BY <1>1, <1>4 DEF TtlExpire, WaitTimeout
<1>5. ASSUME NEW i \in Item, release(i) \/ releaseAfterLoss(i) PROVE FALSE
  BY <1>5 DEF release, releaseAfterLoss, lockVars
<1>6. ASSUME NEW d \in Conn, Receive(d) \/ ClientDown(d) \/ ServerDown(d) PROVE FALSE
  BY <1>6 DEF Receive, ClientDown, ServerDown, lockVars
<1>7. ASSUME NEW d \in Conn, Message(d, "Lock") \/ Message(d, "TryLock") PROVE FALSE
  <2>1. d = c
    BY <1>1, <1>7 DEF Message, IInv, Typed
  <2> QED
    BY <1>7, <2>1 DEF Message
<1>8. ASSUME CloseStep PROVE FALSE
  BY <1>1, <1>8 DEF CloseStep
<1>9. ASSUME NEW d \in Conn, HandleUnlock(d) PROVE r = Head(toServer[c]).req
  <2>1. Message(d, "Unlock")
    BY <1>9 DEF HandleUnlock
  <2>2. d = c
    BY <1>1, <2>1 DEF Message, IInv, Typed
  <2>3. PICK q \in Req : q = Head(toServer[c]).req
    BY <2>1, <2>2, MessageTaken
  <2>4. Process!Unlock(q)
    BY <1>9, <2>2, <2>3 DEF HandleUnlock, UnlockOwn, lockVars
  <2>5. PICK next \in Req \cup {None} : PassedOn(q, next)
    BY <2>4, UnlockEffect
  <2> QED
    BY <2>3, <2>5 DEF PassedOn
<1> QED
  BY <1>2, <1>3, <1>4, <1>5, <1>6, <1>7, <1>8, <1>9 DEF Next, HandleLock, HandleTryLock

\* LateUnlockHarmless: however late an Unlock comes, it ends only the tenure it
\* was sent for.
THEOREM LateUnlocksHarmless == Spec => LateUnlockHarmless
<1>1. ASSUME IInv, P!IInv, [Next]_vars
      PROVE  [ \A c \in Conn :
                 /\ serverUp[c] /\ serverUp'[c] /\ toServer[c] # <<>>
                 /\ toServer'[c] = Tail(toServer[c]) /\ Head(toServer[c]).type = "Unlock"
                 => \A r \in Req : holding[r] /\ ~holding'[r] => r = Head(toServer[c]).req ]_vars
  BY <1>1, OnlyItsOwn DEF Takes
<1> QED
  BY <1>1, Invariance, PTL DEF Spec, LateUnlockHarmless

=============================================================================
