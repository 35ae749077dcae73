------------------------------ MODULE BusProofs ------------------------------
(***************************************************************************)
(* The bus, in its two layers and for any clients, listeners, subjects,    *)
(* handles, observers and messages: the subjects of a path on top of a     *)
(* channel, and the channel with its connections.                          *)
(*                                                                         *)
(* Subjects.  Lists ties the list of a handle to the observers of its      *)
(* subjects. Counts says that, if code lets reactions run and no finalizer *)
(* was hasty, one release at most waits for a channel, of a handle nobody  *)
(* listens to, and then user code keeps off it. Heard is the               *)
(* claim about the messages with what it needs: the buffer of a live       *)
(* handle without subjects holds everything since it became live, so that  *)
(* the replay closes the gap before the first observer.                    *)
(*                                                                         *)
(* Channel.  What is under way from a client is an Unsubscribe, a          *)
(* Subscribe, or one after the other (Requests), and a listener waits for  *)
(* one answer only while it subscribes or releases (Awaited). Agreed says  *)
(* what the broker knows of the client at each of these points, Follows    *)
(* what a listener got, has on the way and is still to be sent.            *)
(***************************************************************************)
EXTENDS BrokerBus, BusSubject, FiniteSetTheorems, SequenceTheorems, TLAPS

-----------------------------------------------------------------------------
(* What happens to the list of a handle.                                   *)

\* arrayRemoveItem returns an array of the same type that holds every other item,
\* and still holds it once (packages/core/src/array.ts, arrayRemoveItem).
LEMMA RemoveItem ==
    ASSUME NEW S, NEW array \in Seq(S), NEW item, Once(array)
    PROVE  /\ arrayRemoveItem(array, item) \in Seq(S)
           /\ Items(arrayRemoveItem(array, item)) = Items(array) \ {item}
           /\ Once(arrayRemoveItem(array, item))
<1> DEFINE new == arrayRemoveItem(array, item)
<1>1. CASE item \notin Items(array)
  <2>1. new = array
    BY <1>1 DEF arrayRemoveItem
  <2> QED
    BY <1>1, <2>1 DEF Items
<1>2. CASE item \in Items(array)
  <2> DEFINE k == IndexOf(array, item)
             n == Len(array)
  <2>1. k \in 1 .. n /\ array[k] = item
    <3>1. PICK i \in DOMAIN array : array[i] = item
      BY <1>2 DEF Items
    <3>2. \A j \in DOMAIN array : array[j] = item => i <= j
      BY <3>1 DEF Once
    <3>3. \E m \in DOMAIN array : array[m] = item
                /\ \A j \in DOMAIN array : array[j] = item => m <= j
      BY <3>1, <3>2
    <3> QED
      BY <3>3 DEF IndexOf
  <2>2. n \in Nat /\ DOMAIN array = 1 .. n /\ \A j \in 1 .. n : array[j] \in S
    OBVIOUS
  <2> HIDE DEF k, n
  <2>3. new = [ i \in 1 .. (n - 1) |-> IF i < k THEN array[i] ELSE array[i + 1] ]
    BY <1>2 DEF arrayRemoveItem, k, n
  <2>4. n - 1 \in Nat /\ DOMAIN new = 1 .. (n - 1)
    BY <2>1, <2>2, <2>3
  <2> HIDE DEF new
  <2>5. \A i \in 1 .. (n - 1) : new[i] = IF i < k THEN array[i] ELSE array[i + 1]
    BY <2>3
  <2>6. \A i \in 1 .. (n - 1) : new[i] \in S
    BY <2>1, <2>2, <2>5
  <2>7. new \in Seq(S)
    <3>1. new = [ i \in 1 .. (n - 1) |-> new[i] ]
      BY <2>3
    <3> QED
      BY <2>4, <2>6, <3>1
  <2>8. Once(new)
    <3> SUFFICES ASSUME NEW i \in 1 .. (n - 1), NEW j \in 1 .. (n - 1), new[i] = new[j]
                 PROVE  i = j
      BY <2>4 DEF Once
    <3> DEFINE from(x) == IF x < k THEN x ELSE x + 1
    <3>1. /\ from(i) \in 1 .. n /\ new[i] = array[from(i)]
          /\ from(j) \in 1 .. n /\ new[j] = array[from(j)]
      BY <2>1, <2>2, <2>5
    <3>2. from(i) = from(j)
      BY <2>2, <3>1 DEF Once
    <3> QED
      BY <2>1, <2>2, <3>2
  <2>9. Items(new) \subseteq Items(array) \ {item}
    <3> SUFFICES ASSUME NEW i \in 1 .. (n - 1)
                 PROVE  new[i] \in Items(array) /\ new[i] # item
      BY <2>4 DEF Items
    <3> QED
      BY <2>1, <2>2, <2>5 DEF Once, Items
  <2>10. Items(array) \ {item} \subseteq Items(new)
    <3> SUFFICES ASSUME NEW j \in 1 .. n, array[j] # item
                 PROVE  \E i \in 1 .. (n - 1) : new[i] = array[j]
      BY <2>2, <2>4 DEF Items
    <3>1. CASE j < k
      <4>1. j \in 1 .. (n - 1) /\ new[j] = array[j]
        BY <2>1, <2>2, <2>5, <3>1
      <4> QED
        BY <4>1
    <3>2. CASE j > k
      <4>1. j - 1 \in 1 .. (n - 1) /\ new[j - 1] = array[j]
        BY <2>1, <2>2, <2>5, <3>2
      <4> QED
        BY <4>1
    <3> QED
      BY <2>1, <2>2, <3>1, <3>2
  <2> QED
    BY <2>7, <2>8, <2>9, <2>10 DEF new
<1> QED
  BY <1>1, <1>2

\* A subject that is not listed is listed last.
LEMMA PushItem ==
    ASSUME NEW S, NEW array \in Seq(S), NEW item \in S,
           Once(array), item \notin Items(array)
    PROVE  /\ Append(array, item) \in Seq(S)
           /\ Items(Append(array, item)) = Items(array) \cup {item}
           /\ Once(Append(array, item))
<1> DEFINE new == Append(array, item)
<1>1. /\ new \in Seq(S)
      /\ Len(new) = Len(array) + 1
      /\ \A i \in 1 .. Len(array) : new[i] = array[i]
      /\ new[Len(array) + 1] = item
  OBVIOUS
<1>2. DOMAIN new = 1 .. Len(array) + 1 /\ DOMAIN array = 1 .. Len(array) /\ Len(array) \in Nat
  BY <1>1
<1> HIDE DEF new
<1>3. Items(new) = Items(array) \cup {item}
  BY <1>1, <1>2 DEF Items
<1>4. Once(new)
  BY <1>1, <1>2 DEF Once, Items
<1> QED
  BY <1>1, <1>3, <1>4 DEF new

-----------------------------------------------------------------------------
(* The invariant.                                                          *)

Types ==
  /\ TypeOK
  /\ subjects \in [Handle -> Seq(Subject)]
  /\ buffer \in [Handle -> Seq(1 .. MaxPublish)]
  /\ got \in [Subject -> Seq(1 .. MaxPublish)]

Lists ==
  /\ \A h \in Handle : Once(subjects[h])
  /\ \A h \in Handle : \A s \in Items(subjects[h]) : handle[s] = h /\ refCount[s] > 0
  /\ \A s \in Subject : refCount[s] > 0 =>
       handle[s] \in Handle /\ s \in Items(subjects[handle[s]])

Holding == { h \in Handle : channel[h] # "none" }

\* One release waits, and user code that waits for its releases keeps off the handle.
LastRelease(h) ==
  closing[h] = 1 /\ subjects[h] = <<>> /\ (h \in leaving \/ channel[h] = "open")

Counts ==
  /\ IsFiniteSet(Holding)
  /\ listeners <= Cardinality(Holding)
  /\ Patient /\ ~hasty =>
       /\ listeners = Cardinality(Holding)
       /\ \A h \in Handle : closing[h] > 0 => LastRelease(h)

\* The sequence ends with the numbers after from up to upto.
Covers(seq, from, upto) ==
  /\ Len(seq) >= upto - from
  /\ \A i \in 1 .. (upto - from) : seq[Len(seq) - (upto - from) + i] = from + i

Larger(a, b) == IF a > b THEN a ELSE b

Heard ==
  /\ \A h \in Handle : since[h] <= log
  /\ \A s \in Subject : base[s] <= log
  /\ \A h \in Handle : Live(h) /\ subjects[h] = <<>> => Covers(buffer[h], since[h], log)
  /\ \A s \in Subject : refCount[s] > 0 /\ Live(handle[s]) /\ s \notin passed =>
       Covers(got[s], Larger(base[s], since[handle[s]]), log)

IInv == Types /\ Lists /\ Counts /\ Heard

\* Nothing is due of what is yet to come.
LEMMA CoversNone ==
  ASSUME NEW seq, NEW S, seq \in Seq(S), NEW upto \in Nat
  PROVE  Covers(seq, upto, upto)
BY DEF Covers

\* The next message is added.
LEMMA CoversNext ==
  ASSUME NEW S, NEW seq \in Seq(S), NEW from \in Nat, NEW upto \in Nat, from <= upto,
         Covers(seq, from, upto), upto + 1 \in S
  PROVE  Covers(Append(seq, upto + 1), from, upto + 1)
<1> DEFINE n == Len(seq)
           new == Append(seq, upto + 1)
           due == upto - from
<1>1. /\ n \in Nat /\ due \in Nat /\ n >= due /\ Len(new) = n + 1
      /\ \A i \in 1 .. n : new[i] = seq[i]
      /\ new[n + 1] = upto + 1
      /\ \A i \in 1 .. due : seq[n - due + i] = from + i
  BY DEF Covers
<1> HIDE DEF n, new
<1>2. ASSUME NEW i \in 1 .. (upto + 1 - from)
      PROVE  new[n + 1 - (upto + 1 - from) + i] = from + i
  <2>1. CASE i = upto + 1 - from
    BY <1>1, <2>1
  <2>2. CASE i # upto + 1 - from
    <3>1. i \in 1 .. due /\ n - due + i \in 1 .. n
      BY <1>1, <2>2
    <3>2. n + 1 - (upto + 1 - from) + i = n - due + i
      BY <1>1
    <3>3. QED
      BY <1>1, <3>1, <3>2
  <2>3. QED
    BY <2>1, <2>2
<1>3. Len(new) >= upto + 1 - from
  BY <1>1
<1>4. /\ Len(new) >= upto + 1 - from
      /\ \A i \in 1 .. (upto + 1 - from) : new[Len(new) - (upto + 1 - from) + i] = from + i
  BY <1>1, <1>2, <1>3
<1>5. Covers(new, from, upto + 1)
  BY <1>4 DEF Covers
<1>6. QED
  BY <1>5 DEF new

\* What stands in front does not matter.
LEMMA CoversAfter ==
  ASSUME NEW S, NEW first \in Seq(S), NEW seq \in Seq(S), NEW from \in Nat, NEW upto \in Nat,
         Covers(seq, from, upto)
  PROVE  Covers(first \o seq, from, upto)
<1> DEFINE n == Len(seq)
           k == Len(first)
           new == first \o seq
<1>1. /\ n \in Nat /\ k \in Nat /\ Len(new) = k + n
      /\ \A i \in 1 .. n : new[k + i] = seq[i]
  OBVIOUS
<1>2. n >= upto - from /\ \A i \in 1 .. (upto - from) : seq[n - (upto - from) + i] = from + i
  BY DEF Covers
<1> HIDE DEF n, k, new
<1>3. ASSUME NEW i \in 1 .. (upto - from) PROVE new[k + n - (upto - from) + i] = from + i
  <2>1. n - (upto - from) + i \in 1 .. n
    BY <1>1, <1>2
  <2>2. new[k + (n - (upto - from) + i)] = seq[n - (upto - from) + i]
    BY <1>1, <2>1
  <2>3. k + (n - (upto - from) + i) = k + n - (upto - from) + i
    BY <1>1
  <2>4. QED
    BY <1>2, <2>2, <2>3
<1>4. k + n >= upto - from
  BY <1>1, <1>2
<1>5. /\ Len(new) >= upto - from
      /\ \A i \in 1 .. (upto - from) : new[Len(new) - (upto - from) + i] = from + i
  BY <1>1, <1>3, <1>4
<1>6. QED
  BY <1>5 DEF Covers, new

\* The invariant of the subjects holds at first, and (NextIInv) is kept.
LEMMA InitIInv == Init => IInv
<1> SUFFICES ASSUME Init PROVE IInv
  OBVIOUS
<1>1. Types
  <2>1. MaxPublish \in Nat /\ MaxObservers \in Nat
    BY BusSubjectAssumption
  <2>2. /\ \A h \in Handle : Items(subjects[h]) = {} /\ Items(buffer[h]) = {}
        /\ \A s \in Subject : Items(got[s]) = {}
    BY DEF Init, Items
  <2>3. TypeOK
    <3>1. /\ current \in Handle \cup {None} /\ asker \in Handle \cup {None}
          /\ handle \in [Subject -> Handle \cup {None}] /\ gone \subseteq Subject
          /\ refCount \in [Subject -> 0 .. MaxObservers]
          /\ activation \in [Subject -> {"no", "waiting", "done", "failed"}]
          /\ channel \in [Handle -> {"none", "pending", "open", "rejected"}]
      BY <2>1 DEF Init
    <3>2. /\ closing \in [Handle -> Nat] /\ listeners \in Int /\ log \in 0 .. MaxPublish
          /\ passed \subseteq Subject /\ since \in [Handle -> 0 .. MaxPublish]
          /\ base \in [Subject -> 0 .. MaxPublish]
      BY <2>1 DEF Init
    <3>3. forwarding \in BOOLEAN /\ leaving \subseteq Handle /\ {finalizing, hasty} \subseteq BOOLEAN
      BY DEF Init
    <3>4. QED
      BY <2>2, <3>1, <3>2, <3>3, Zenon DEF TypeOK
  <2>4. /\ subjects \in [Handle -> Seq(Subject)]
        /\ buffer \in [Handle -> Seq(1 .. MaxPublish)]
        /\ got \in [Subject -> Seq(1 .. MaxPublish)]
    BY DEF Init
  <2>5. QED
    BY <2>3, <2>4 DEF Types
<1>2. Lists
  BY DEF Init, Lists, Once, Items
<1>3. Counts
  <2>1. Holding = {}
    BY DEF Init, Holding
  <2>2. QED
    BY <2>1, FS_EmptySet DEF Init, Counts
<1>4. Heard
  BY DEF Init, Heard, Live
<1>5. QED
  BY <1>1, <1>2, <1>3, <1>4 DEF IInv

-----------------------------------------------------------------------------
(* What the operations have in common.                                     *)

\* What is left to show of Heard: the handles that were live and stay it.
LEMMA HeardKeeps ==
  ASSUME Types, Heard, Afterwards, Types', Lists',
         log' >= log, \A s \in Subject : base'[s] <= log',
         \A h \in Handle : Live(h) /\ Live(h)' /\ subjects'[h] = <<>> =>
           Covers(buffer'[h], since[h], log'),
         \A s \in Subject : \A h \in Handle :
           refCount'[s] > 0 /\ handle'[s] = h /\ Live(h) /\ Live(h)' /\ s \notin passed' =>
             Covers(got'[s], Larger(base'[s], since[h]), log')
  PROVE  Heard'
<1>1. /\ log \in Nat /\ log' \in Nat
      /\ \A h \in Handle : since[h] \in Nat /\ since[h] <= log
      /\ \A s \in Subject : base'[s] \in Nat
  <2>1. log \in Nat /\ \A h \in Handle : since[h] \in Nat /\ since[h] <= log
    BY BusSubjectAssumption DEF Types, TypeOK, Heard
  <2>2. log' \in Nat /\ base' \in [Subject -> 0 .. MaxPublish]
    BY BusSubjectAssumption DEF Types, TypeOK
  <2>3. \A s \in Subject : base'[s] \in Nat
    BY <2>2, BusSubjectAssumption
  <2>4. QED
    BY <2>1, <2>2, <2>3
<1>2. \A h \in Handle : since'[h] = IF Live(h) /\ Live(h)' THEN since[h] ELSE log'
  BY DEF Afterwards
<1>3. \A h \in Handle : since'[h] <= log'
  BY <1>1, <1>2
<1>4. ASSUME NEW h \in Handle, Live(h)', subjects'[h] = <<>>
      PROVE  Covers(buffer'[h], since'[h], log')
  <2>1. CASE Live(h)
    BY <1>2, <1>4, <2>1
  <2>2. CASE ~Live(h)
    <3>1. since'[h] = log' /\ buffer'[h] \in Seq(1 .. MaxPublish)
      BY <1>2, <2>2 DEF Types
    <3>2. QED
      BY <1>1, <3>1, CoversNone
  <2>3. QED
    BY <2>1, <2>2
<1>5. ASSUME NEW s \in Subject, refCount'[s] > 0, Live(handle[s])', s \notin passed'
      PROVE  Covers(got[s], Larger(base[s], since[handle[s]]), log)'
  <2>1. PICK h \in Handle : h = handle'[s]
    BY <1>5 DEF Lists
  <2>2. Live(h)'
    BY <1>5, <2>1 DEF Live
  <2>3. Covers(got'[s], Larger(base'[s], since'[h]), log')
    <3>1. CASE Live(h)
      <4>1. since'[h] = since[h]
        BY <1>2, <2>2, <3>1
      <4>2. QED
        BY <1>5, <2>1, <2>2, <3>1, <4>1
    <3>2. CASE ~Live(h)
      <4>1. since'[h] = log' /\ got'[s] \in Seq(1 .. MaxPublish)
        BY <1>2, <3>2 DEF Types
      <4>2. Larger(base'[s], since'[h]) = log'
        BY <1>1, <4>1 DEF Larger
      <4>3. QED
        BY <1>1, <4>1, <4>2, CoversNone
    <3>3. QED
      BY <3>1, <3>2
  <2>4. QED
    BY <2>1, <2>3 DEF Covers, Larger
<1>6. QED
  BY <1>3, <1>4, <1>5 DEF Heard

\* The same for a step that brings no message and adds no subject to a list.
LEMMA QuietlyHeard ==
  ASSUME Types, Heard, Afterwards, Types', Lists',
         UNCHANGED <<log, base, got, buffer, passed>>,
         \A h \in Handle : Live(h) /\ Live(h)' /\ subjects'[h] = <<>> => subjects[h] = <<>>,
         \A s \in Subject : refCount'[s] > 0 => refCount[s] > 0 /\ handle'[s] = handle[s]
  PROVE  Heard'
<1>1. log' >= log /\ \A s \in Subject : base'[s] <= log'
  BY BusSubjectAssumption DEF Types, TypeOK, Heard
<1>2. \A h \in Handle : Live(h) /\ Live(h)' /\ subjects'[h] = <<>> =>
        Covers(buffer'[h], since[h], log')
  BY DEF Heard
<1>3. ASSUME NEW s \in Subject, NEW h \in Handle,
             refCount'[s] > 0, handle'[s] = h, Live(h), Live(h)', s \notin passed'
      PROVE  Covers(got'[s], Larger(base'[s], since[h]), log')
  <2>1. refCount[s] > 0 /\ handle[s] = h /\ s \notin passed
    BY <1>3
  <2>2. Live(handle[s])
    BY <1>3, <2>1
  <2>3. Covers(got[s], Larger(base[s], since[handle[s]]), log)
    BY <2>1, <2>2 DEF Heard
  <2>4. QED
    BY <2>1, <2>3
<1>4. QED
  BY <1>1, <1>2, <1>3, HeardKeeps

\* The types of since.
LEMMA SinceTypes ==
  ASSUME Types, Afterwards, log' \in 0 .. MaxPublish
  PROVE  since' \in [Handle -> 0 .. MaxPublish]
BY DEF Types, TypeOK, Afterwards

\* No finalizer ran before its time: hasty is as it was.
LEMMA HastyStays ==
  ASSUME Types, Afterwards
  PROVE  /\ ~hasty' => ~hasty
         /\ \A h \in Handle : ~hasty' /\ closing'[h] > closing[h] /\ gone' # gone =>
              channel[h] # "pending" /\ ~(closing[h] > 0)
         /\ \A h \in Handle : closing'[h] > 0 /\ h \in leaving => h \in leaving'
         /\ \A h \in Handle : closing'[h] > 0 /\ closing'[h] > closing[h] /\ gone' = gone =>
              h \in leaving'
BY DEF Types, TypeOK, Afterwards

\* What waits for a channel still does, or its handle is done with.
LEMMA CountsStay ==
  ASSUME Types, Counts, Afterwards, UNCHANGED <<listeners, subjects>>, Holding' = Holding,
         \A h \in Handle : /\ closing'[h] > 0 => closing'[h] = closing[h]
                           /\ channel[h] = "open" => channel'[h] = "open"
  PROVE  Counts'
<1>1. ASSUME Patient, ~hasty', NEW h \in Handle, closing'[h] > 0
      PROVE  LastRelease(h)'
  <2>1. closing'[h] = closing[h] /\ closing[h] > 0
    BY <1>1
  <2>2. LastRelease(h)
    BY <1>1, <2>1, HastyStays DEF Counts
  <2>3. QED
    BY <1>1, <2>1, <2>2, HastyStays DEF LastRelease
<1>2. ~hasty' => ~hasty
  BY HastyStays
<1>3. QED
  BY <1>1, <1>2 DEF Counts

\* What a subject is a handle for.
LEMMA HandleOf ==
  ASSUME Types, NEW s \in Subject, handle[s] # None
  PROVE  handle[s] \in Handle
BY DEF Types, TypeOK

\* A subject leaves the list of its handle, which is released when it was the last.
LEMMA ReleaseFacts ==
  ASSUME Types, Lists, NEW s \in Subject, NEW h \in Handle, h = handle[s], ReleaseSubject(s)
  PROVE  /\ subjects' \in [Handle -> Seq(Subject)]
         /\ Once(subjects'[h]) /\ Items(subjects'[h]) = Items(subjects[h]) \ {s}
         /\ closing' \in [Handle -> Nat] /\ current' \in Handle \cup {None}
         /\ \A g \in Handle \ {h} : subjects'[g] = subjects[g] /\ closing'[g] = closing[g]
         /\ closing'[h] \in {closing[h], closing[h] + 1}
         /\ subjects'[h] # <<>> => closing' = closing
         /\ subjects'[h] = <<>> /\ channel[h] \in {"pending", "open"} =>
              closing'[h] = closing[h] + 1
         /\ closing' # closing => channel[h] \in {"pending", "open"}
         /\ subjects[h] = <<>> => subjects'[h] = <<>>
<1>1. /\ subjects \in [Handle -> Seq(Subject)] /\ closing \in [Handle -> Nat]
      /\ current \in Handle \cup {None} /\ Once(subjects[h])
  BY DEF Types, TypeOK, Lists
<1>2. PICK list \in Seq(Subject) : /\ list = Unlisted(s)
                                   /\ Items(list) = Items(subjects[h]) \ {s} /\ Once(list)
  BY <1>1, RemoveItem DEF Unlisted
<1>3. /\ subjects' = [subjects EXCEPT ![h] = list]
      /\ IF list # <<>>
         THEN closing' = closing /\ current' = current
         ELSE /\ current' = None
              /\ closing' = IF channel[h] \in {"pending", "open"}
                            THEN [closing EXCEPT ![h] = @ + 1] ELSE closing
  BY <1>2 DEF ReleaseSubject
<1>4. subjects' \in [Handle -> Seq(Subject)] /\ subjects'[h] = list
      /\ \A g \in Handle \ {h} : subjects'[g] = subjects[g]
  BY <1>1, <1>3
<1>5. /\ closing' \in [Handle -> Nat] /\ current' \in Handle \cup {None}
      /\ \A g \in Handle \ {h} : closing'[g] = closing[g]
      /\ closing'[h] \in {closing[h], closing[h] + 1}
      /\ list = <<>> /\ channel[h] \in {"pending", "open"} => closing'[h] = closing[h] + 1
  <2>1. closing[h] \in Nat
    BY <1>1
  <2>2. CASE list = <<>> /\ channel[h] \in {"pending", "open"}
    <3>1. closing' = [closing EXCEPT ![h] = closing[h] + 1] /\ current' = None
      BY <1>3, <2>2
    <3>2. closing[h] + 1 \in Nat
      BY <2>1
    <3> QED
      BY <1>1, <3>1, <3>2
  <2>3. CASE ~(list = <<>> /\ channel[h] \in {"pending", "open"})
    BY <1>1, <1>3, <2>3
  <2>4. QED
    BY <2>2, <2>3
<1>6. list # <<>> => closing' = closing
  BY <1>3
<1>7. subjects[h] = <<>> => list = <<>>
  <2>1. Items(<<>>) = {}
    BY DEF Items
  <2>2. list # <<>> => 1 \in DOMAIN list
    OBVIOUS
  <2>3. list # <<>> => Items(list) # {}
    BY <2>2 DEF Items
  <2>4. QED
    BY <1>2, <2>1, <2>3
<1>8. closing' # closing => channel[h] \in {"pending", "open"}
  BY <1>3
<1>9. subjects[h] = <<>> => subjects'[h] = <<>>
  BY <1>4, <1>7
<1>10. QED
  BY <1>2, <1>4, <1>5, <1>6, <1>8, <1>9

\* What a release leaves of the lists, the count and who is live.
LEMMA ReleaseKeeps ==
  ASSUME Types, Lists, Counts, Afterwards, NEW s \in Subject, NEW h \in Handle, h = handle[s],
         ReleaseSubject(s), gone' = gone /\ Patient /\ ~hasty => closing[h] = 0,
         UNCHANGED <<handle, channel, listeners, forwarding>>,
         refCount'[s] = 0, \A t \in Subject \ {s} : refCount'[t] = refCount[t]
  PROVE  /\ Lists' /\ Counts'
         /\ \A g \in Handle : Live(g) /\ Live(g)' /\ subjects'[g] = <<>> => subjects[g] = <<>>
         /\ \A t \in Subject : refCount'[t] > 0 => refCount[t] > 0
<1>1. /\ Once(subjects'[h]) /\ Items(subjects'[h]) = Items(subjects[h]) \ {s}
      /\ \A g \in Handle \ {h} : subjects'[g] = subjects[g] /\ closing'[g] = closing[g]
      /\ closing'[h] \in {closing[h], closing[h] + 1} /\ closing[h] \in Nat
      /\ subjects'[h] # <<>> => closing' = closing
      /\ subjects'[h] = <<>> /\ channel[h] \in {"pending", "open"} =>
              closing'[h] = closing[h] + 1
      /\ closing' # closing => channel[h] \in {"pending", "open"}
      /\ subjects[h] = <<>> => subjects'[h] = <<>>
  BY ReleaseFacts DEF Types, TypeOK
<1>2. Lists'
  <2>1. \A g \in Handle : Once(subjects'[g])
    BY <1>1 DEF Lists
  <2>2. ASSUME NEW g \in Handle, NEW t \in Items(subjects'[g])
        PROVE  handle'[t] = g /\ refCount'[t] > 0
    <3>1. t # s /\ t \in Items(subjects[g]) /\ t \in Subject
      <4>1. t \in Items(subjects[g]) /\ (g = h => t # s)
        BY <1>1, <2>2
      <4>2. handle[t] = g /\ t \in Subject
        BY <4>1 DEF Lists, Types, TypeOK
      <4>3. QED
        BY <4>1, <4>2
    <3>2. QED
      BY <3>1 DEF Lists
  <2>3. ASSUME NEW t \in Subject, refCount'[t] > 0
        PROVE  handle'[t] \in Handle /\ t \in Items(subjects'[handle'[t]])
    BY <1>1, <2>3 DEF Lists
  <2>4. QED
    BY <2>1, <2>2, <2>3 DEF Lists
<1>3. Counts'
  <2>1. Holding' = Holding
    BY DEF Holding
  <2>2. ~hasty' => ~hasty
    BY HastyStays
  <2>3. ASSUME Patient, ~hasty', NEW g \in Handle, closing'[g] > 0
        PROVE  LastRelease(g)'
    <3>1. CASE g = h /\ closing'[h] = closing[h]
      <4>1. LastRelease(h)
        BY <2>2, <2>3, <3>1 DEF Counts
      <4>2. QED
        BY <1>1, <2>3, <3>1, <4>1, HastyStays DEF LastRelease
    <3>2. CASE g = h /\ closing'[h] = closing[h] + 1
      <4>1. closing'[h] > closing[h] /\ closing' # closing
        BY <1>1, <3>2
      <4>2. subjects'[h] = <<>> /\ channel[h] \in {"pending", "open"}
        BY <1>1, <4>1
      <4>3. CASE gone' = gone
        <5>1. closing[h] = 0 /\ h \in leaving'
          BY <1>1, <2>2, <2>3, <3>2, <4>1, <4>3, HastyStays
        <5>2. QED
          BY <3>2, <4>2, <5>1 DEF LastRelease
      <4>4. CASE gone' # gone
        <5>1. closing[h] = 0 /\ channel[h] = "open"
          BY <1>1, <2>3, <4>1, <4>2, <4>4, HastyStays
        <5>2. QED
          BY <3>2, <4>2, <5>1 DEF LastRelease
      <4>5. QED
        BY <4>3, <4>4
    <3>3. CASE g # h
      <4>1. closing'[g] = closing[g] /\ subjects'[g] = subjects[g]
        BY <1>1, <3>3
      <4>2. LastRelease(g)
        BY <2>2, <2>3, <4>1 DEF Counts
      <4>3. QED
        BY <2>3, <4>1, <4>2, HastyStays DEF LastRelease
    <3>4. QED
      BY <1>1, <3>1, <3>2, <3>3
  <2>4. QED
    BY <2>1, <2>2, <2>3 DEF Counts
<1>4. ASSUME NEW g \in Handle, Live(g), Live(g)', subjects'[g] = <<>>
      PROVE  subjects[g] = <<>>
  BY <1>1, <1>4 DEF Live
<1>5. QED
  BY <1>2, <1>3, <1>4

\* A handle subscribes to the channel, unless it has.
LEMMA EnsureFacts ==
  ASSUME Types, Counts, Afterwards, NEW h \in Handle, EnsureSubscribed(h),
         UNCHANGED <<closing, forwarding>>,
         \A g \in Handle : Patient /\ ~hasty /\ closing[g] > 0 => subjects'[g] = subjects[g]
  PROVE  /\ channel' \in [Handle -> {"none", "pending", "open", "rejected"}]
         /\ listeners' \in Int /\ asker' \in Handle \cup {None}
         /\ Counts'
         /\ \A g \in Handle : Live(g)' <=> Live(g)
<1>0. ASSUME Patient, ~hasty', NEW g \in Handle, closing'[g] > 0,
             channel[g] = "open" => channel'[g] = "open"
      PROVE  LastRelease(g)'
  <2>1. closing'[g] = closing[g] /\ subjects'[g] = subjects[g] /\ ~hasty
    BY <1>0, HastyStays
  <2>2. LastRelease(g)
    BY <1>0, <2>1 DEF Counts
  <2>3. QED
    BY <1>0, <2>1, <2>2, HastyStays DEF LastRelease
<1>1. CASE channel[h] # "none" /\ UNCHANGED <<channel, listeners, asker>>
  <2>1. Holding' = Holding /\ \A g \in Handle : Live(g)' <=> Live(g)
    BY <1>1 DEF Holding, Live
  <2>2. Counts'
    BY <1>0, <1>1, <2>1, HastyStays DEF Counts
  <2>3. QED
    BY <1>1, <2>1, <2>2 DEF Types, TypeOK
<1>2. CASE channel[h] = "none" /\ channel' = [channel EXCEPT ![h] = "pending"]
           /\ listeners' = listeners + 1 /\ asker' \in {h, asker}
  <2>1. /\ channel' \in [Handle -> {"none", "pending", "open", "rejected"}]
        /\ listeners' \in Int /\ asker' \in Handle \cup {None}
        /\ listeners \in Int
    BY <1>2 DEF Types, TypeOK
  <2>2. Holding' = Holding \cup {h} /\ h \notin Holding
    BY <1>2 DEF Holding, Types, TypeOK
  <2>3. IsFiniteSet(Holding') /\ Cardinality(Holding') = Cardinality(Holding) + 1
    BY <2>2, FS_AddElement DEF Counts
  <2>4. Counts'
    <3>1. \A g \in Handle : channel[g] = "open" => channel'[g] = "open"
      BY <1>2 DEF Types, TypeOK
    <3>2. /\ listeners' <= Cardinality(Holding')
          /\ Patient /\ ~hasty' => listeners' = Cardinality(Holding')
      <4>1. Cardinality(Holding) \in Nat
        BY FS_CardinalityType DEF Counts
      <4>2. QED
        BY <1>2, <2>1, <2>3, <4>1, HastyStays DEF Counts
    <3>3. QED
      BY <1>0, <2>3, <3>1, <3>2 DEF Counts
  <2>5. \A g \in Handle : Live(g)' <=> Live(g)
    BY <1>2 DEF Live, Types, TypeOK
  <2>6. QED
    BY <2>1, <2>4, <2>5
<1>3. QED
  BY <1>1, <1>2 DEF EnsureSubscribed

-----------------------------------------------------------------------------
(* The operations.                                                         *)

\* The types that no operation but a few touches, in groups the provers take.
Scalars ==
  /\ current \in Handle \cup {None} /\ asker \in Handle \cup {None}
  /\ gone \subseteq Subject /\ passed \subseteq Subject
  /\ listeners \in Int
  /\ log \in 0 .. MaxPublish

PerSubject ==
  /\ handle \in [Subject -> Handle \cup {None}]
  /\ refCount \in [Subject -> 0 .. MaxObservers]
  /\ activation \in [Subject -> {"no", "waiting", "done", "failed"}]
  /\ base \in [Subject -> 0 .. MaxPublish]
  /\ got \in [Subject -> Seq(1 .. MaxPublish)]

PerHandle ==
  /\ subjects \in [Handle -> Seq(Subject)]
  /\ buffer \in [Handle -> Seq(1 .. MaxPublish)]
  /\ channel \in [Handle -> {"none", "pending", "open", "rejected"}]
  /\ closing \in [Handle -> Nat]
  /\ since \in [Handle -> 0 .. MaxPublish]

Marks == leaving \subseteq Handle /\ {finalizing, hasty} \subseteq BOOLEAN

\* The types, by what they are of.
LEMMA TypeGroups ==
  Types <=> Scalars /\ PerSubject /\ PerHandle /\ forwarding \in BOOLEAN /\ Marks
<1>1. Types => Scalars /\ PerSubject /\ PerHandle /\ forwarding \in BOOLEAN /\ Marks
  BY Zenon DEF Types, TypeOK, Scalars, PerSubject, PerHandle, Marks
<1>2. ASSUME PerSubject, PerHandle
      PROVE  /\ \A s \in Subject : Items(got[s]) \subseteq 1 .. MaxPublish
             /\ \A h \in Handle : /\ Items(subjects[h]) \subseteq Subject
                                  /\ Items(buffer[h]) \subseteq 1 .. MaxPublish
  <2>1. ASSUME NEW S, NEW seq \in Seq(S) PROVE Items(seq) \subseteq S
    BY DEF Items
  <2>2. /\ \A s \in Subject : got[s] \in Seq(1 .. MaxPublish)
        /\ \A h \in Handle : subjects[h] \in Seq(Subject) /\ buffer[h] \in Seq(1 .. MaxPublish)
    BY <1>2 DEF PerSubject, PerHandle
  <2>3. QED
    BY <2>1, <2>2
<1>3. Scalars /\ PerSubject /\ PerHandle /\ forwarding \in BOOLEAN /\ Marks => Types
  BY <1>2, Zenon DEF Types, TypeOK, Scalars, PerSubject, PerHandle, Marks
<1>4. QED
  BY <1>1, <1>3

\* The same of the state after a step, which keeps what is remembered as it must be.
LEMMA TypeGroupsNext ==
  Scalars' /\ PerSubject' /\ PerHandle' /\ forwarding' \in BOOLEAN /\ Marks' => Types'
<1>1. (Scalars /\ PerSubject /\ PerHandle /\ forwarding \in BOOLEAN /\ Marks => Types)'
  <2>1. Scalars /\ PerSubject /\ PerHandle /\ forwarding \in BOOLEAN /\ Marks => Types
    BY TypeGroups
  <2>2. QED
    BY <2>1, PTL
<1>2. QED
  BY <1>1

LEMMA TypesAfter ==
  ASSUME Types, Afterwards, Scalars', PerSubject', PerHandle', forwarding' \in BOOLEAN
  PROVE  Types'
<1>1. leaving' \subseteq Handle
  BY DEF Afterwards
<1>2. finalizing' \in BOOLEAN /\ hasty' \in BOOLEAN
  BY Zenon DEF Afterwards
<1>3. QED
  BY <1>1, <1>2, TypeGroupsNext DEF Marks

\* broker.ts subject().
LEMMA SubjectKeeps ==
  ASSUME IInv, Afterwards, NEW s \in Subject, subject(s)
  PROVE  IInv'
<1>1. /\ Scalars /\ PerSubject /\ PerHandle /\ forwarding \in BOOLEAN /\ Types
  BY TypeGroups DEF IInv
<1>2. PICK h \in Handle : current' = h /\ handle' = [handle EXCEPT ![s] = h]
  BY DEF subject
<1>3. /\ UNCHANGED <<gone, refCount, got, activation, base, passed, subjects, buffer, channel,
                     closing, listeners, asker, forwarding, log>>
      /\ handle[s] = None
  BY DEF subject, adapterVars
<1>4. refCount[s] = 0
  BY <1>1, <1>3, BusSubjectAssumption DEF IInv, Lists, PerSubject
<1>5. Types'
  <2>1. Scalars'
    BY <1>1, <1>2, <1>3 DEF Scalars
  <2>2. PerSubject'
    BY <1>1, <1>2, <1>3 DEF PerSubject
  <2>3. since' \in [Handle -> 0 .. MaxPublish]
    BY <1>1, <1>3, SinceTypes DEF Scalars
  <2>4. PerHandle'
    BY <1>1, <1>3, <2>3 DEF PerHandle
  <2>5. QED
    BY <1>1, <1>3, <2>1, <2>2, <2>4, TypesAfter
<1>6. \A t \in Subject : refCount[t] > 0 => handle'[t] = handle[t]
  BY <1>1, <1>2, <1>4 DEF PerSubject
<1>7. Lists'
  <2>1. \A g \in Handle : \A t \in Items(subjects[g]) : t \in Subject
    BY <1>1 DEF Types, TypeOK
  <2>2. QED
    BY <1>3, <1>6, <2>1 DEF IInv, Lists
<1>8. Counts'
  <2>1. Holding' = Holding
    BY <1>3 DEF Holding
  <2>2. QED
    BY <1>1, <1>3, <2>1, CountsStay DEF IInv
<1>9. Heard'
  BY <1>1, <1>3, <1>5, <1>6, <1>7, QuietlyHeard DEF IInv
<1>10. QED
  BY <1>5, <1>7, <1>8, <1>9 DEF IInv

\* Patient user code does not use a handle whose release waits.
LEMMA KeepsOff ==
  ASSUME Types, Counts, NEW s \in Subject, NEW h \in Handle, h = handle[s], Usable(s),
         Patient, ~hasty
  PROVE  closing[h] = 0
<1>1. closing[h] \in Nat
  BY DEF Types, TypeOK
<1>2. h \notin leaving /\ (closing[h] = 0 \/ channel[h] = "pending")
  BY DEF Usable
<1>3. closing[h] > 0 => h \in leaving \/ channel[h] = "open"
  BY DEF Counts, LastRelease
<1>4. QED
  BY <1>1, <1>2, <1>3

\* broker.ts unobserve() and the release it may queue.
LEMMA UnobserveKeeps ==
  ASSUME IInv, Afterwards, NEW s \in Subject, unobserve(s)
  PROVE  IInv'
<1>1. /\ Scalars /\ PerSubject /\ PerHandle /\ forwarding \in BOOLEAN
      /\ Types /\ Lists /\ Counts /\ Heard
  BY TypeGroups DEF IInv
<1>2. /\ UNCHANGED <<handle, gone, got, activation, base, passed, buffer, channel,
                     listeners, asker, forwarding, log>>
      /\ refCount' = [refCount EXCEPT ![s] = @ - 1] /\ refCount[s] > 0
      /\ handle[s] # None
  BY DEF unobserve, adapterVars, Usable, Alive
<1>3. PICK h \in Handle : h = handle[s]
  BY <1>1, <1>2, HandleOf
<1>10. Patient /\ ~hasty => closing[h] = 0
  <2>1. Usable(s)
    BY DEF unobserve
  <2>2. QED
    BY <1>1, <1>3, <2>1, KeepsOff
<1>4. /\ refCount \in [Subject -> 0 .. MaxObservers] /\ MaxObservers \in Nat
      /\ refCount' \in [Subject -> 0 .. MaxObservers]
      /\ refCount'[s] = refCount[s] - 1
      /\ \A t \in Subject \ {s} : refCount'[t] = refCount[t]
  BY <1>1, <1>2, BusSubjectAssumption DEF PerSubject
<1>5. PerSubject'
  BY <1>1, <1>2, <1>4 DEF PerSubject
<1>6. since' \in [Handle -> 0 .. MaxPublish]
  BY <1>1, <1>2, SinceTypes DEF Scalars
<1>7. CASE refCount[s] = 1
  <2>1. ReleaseSubject(s)
    BY <1>7 DEF unobserve
  <2>2. /\ subjects' \in [Handle -> Seq(Subject)] /\ closing' \in [Handle -> Nat]
        /\ current' \in Handle \cup {None}
    BY <1>1, <1>3, <2>1, ReleaseFacts
  <2>3. Types'
    <3>1. Scalars'
      BY <1>1, <1>2, <2>2 DEF Scalars
    <3>2. PerHandle'
      BY <1>1, <1>2, <1>6, <2>2 DEF PerHandle
    <3>3. QED
      BY <1>1, <1>2, <1>5, <3>1, <3>2, TypesAfter
  <2>4. refCount'[s] = 0
    BY <1>4, <1>7
  <2>5. /\ Lists' /\ Counts'
        /\ \A g \in Handle : Live(g) /\ Live(g)' /\ subjects'[g] = <<>> => subjects[g] = <<>>
        /\ \A t \in Subject : refCount'[t] > 0 => refCount[t] > 0
    BY <1>1, <1>2, <1>3, <1>4, <1>10, <2>1, <2>4, ReleaseKeeps
  <2>6. Heard'
    BY <1>1, <1>2, <2>3, <2>5, QuietlyHeard
  <2>7. QED
    BY <2>3, <2>5, <2>6 DEF IInv
<1>8. CASE refCount[s] # 1
  <2>1. UNCHANGED <<subjects, closing, current>>
    BY <1>8 DEF unobserve
  <2>2. Types'
    <3>1. Scalars'
      BY <1>1, <1>2, <2>1 DEF Scalars
    <3>2. PerHandle'
      BY <1>1, <1>2, <1>6, <2>1 DEF PerHandle
    <3>3. QED
      BY <1>1, <1>2, <1>5, <3>1, <3>2, TypesAfter
  <2>3. \A t \in Subject : refCount'[t] > 0 <=> refCount[t] > 0
    BY <1>2, <1>4, <1>8
  <2>4. \A g \in Handle : \A t \in Items(subjects[g]) : t \in Subject
    BY <1>1 DEF Types, TypeOK
  <2>5. Lists'
    BY <1>1, <1>2, <2>1, <2>3, <2>4 DEF Lists
  <2>6. Counts'
    <3>1. Holding' = Holding
      BY <1>2, <2>1 DEF Holding
    <3>2. QED
      BY <1>1, <1>2, <2>1, <3>1, CountsStay
  <2>7. Heard'
    BY <1>1, <1>2, <2>1, <2>2, <2>3, <2>5, QuietlyHeard
  <2>8. QED
    BY <2>2, <2>5, <2>6, <2>7 DEF IInv
<1>9. QED
  BY <1>7, <1>8

\* The finalizer of a subject.
LEMMA CollectKeeps ==
  ASSUME IInv, Afterwards, NEW s \in Subject, collect(s)
  PROVE  IInv'
<1>1. /\ Scalars /\ PerSubject /\ PerHandle /\ forwarding \in BOOLEAN
      /\ Types /\ Lists /\ Counts /\ Heard
  BY TypeGroups DEF IInv
<1>2. /\ UNCHANGED <<handle, got, activation, base, passed, buffer, channel,
                     listeners, asker, forwarding, log>>
      /\ refCount' = [refCount EXCEPT ![s] = 0] /\ gone' = gone \cup {s}
      /\ handle[s] # None /\ gone' # gone
      /\ ReleaseSubject(s)
  BY DEF collect, adapterVars, Alive
<1>3. PICK h \in Handle : h = handle[s]
  BY <1>1, <1>2, HandleOf
<1>4. /\ refCount' \in [Subject -> 0 .. MaxObservers]
      /\ refCount'[s] = 0
      /\ \A t \in Subject \ {s} : refCount'[t] = refCount[t]
  BY <1>1, <1>2, BusSubjectAssumption DEF PerSubject
<1>5. /\ subjects' \in [Handle -> Seq(Subject)] /\ closing' \in [Handle -> Nat]
      /\ current' \in Handle \cup {None}
  BY <1>1, <1>2, <1>3, ReleaseFacts
<1>6. Types'
  <2>1. PerSubject'
    BY <1>1, <1>2, <1>4 DEF PerSubject
  <2>2. since' \in [Handle -> 0 .. MaxPublish]
    BY <1>1, <1>2, SinceTypes DEF Scalars
  <2>3. Scalars'
    BY <1>1, <1>2, <1>5 DEF Scalars
  <2>4. PerHandle'
    BY <1>1, <1>2, <1>5, <2>2 DEF PerHandle
  <2>5. QED
    BY <1>1, <1>2, <2>1, <2>3, <2>4, TypesAfter
<1>7. /\ Lists' /\ Counts'
      /\ \A g \in Handle : Live(g) /\ Live(g)' /\ subjects'[g] = <<>> => subjects[g] = <<>>
      /\ \A t \in Subject : refCount'[t] > 0 => refCount[t] > 0
  BY <1>1, <1>2, <1>3, <1>4, ReleaseKeeps
<1>8. Heard'
  BY <1>1, <1>2, <1>6, <1>7, QuietlyHeard
<1>9. QED
  BY <1>6, <1>7, <1>8 DEF IInv

\* activateSubject().
LEMMA ActivateKeeps ==
  ASSUME IInv, Afterwards, NEW s \in Subject, activateSubject(s)
  PROVE  IInv'
<1>1. /\ Scalars /\ PerSubject /\ PerHandle /\ forwarding \in BOOLEAN
      /\ Types /\ Lists /\ Counts /\ Heard
  BY TypeGroups DEF IInv
<1>2. /\ UNCHANGED <<current, handle, gone, refCount, got, base, passed, subjects, buffer,
                     closing, forwarding, log>>
      /\ handle[s] # None /\ EnsureSubscribed(handle[s])
      /\ activation' \in [Subject -> {"no", "waiting", "done", "failed"}]
  BY <1>1 DEF activateSubject, Usable, Alive, PerSubject
<1>3. PICK h \in Handle : h = handle[s]
  BY <1>1, <1>2, HandleOf
<1>4. /\ channel' \in [Handle -> {"none", "pending", "open", "rejected"}]
      /\ listeners' \in Int /\ asker' \in Handle \cup {None}
      /\ Counts'
      /\ \A g \in Handle : Live(g)' <=> Live(g)
  BY <1>1, <1>2, <1>3, EnsureFacts
<1>5. Types'
  <2>1. PerSubject'
    BY <1>1, <1>2 DEF PerSubject
  <2>2. since' \in [Handle -> 0 .. MaxPublish]
    BY <1>1, <1>2, SinceTypes DEF Scalars
  <2>3. Scalars'
    BY <1>1, <1>2, <1>4 DEF Scalars
  <2>4. PerHandle'
    BY <1>1, <1>2, <1>4, <2>2 DEF PerHandle
  <2>5. QED
    BY <1>1, <1>2, <2>1, <2>3, <2>4, TypesAfter
<1>6. Lists'
  BY <1>1, <1>2 DEF Lists
<1>7. Heard'
  BY <1>1, <1>2, <1>5, <1>6, QuietlyHeard
<1>8. QED
  BY <1>4, <1>5, <1>6, <1>7 DEF IInv

\* observe().
LEMMA ObserveKeeps ==
  ASSUME IInv, Afterwards, NEW s \in Subject, observe(s)
  PROVE  IInv'
<1>1. /\ Scalars /\ PerSubject /\ PerHandle /\ forwarding \in BOOLEAN
      /\ Types /\ Lists /\ Counts /\ Heard
  BY TypeGroups DEF IInv
<1>2. /\ UNCHANGED <<current, handle, gone, activation, passed, closing, forwarding, log>>
      /\ refCount' = [refCount EXCEPT ![s] = @ + 1] /\ refCount[s] < MaxObservers
      /\ handle[s] # None
  BY DEF observe, Usable, Alive
<1>3. PICK h \in Handle : h = handle[s]
  BY <1>1, <1>2, HandleOf
<1>9. Patient /\ ~hasty => closing[h] = 0
  <2>1. Usable(s)
    BY DEF observe
  <2>2. QED
    BY <1>1, <1>3, <2>1, KeepsOff
<1>4. /\ refCount \in [Subject -> 0 .. MaxObservers] /\ MaxObservers \in Nat
      /\ refCount' \in [Subject -> 0 .. MaxObservers]
      /\ refCount'[s] = refCount[s] + 1
      /\ \A t \in Subject \ {s} : refCount'[t] = refCount[t]
  BY <1>1, <1>2, BusSubjectAssumption DEF PerSubject
<1>5. since' \in [Handle -> 0 .. MaxPublish]
  BY <1>1, <1>2, SinceTypes DEF Scalars
<1>6. CASE refCount[s] > 0
  <2>1. UNCHANGED <<subjects, got, buffer, base, channel, listeners, asker>>
    BY <1>6 DEF observe
  <2>2. Types'
    <3>1. Scalars'
      BY <1>1, <1>2, <2>1 DEF Scalars
    <3>2. PerSubject'
      BY <1>1, <1>2, <1>4, <2>1 DEF PerSubject
    <3>3. PerHandle'
      BY <1>1, <1>2, <1>5, <2>1 DEF PerHandle
    <3>4. QED
      BY <1>1, <1>2, <3>1, <3>2, <3>3, TypesAfter
  <2>3. \A t \in Subject : refCount'[t] > 0 <=> refCount[t] > 0
    BY <1>4, <1>6
  <2>4. \A g \in Handle : \A t \in Items(subjects[g]) : t \in Subject
    BY <1>1 DEF Types, TypeOK
  <2>5. Lists'
    BY <1>1, <1>2, <2>1, <2>3, <2>4 DEF Lists
  <2>6. Counts'
    <3>1. Holding' = Holding
      BY <1>2, <2>1 DEF Holding
    <3>2. QED
      BY <1>1, <1>2, <2>1, <3>1, CountsStay
  <2>7. Heard'
    BY <1>1, <1>2, <2>1, <2>2, <2>3, <2>5, QuietlyHeard
  <2>8. QED
    BY <2>2, <2>5, <2>6, <2>7 DEF IInv
<1>7. CASE refCount[s] = 0
  <2>1. /\ subjects' = [subjects EXCEPT ![h] = Append(@, s)]
        /\ got' = [got EXCEPT ![s] = got[s] \o buffer[h]]
        /\ buffer' = [buffer EXCEPT ![h] = <<>>]
        /\ base' = [base EXCEPT ![s] = IF subjects[h] = <<>> /\ Live(h) THEN since[h] ELSE log]
        /\ EnsureSubscribed(h)
    <3>1. /\ subjects' = [subjects EXCEPT ![handle[s]] = Append(@, s)]
          /\ got' = [got EXCEPT ![s] = Replay(s)]
          /\ buffer' = [buffer EXCEPT ![handle[s]] = <<>>]
          /\ base' = [base EXCEPT ![s] = IF subjects[handle[s]] = <<>> /\ Live(handle[s])
                                         THEN since[handle[s]] ELSE log]
          /\ EnsureSubscribed(handle[s])
      BY <1>7 DEF observe, Emptied
    <3>2. QED
      BY <1>3, <3>1 DEF Replay
  <2>2. /\ subjects \in [Handle -> Seq(Subject)] /\ got \in [Subject -> Seq(1 .. MaxPublish)]
        /\ buffer \in [Handle -> Seq(1 .. MaxPublish)] /\ since \in [Handle -> 0 .. MaxPublish]
        /\ base \in [Subject -> 0 .. MaxPublish] /\ log \in 0 .. MaxPublish
    BY <1>1 DEF PerHandle, PerSubject, Scalars
  <2>3. Once(subjects[h]) /\ s \notin Items(subjects[h])
    BY <1>1, <1>7 DEF Lists
  <2>4. PICK list \in Seq(Subject) : /\ list = Append(subjects[h], s) /\ list # <<>>
                                     /\ Items(list) = Items(subjects[h]) \cup {s} /\ Once(list)
    <3>1. subjects[h] \in Seq(Subject)
      BY <2>2
    <3>2. Append(subjects[h], s) # <<>>
      BY <3>1
    <3>3. QED
      BY <2>3, <3>1, <3>2, PushItem
  <2>5. /\ subjects' \in [Handle -> Seq(Subject)] /\ subjects'[h] = list
        /\ \A g \in Handle \ {h} : subjects'[g] = subjects[g]
    BY <2>1, <2>2, <2>4
  <2>6. /\ channel' \in [Handle -> {"none", "pending", "open", "rejected"}]
        /\ listeners' \in Int /\ asker' \in Handle \cup {None}
        /\ Counts'
        /\ \A g \in Handle : Live(g)' <=> Live(g)
    <3>1. \A g \in Handle : Patient /\ ~hasty /\ closing[g] > 0 => subjects'[g] = subjects[g]
      BY <1>9, <2>5
    <3>2. QED
      BY <1>1, <1>2, <2>1, <3>1, EnsureFacts
  <2>7. /\ buffer' \in [Handle -> Seq(1 .. MaxPublish)]
        /\ \A g \in Handle \ {h} : buffer'[g] = buffer[g]
    BY <2>1, <2>2
  <2>8. /\ got' \in [Subject -> Seq(1 .. MaxPublish)] /\ got'[s] = got[s] \o buffer[h]
        /\ \A t \in Subject \ {s} : got'[t] = got[t]
    <3>1. got[s] \o buffer[h] \in Seq(1 .. MaxPublish)
      BY <2>2
    <3>2. QED
      BY <2>1, <2>2, <3>1
  <2>9. /\ base' \in [Subject -> 0 .. MaxPublish]
        /\ base'[s] = IF subjects[h] = <<>> /\ Live(h) THEN since[h] ELSE log
        /\ \A t \in Subject \ {s} : base'[t] = base[t]
    BY <2>1, <2>2
  <2>10. Types'
    <3>1. Scalars'
      BY <1>1, <1>2, <2>6 DEF Scalars
    <3>2. PerSubject'
      BY <1>1, <1>2, <1>4, <2>8, <2>9 DEF PerSubject
    <3>3. PerHandle'
      BY <1>1, <1>2, <1>5, <2>5, <2>6, <2>7 DEF PerHandle
    <3>4. QED
      BY <1>1, <1>2, <3>1, <3>2, <3>3, TypesAfter
  <2>11. Lists'
    <3>1. \A g \in Handle : Once(subjects'[g])
      BY <1>1, <2>4, <2>5 DEF Lists
    <3>2. ASSUME NEW g \in Handle, NEW t \in Items(subjects'[g])
          PROVE  handle'[t] = g /\ refCount'[t] > 0
      <4>1. CASE g = h /\ t = s
        BY <1>2, <1>3, <1>4, <4>1
      <4>2. CASE t \in Items(subjects[g])
        <5>1. t \in Subject /\ handle[t] = g /\ refCount[t] > 0
          BY <1>1, <4>2 DEF Lists, Types, TypeOK
        <5>2. QED
          BY <1>2, <1>4, <1>7, <5>1
      <4>3. QED
        BY <2>4, <2>5, <3>2, <4>1, <4>2
    <3>3. ASSUME NEW t \in Subject, refCount'[t] > 0
          PROVE  handle'[t] \in Handle /\ t \in Items(subjects'[handle'[t]])
      <4>1. CASE t = s
        BY <1>2, <1>3, <2>4, <2>5, <4>1
      <4>2. CASE t # s
        <5>1. handle[t] \in Handle /\ t \in Items(subjects[handle[t]])
          BY <1>1, <1>4, <3>3, <4>2 DEF Lists
        <5>2. QED
          BY <1>2, <2>4, <2>5, <5>1
      <4>3. QED
        BY <4>1, <4>2
    <3>4. QED
      BY <3>1, <3>2, <3>3 DEF Lists
  <2>12. Heard'
    <3>1. log' >= log /\ \A t \in Subject : base'[t] <= log'
      <4>1. /\ log' = log /\ log \in Nat /\ since[h] <= log
            /\ \A t \in Subject : base[t] <= log
        BY <1>1, <1>2, <2>2, BusSubjectAssumption DEF Heard
      <4>2. base'[s] \in {since[h], log}
        BY <2>9
      <4>3. QED
        BY <2>9, <4>1, <4>2
    <3>2. ASSUME NEW g \in Handle, Live(g), Live(g)', subjects'[g] = <<>>
          PROVE  Covers(buffer'[g], since[g], log')
      <4>1. g # h /\ subjects[g] = <<>>
        BY <2>4, <2>5, <3>2
      <4>2. QED
        BY <1>1, <1>2, <2>7, <3>2, <4>1 DEF Heard
    <3>3. ASSUME NEW t \in Subject, NEW g \in Handle,
                 refCount'[t] > 0, handle'[t] = g, Live(g), Live(g)', t \notin passed'
          PROVE  Covers(got'[t], Larger(base'[t], since[g]), log')
      <4>1. CASE t # s
        <5>1. refCount[t] > 0 /\ handle[t] = g /\ t \notin passed
          BY <1>2, <1>4, <3>3, <4>1
        <5>2. Live(handle[t])
          BY <3>3, <5>1
        <5>3. Covers(got[t], Larger(base[t], since[g]), log)
          BY <1>1, <5>1, <5>2 DEF Heard
        <5>4. QED
          BY <1>2, <2>8, <2>9, <4>1, <5>3
      <4>2. CASE t = s /\ subjects[h] = <<>>
        <5>1. g = h /\ base'[s] = since[h]
          BY <1>2, <1>3, <2>9, <3>3, <4>2
        <5>2. Covers(buffer[h], since[h], log)
          BY <1>1, <3>3, <4>2, <5>1 DEF Heard
        <5>3. Covers(got[s] \o buffer[h], since[h], log)
          <6>1. got[s] \in Seq(1 .. MaxPublish) /\ buffer[h] \in Seq(1 .. MaxPublish)
            BY <2>2
          <6>2. since[h] \in Nat /\ log \in Nat
            BY <2>2, BusSubjectAssumption
          <6>3. QED
            BY <5>2, <6>1, <6>2, CoversAfter
        <5>4. Larger(since[h], since[h]) = since[h]
          BY DEF Larger
        <5>5. QED
          BY <1>2, <2>8, <4>2, <5>1, <5>3, <5>4
      <4>3. CASE t = s /\ subjects[h] # <<>>
        <5>1. g = h /\ base'[s] = log
          BY <1>2, <1>3, <2>9, <3>3, <4>3
        <5>2. /\ since[h] \in Nat /\ log \in Nat /\ since[h] <= log
              /\ got'[s] \in Seq(1 .. MaxPublish)
          BY <1>1, <2>2, <2>8, BusSubjectAssumption DEF Heard
        <5>3. Larger(log, since[h]) = log
          BY <5>2 DEF Larger
        <5>4. Covers(got'[s], log, log)
          BY <5>2, CoversNone
        <5>5. QED
          BY <1>2, <4>3, <5>1, <5>3, <5>4
      <4>4. QED
        BY <4>1, <4>2, <4>3
    <3>4. QED
      BY <1>1, <2>10, <2>11, <3>1, <3>2, <3>3, HeardKeeps
  <2>13. QED
    BY <2>6, <2>10, <2>11, <2>12 DEF IInv
<1>8. QED
  BY <1>4, <1>6, <1>7

\* The answer to Subscribe, or its refusal.
LEMMA SettleKeeps ==
  ASSUME IInv, Afterwards, NEW h \in Handle, NEW state \in {"open", "rejected"},
         NEW outcome \in {"done", "failed"}, Settle(h, state, outcome),
         forwarding' \in BOOLEAN, closing' \in {closing, [closing EXCEPT ![h] = 0]}
  PROVE  IInv'
<1>1. /\ Scalars /\ PerSubject /\ PerHandle /\ Types /\ Lists /\ Counts /\ Heard
  BY TypeGroups DEF IInv
<1>2. /\ UNCHANGED <<current, handle, gone, refCount, got, base, passed, subjects, buffer,
                     listeners, log>>
      /\ channel[h] = "pending" /\ channel' = [channel EXCEPT ![h] = state]
      /\ asker' \in {None, asker}
      /\ activation' \in [Subject -> {"no", "waiting", "done", "failed"}]
  BY <1>1 DEF Settle, PerSubject
<1>3. Types'
  <2>1. PerSubject'
    BY <1>1, <1>2 DEF PerSubject
  <2>2. since' \in [Handle -> 0 .. MaxPublish]
    BY <1>1, <1>2, SinceTypes DEF Scalars
  <2>3. Scalars'
    BY <1>1, <1>2 DEF Scalars
  <2>4. PerHandle'
    <3>1. closing \in [Handle -> Nat] /\ [closing EXCEPT ![h] = 0] \in [Handle -> Nat]
      BY <1>1 DEF PerHandle
    <3>2. closing' \in [Handle -> Nat]
      BY <3>1
    <3>3. channel' \in [Handle -> {"none", "pending", "open", "rejected"}]
      BY <1>1, <1>2 DEF PerHandle
    <3>4. QED
      BY <1>1, <1>2, <2>2, <3>2, <3>3 DEF PerHandle
  <2>5. QED
    BY <1>1, <2>1, <2>3, <2>4, TypesAfter
<1>4. Lists'
  BY <1>1, <1>2 DEF Lists
<1>5. Counts'
  <2>1. Holding' = Holding
    BY <1>1, <1>2 DEF Holding, PerHandle
  <2>2. \A g \in Handle : /\ closing'[g] > 0 => closing'[g] = closing[g]
                          /\ channel[g] = "open" => channel'[g] = "open"
    BY <1>1, <1>2 DEF PerHandle
  <2>3. QED
    BY <1>1, <1>2, <2>1, <2>2, CountsStay
<1>6. Heard'
  BY <1>1, <1>2, <1>3, <1>4, QuietlyHeard
<1>7. QED
  BY <1>3, <1>4, <1>5, <1>6 DEF IInv

\* The reaction that closes the channel of a handle.
LEMMA CloseKeeps ==
  ASSUME IInv, Afterwards, NEW h \in Handle, closeChannel(h)
  PROVE  IInv'
<1>1. /\ Scalars /\ PerSubject /\ PerHandle /\ Types /\ Lists /\ Counts /\ Heard
  BY TypeGroups DEF IInv
<1>2. /\ UNCHANGED <<current, handle, gone, refCount, got, activation, base, passed,
                     subjects, buffer, asker, log>>
      /\ channel[h] = "open" /\ closing[h] > 0
      /\ channel' = [channel EXCEPT ![h] = "none"] /\ closing' = [closing EXCEPT ![h] = 0]
      /\ listeners' = listeners - closing[h]
  BY DEF closeChannel, Unset, ChannelReleases, subjectVars
<1>3. forwarding' \in BOOLEAN
  BY DEF closeChannel
<1>4. listeners \in Int /\ closing \in [Handle -> Nat]
  BY <1>1 DEF Scalars, PerHandle
<1>5. Types'
  <2>1. PerSubject'
    BY <1>1, <1>2 DEF PerSubject
  <2>2. since' \in [Handle -> 0 .. MaxPublish]
    BY <1>1, <1>2, SinceTypes DEF Scalars
  <2>3. Scalars'
    BY <1>1, <1>2, <1>4 DEF Scalars
  <2>4. PerHandle'
    BY <1>1, <1>2, <2>2 DEF PerHandle
  <2>5. QED
    BY <1>1, <1>3, <2>1, <2>3, <2>4, TypesAfter
<1>6. Lists'
  BY <1>1, <1>2 DEF Lists
<1>7. Counts'
  <2>1. Holding' = Holding \ {h} /\ h \in Holding
    BY <1>1, <1>2 DEF Holding, PerHandle
  <2>2. IsFiniteSet(Holding') /\ Cardinality(Holding') = Cardinality(Holding) - 1
    BY <1>1, <2>1, FS_RemoveElement DEF Counts
  <2>3. /\ listeners' <= Cardinality(Holding')
        /\ Patient /\ ~hasty' => listeners' = Cardinality(Holding')
    <3>1. Cardinality(Holding) \in Nat /\ closing[h] \in Nat
      BY <1>1, <1>4, FS_CardinalityType DEF Counts
    <3>2. Patient /\ ~hasty' => listeners = Cardinality(Holding) /\ closing[h] = 1
      BY <1>1, <1>2, HastyStays DEF Counts, LastRelease
    <3>3. QED
      BY <1>1, <1>2, <1>4, <2>2, <3>1, <3>2 DEF Counts
  <2>4. ASSUME Patient, ~hasty', NEW g \in Handle, closing'[g] > 0
        PROVE  LastRelease(g)'
    <3>1. g # h /\ closing'[g] = closing[g] /\ channel'[g] = channel[g]
      BY <1>1, <1>2, <1>4, <2>4 DEF PerHandle
    <3>2. LastRelease(g)
      BY <1>1, <2>4, <3>1, HastyStays DEF Counts
    <3>3. QED
      BY <1>1, <1>2, <2>4, <3>1, <3>2, HastyStays DEF LastRelease
  <2>5. QED
    BY <2>2, <2>3, <2>4 DEF Counts
<1>8. Heard'
  BY <1>1, <1>2, <1>5, <1>6, QuietlyHeard
<1>9. QED
  BY <1>5, <1>6, <1>7, <1>8 DEF IInv

\* What a message does to the messages buffered and received.
LEMMA PassedFacts ==
  ASSUME Types, NEW skipped \in SUBSET Subject, Passed(skipped)
  PROVE  /\ log' = log + 1 /\ log' \in 1 .. MaxPublish /\ passed' = passed \cup skipped
         /\ UNCHANGED <<handle, gone, activation, base, channel, listeners, asker, forwarding>>
         /\ buffer' \in [Handle -> Seq(1 .. MaxPublish)]
         /\ got' \in [Subject -> Seq(1 .. MaxPublish)]
         /\ \A h \in Handle : channel[h] # "none" /\ subjects[h] = <<>> =>
              buffer'[h] = Append(buffer[h], log')
         /\ \A s \in Subject : \A h \in Handle :
              channel[h] # "none" /\ s \in Items(subjects[h]) \ skipped =>
                got'[s] = Append(got[s], log')
<1> DEFINE listening == { h \in Handle : channel[h] # "none" }
<1>1. /\ log' = log + 1 /\ log < MaxPublish /\ passed' = passed \cup skipped
      /\ UNCHANGED <<handle, gone, activation, base, channel, listeners, asker, forwarding>>
      /\ buffer' = [h \in Handle |-> IF h \in listening /\ subjects[h] = <<>>
                                     THEN Append(buffer[h], log + 1) ELSE buffer[h]]
      /\ got' = [s \in Subject |->
           IF \E h \in listening : s \in Items(subjects[h]) \ skipped
           THEN Append(got[s], log + 1) ELSE got[s]]
  BY DEF Passed, adapterVars
<1>2. /\ log \in Nat /\ MaxPublish \in Nat /\ log + 1 \in 1 .. MaxPublish
      /\ \A h \in Handle : buffer[h] \in Seq(1 .. MaxPublish)
      /\ \A s \in Subject : got[s] \in Seq(1 .. MaxPublish)
  BY <1>1, BusSubjectAssumption DEF Types, TypeOK
<1>3. ASSUME NEW seq \in Seq(1 .. MaxPublish)
      PROVE  Append(seq, log + 1) \in Seq(1 .. MaxPublish)
  BY <1>2
<1>4. \A h \in Handle : h \in listening <=> channel[h] # "none"
  OBVIOUS
<1> HIDE DEF listening
<1>5. /\ buffer' \in [Handle -> Seq(1 .. MaxPublish)]
      /\ \A h \in Handle : channel[h] # "none" /\ subjects[h] = <<>> =>
           buffer'[h] = Append(buffer[h], log')
  BY <1>1, <1>2, <1>3, <1>4
<1>6. got' \in [Subject -> Seq(1 .. MaxPublish)]
  BY <1>1, <1>2, <1>3
<1>7. ASSUME NEW s \in Subject, NEW h \in Handle, channel[h] # "none",
             s \in Items(subjects[h]) \ skipped
      PROVE  got'[s] = Append(got[s], log')
  <2>1. \E g \in listening : s \in Items(subjects[g]) \ skipped
    BY <1>4, <1>7
  <2>2. QED
    BY <1>1, <2>1
<1>8. QED
  BY <1>1, <1>2, <1>5, <1>6, <1>7

\* A message reaches every live handle and every subject it does not pass over.
LEMMA PassedHeard ==
  ASSUME Types, Lists, Heard, Afterwards, Types', Lists',
         NEW skipped \in SUBSET Subject, Passed(skipped),
         \A h \in Handle : Live(h) /\ Live(h)' /\ subjects'[h] = <<>> => subjects[h] = <<>>,
         \A s \in Subject : refCount'[s] > 0 => refCount[s] > 0
  PROVE  Heard'
<1>1. /\ log' = log + 1 /\ log' \in 1 .. MaxPublish /\ passed' = passed \cup skipped
      /\ UNCHANGED <<handle, base>>
      /\ \A h \in Handle : channel[h] # "none" /\ subjects[h] = <<>> =>
           buffer'[h] = Append(buffer[h], log')
      /\ \A s \in Subject : \A h \in Handle :
           channel[h] # "none" /\ s \in Items(subjects[h]) \ skipped =>
             got'[s] = Append(got[s], log')
  BY PassedFacts
<1>2. /\ log \in Nat /\ \A h \in Handle : since[h] \in Nat /\ since[h] <= log
      /\ \A s \in Subject : base[s] \in Nat /\ base[s] <= log
  <2>1. /\ log \in 0 .. MaxPublish /\ since \in [Handle -> 0 .. MaxPublish]
        /\ base \in [Subject -> 0 .. MaxPublish] /\ MaxPublish \in Nat
    BY BusSubjectAssumption DEF Types, TypeOK
  <2>2. (\A h \in Handle : since[h] <= log) /\ (\A s \in Subject : base[s] <= log)
    BY DEF Heard
  <2>3. QED
    BY <2>1, <2>2
<1>3. log' >= log /\ \A s \in Subject : base'[s] <= log'
  BY <1>1, <1>2
<1>4. ASSUME NEW h \in Handle, Live(h), Live(h)', subjects'[h] = <<>>
      PROVE  Covers(buffer'[h], since[h], log')
  <2>1. subjects[h] = <<>> /\ channel[h] # "none" /\ buffer[h] \in Seq(1 .. MaxPublish)
    BY <1>4 DEF Live, Types
  <2>2. buffer'[h] = Append(buffer[h], log + 1) /\ log + 1 \in 1 .. MaxPublish
    BY <1>1, <2>1
  <2>3. Covers(buffer[h], since[h], log)
    BY <1>4, <2>1 DEF Heard
  <2>4. Covers(Append(buffer[h], log + 1), since[h], log + 1)
    BY <1>2, <2>1, <2>2, <2>3, CoversNext
  <2>5. QED
    BY <1>1, <2>2, <2>4
<1>5. ASSUME NEW s \in Subject, NEW h \in Handle,
             refCount'[s] > 0, handle'[s] = h, Live(h), Live(h)', s \notin passed'
      PROVE  Covers(got'[s], Larger(base'[s], since[h]), log')
  <2>1. refCount[s] > 0 /\ handle[s] = h /\ s \notin passed /\ s \notin skipped
    BY <1>1, <1>5
  <2>2. s \in Items(subjects[h]) /\ channel[h] # "none" /\ Live(handle[s])
    BY <1>5, <2>1 DEF Lists, Live
  <2>3. got'[s] = Append(got[s], log + 1) /\ log + 1 \in 1 .. MaxPublish
    BY <1>1, <2>1, <2>2
  <2>4. got[s] \in Seq(1 .. MaxPublish)
    BY DEF Types
  <2>5. PICK from \in Nat : from = Larger(base[s], since[h]) /\ from <= log
    BY <1>2 DEF Larger
  <2>6. Covers(got[s], from, log)
    BY <2>1, <2>2, <2>5 DEF Heard
  <2>7. Covers(Append(got[s], log + 1), from, log + 1)
    BY <1>2, <2>3, <2>4, <2>5, <2>6, CoversNext
  <2>8. QED
    BY <1>1, <2>3, <2>5, <2>7
<1>6. QED
  BY <1>3, <1>4, <1>5, HeardKeeps

\* A message that reaches the handles.
LEMMA MessageKeeps ==
  ASSUME IInv, Afterwards, message
  PROVE  IInv'
<1>1. /\ Scalars /\ PerSubject /\ PerHandle /\ forwarding \in BOOLEAN
      /\ Types /\ Lists /\ Counts /\ Heard
  BY TypeGroups DEF IInv
<1>2. Passed({}) /\ UNCHANGED <<current, refCount, subjects, closing>>
  BY DEF message
<1>3. /\ log' \in 1 .. MaxPublish /\ passed' = passed
      /\ UNCHANGED <<handle, gone, activation, base, channel, listeners, asker, forwarding>>
      /\ buffer' \in [Handle -> Seq(1 .. MaxPublish)]
      /\ got' \in [Subject -> Seq(1 .. MaxPublish)]
  <2>1. {} \in SUBSET Subject /\ passed \cup {} = passed
    OBVIOUS
  <2>2. QED
    BY <1>1, <1>2, <2>1, PassedFacts
<1>4. Types'
  <2>1. PerSubject'
    BY <1>1, <1>2, <1>3 DEF PerSubject
  <2>2. since' \in [Handle -> 0 .. MaxPublish]
    BY <1>1, <1>3, SinceTypes
  <2>3. Scalars'
    BY <1>1, <1>2, <1>3 DEF Scalars
  <2>4. PerHandle'
    BY <1>1, <1>2, <1>3, <2>2 DEF PerHandle
  <2>5. QED
    BY <1>1, <1>3, <2>1, <2>3, <2>4, TypesAfter
<1>5. Lists'
  BY <1>1, <1>2, <1>3 DEF Lists
<1>6. Counts'
  <2>1. Holding' = Holding
    BY <1>3 DEF Holding
  <2>2. QED
    BY <1>1, <1>2, <1>3, <2>1, CountsStay
<1>7. Heard'
  BY <1>1, <1>2, <1>4, <1>5, PassedHeard
<1>8. QED
  BY <1>4, <1>5, <1>6, <1>7 DEF IInv

\* A message on which an observer leaves.
LEMMA OneShotKeeps ==
  ASSUME IInv, Afterwards, NEW h \in Handle, NEW i \in DOMAIN subjects[h], messageOneShot(h, i)
  PROVE  IInv'
<1>1. /\ Scalars /\ PerSubject /\ PerHandle /\ forwarding \in BOOLEAN
      /\ Types /\ Lists /\ Counts /\ Heard
  BY TypeGroups DEF IInv
<1>2. \A j \in DOMAIN subjects[h] : subjects[h][j] \in Subject
  BY <1>1 DEF PerHandle
<1>3. PICK s \in Subject : s = subjects[h][i]
  BY <1>2
<1>4. PICK skipped \in SUBSET Subject :
        skipped = { subjects[h][j] : j \in {i + 1} \cap DOMAIN subjects[h] }
  BY <1>2
<1>5. /\ refCount' = [refCount EXCEPT ![s] = 0]
      /\ Passed(skipped) /\ ReleaseSubject(s)
  BY <1>3, <1>4 DEF messageOneShot
<1>6. /\ log' \in 1 .. MaxPublish /\ passed' = passed \cup skipped
      /\ UNCHANGED <<handle, gone, activation, base, channel, listeners, asker, forwarding>>
      /\ buffer' \in [Handle -> Seq(1 .. MaxPublish)]
      /\ got' \in [Subject -> Seq(1 .. MaxPublish)]
  BY <1>1, <1>5, PassedFacts
<1>7. s \in Items(subjects[h]) /\ subjects[h] # <<>>
  BY <1>3 DEF Items
<1>8. handle[s] = h /\ (Patient /\ ~hasty => closing[h] = 0)
  <2>1. closing[h] \in Nat
    BY <1>1 DEF PerHandle
  <2>2. QED
    BY <1>1, <1>7, <2>1 DEF Lists, Counts, LastRelease
<1>9. /\ refCount' \in [Subject -> 0 .. MaxObservers]
      /\ refCount'[s] = 0
      /\ \A t \in Subject \ {s} : refCount'[t] = refCount[t]
  BY <1>1, <1>5, BusSubjectAssumption DEF PerSubject
<1>10. /\ subjects' \in [Handle -> Seq(Subject)] /\ closing' \in [Handle -> Nat]
       /\ current' \in Handle \cup {None}
  BY <1>1, <1>5, <1>8, ReleaseFacts
<1>11. Types'
  <2>1. PerSubject'
    BY <1>1, <1>6, <1>9 DEF PerSubject
  <2>2. since' \in [Handle -> 0 .. MaxPublish]
    BY <1>1, <1>6, SinceTypes
  <2>3. Scalars'
    BY <1>1, <1>6, <1>10 DEF Scalars
  <2>4. PerHandle'
    BY <1>1, <1>6, <1>10, <2>2 DEF PerHandle
  <2>5. QED
    BY <1>1, <1>6, <2>1, <2>3, <2>4, TypesAfter
<1>12. /\ Lists' /\ Counts'
       /\ \A g \in Handle : Live(g) /\ Live(g)' /\ subjects'[g] = <<>> => subjects[g] = <<>>
       /\ \A t \in Subject : refCount'[t] > 0 => refCount[t] > 0
  BY <1>1, <1>5, <1>6, <1>8, <1>9, ReleaseKeeps
<1>13. Heard'
  BY <1>1, <1>5, <1>11, <1>12, PassedHeard
<1>14. QED
  BY <1>11, <1>12, <1>13 DEF IInv

-----------------------------------------------------------------------------
(* Every step, and what follows.                                           *)

\* One lemma per action makes the step.
LEMMA NextIInv == IInv /\ [Next]_vars => IInv'
<1>1. ASSUME IInv, Step, Afterwards PROVE IInv'
  <2>1. ASSUME NEW s \in Subject, subject(s) PROVE IInv'
    BY <1>1, <2>1, SubjectKeeps
  <2>2. ASSUME NEW s \in Subject, observe(s) PROVE IInv'
    BY <1>1, <2>2, ObserveKeeps
  <2>3. ASSUME NEW s \in Subject, unobserve(s) PROVE IInv'
    BY <1>1, <2>3, UnobserveKeeps
  <2>4. ASSUME NEW s \in Subject, collect(s) PROVE IInv'
    BY <1>1, <2>4, CollectKeeps
  <2>5. ASSUME NEW s \in Subject, activateSubject(s) PROVE IInv'
    BY <1>1, <2>5, ActivateKeeps
  <2>6. ASSUME NEW h \in Handle, opened(h) PROVE IInv'
    <3>1. Settle(h, "open", "done") /\ closing' = closing
      BY <2>6 DEF opened
    <3>2. forwarding' \in BOOLEAN
      BY <2>6 DEF opened
    <3>3. QED
      BY <1>1, <3>1, <3>2, SettleKeeps
  <2>7. ASSUME NEW h \in Handle, refused(h) PROVE IInv'
    <3>1. /\ forwarding' = forwarding /\ Settle(h, "rejected", "failed")
          /\ closing' = [closing EXCEPT ![h] = 0]
      BY <2>7 DEF refused
    <3>2. forwarding' \in BOOLEAN
      BY <1>1, <3>1, TypeGroups DEF IInv
    <3>3. QED
      BY <1>1, <3>1, <3>2, SettleKeeps
  <2>8. ASSUME NEW h \in Handle, closeChannel(h) PROVE IInv'
    BY <1>1, <2>8, CloseKeeps
  <2>9. ASSUME NEW h \in Handle, NEW i \in DOMAIN subjects[h], messageOneShot(h, i) PROVE IInv'
    BY <1>1, <2>9, OneShotKeeps
  <2>10. CASE message
    BY <1>1, <2>10, MessageKeeps
  <2>11. QED
    BY <1>1, <2>1, <2>2, <2>3, <2>4, <2>5, <2>6, <2>7, <2>8, <2>9, <2>10 DEF Step
<1>2. ASSUME IInv, UNCHANGED vars PROVE IInv'
  <2>1. /\ UNCHANGED <<current, handle, gone, refCount, got, activation, base, passed>>
        /\ UNCHANGED <<subjects, buffer, channel, closing, listeners, asker, forwarding>>
        /\ UNCHANGED <<log, since, finalizing, leaving, hasty>>
    BY <1>2 DEF vars, subjectVars, adapterVars
  <2>2. Types' /\ Lists' /\ Counts'
    BY <1>2, <2>1 DEF IInv, Types, TypeOK, Lists, Counts, Holding, LastRelease
  <2>3. Heard'
    BY <1>2, <2>1 DEF IInv, Heard, Live, Covers, Larger
  <2>4. QED
    BY <2>2, <2>3 DEF IInv
<1>3. QED
  BY <1>1, <1>2 DEF Next, Afterwards

\* So it is an invariant of the specification.
LEMMA SpecIInv == Spec => []IInv
<1>1. QED
  BY InitIInv, NextIInv, PTL DEF Spec

\* The list of a handle holds the subjects with observers, each once, whatever is
\* subscribed, released or collected in which order (BrokerBusSubjectHandle).
THEOREM ObserversAreListed == Spec => []ListedIffObserved
<1>1. IInv => ListedIffObserved
  <2> SUFFICES ASSUME IInv PROVE ListedIffObserved
    OBVIOUS
  <2>1. TypeOK /\ \A h \in Handle : Once(subjects[h])
    BY DEF IInv, Types, Lists
  <2>2. ASSUME NEW s \in Subject, handle[s] # None
        PROVE  s \in Items(subjects[handle[s]]) <=> refCount[s] > 0
    <3>1. handle[s] \in Handle
      BY <2>2, HandleOf DEF IInv
    <3>2. QED
      BY <3>1 DEF IInv, Lists
  <2>3. QED
    BY <2>1, <2>2 DEF ListedIffObserved
<1>2. QED
  BY <1>1, SpecIInv, PTL

\* The adapter never counts more listeners than there are handles that hold a channel;
\* and it counts one for each, so that no release silences a listener that is left, as
\* long as code lets the reactions of its releases run and no finalizer released a
\* handle that was not open yet, or whose release waited (deepkit-adapter.ts, the
\* channel's listeners; broker.ts, releaseSubject and subjectFinalizer).
THEOREM AdapterCountsHandles == Spec => []ListenersBalanced
<1>1. IInv => ListenersBalanced
  BY DEF IInv, Counts, Holding, ListenersBalanced
<1>2. QED
  BY <1>1, SpecIInv, PTL

\* A subject of a live handle got every message since the larger of base and since,
\* in order and once, across the buffer, its replay and what came later.
LEMMA ObserversGetEverything == Spec => []AllHeard
<1>1. IInv => AllHeard
  <2> SUFFICES ASSUME IInv, NEW s \in Subject,
                      refCount[s] > 0, Live(handle[s]), s \notin passed,
                      NEW from, from = Larger(base[s], since[handle[s]]),
                      NEW due, due = log - from
               PROVE  /\ Len(got[s]) >= due
                      /\ SubSeq(got[s], Len(got[s]) - due + 1, Len(got[s]))
                           = [ i \in 1 .. due |-> from + i ]
    BY DEF AllHeard, Larger
  <2>1. Covers(got[s], from, log)
    BY DEF IInv, Heard
  <2>2. handle[s] \in Handle
    BY DEF IInv, Lists
  <2>3. from \in Nat /\ due \in Nat
    <3>1. /\ log \in 0 .. MaxPublish /\ since \in [Handle -> 0 .. MaxPublish]
          /\ base \in [Subject -> 0 .. MaxPublish] /\ MaxPublish \in Nat
      BY BusSubjectAssumption DEF IInv, Types, TypeOK
    <3>2. since[handle[s]] <= log /\ base[s] <= log
      BY <2>2 DEF IInv, Heard
    <3>3. since[handle[s]] \in Nat /\ base[s] \in Nat /\ log \in Nat
      BY <2>2, <3>1
    <3>4. QED
      BY <3>2, <3>3 DEF Larger
  <2>4. got[s] \in Seq(1 .. MaxPublish)
    BY DEF IInv, Types
  <2> DEFINE n == Len(got[s])
             last == SubSeq(got[s], n - due + 1, n)
  <2>5. n \in Nat /\ \A i \in 1 .. n : got[s][i] \in 1 .. MaxPublish
    BY <2>4, LenProperties, ElementOfSeq
  <2>6. n >= due /\ \A i \in 1 .. due : got[s][n - due + i] = from + i
    BY <2>1, <2>3 DEF Covers
  <2>7. /\ last \in Seq(1 .. MaxPublish) /\ Len(last) = due
        /\ \A i \in 1 .. due : last[i] = from + i
    <3> HIDE DEF n
    <3>1. \A i \in (n - due + 1) .. n : got[s][i] \in 1 .. MaxPublish
      BY <2>3, <2>5, <2>6
    <3>2. n - due + 1 \in Int /\ n \in Int
      BY <2>3, <2>5
    <3>3. /\ last \in Seq(1 .. MaxPublish)
          /\ Len(last) = IF n - due + 1 <= n THEN n - (n - due + 1) + 1 ELSE 0
          /\ \A i \in 1 .. n - (n - due + 1) + 1 : last[i] = got[s][n - due + 1 + i - 1]
      BY <3>1, <3>2, SubSeqProperties
    <3> HIDE DEF last
    <3>4. Len(last) = due
      BY <2>3, <2>5, <3>3
    <3>5. ASSUME NEW i \in 1 .. due PROVE last[i] = from + i
      <4>1. i \in 1 .. n - (n - due + 1) + 1 /\ n - due + 1 + i - 1 = n - due + i
        BY <2>3, <2>5
      <4>2. QED
        BY <2>6, <3>3, <4>1
    <3>6. QED
      BY <3>3, <3>4, <3>5
  <2> HIDE DEF n, last
  <2>8. last = [ i \in 1 .. due |-> from + i ]
    <3>1. DOMAIN last = 1 .. due /\ last = [ i \in DOMAIN last |-> last[i] ]
      BY <2>7
    <3>2. QED
      BY <2>7, <3>1
  <2>9. QED
    BY <2>6, <2>8 DEF n, last
<1>2. QED
  BY <1>1, SpecIInv, PTL

-----------------------------------------------------------------------------
(* In order and once.                                                      *)

Ordered(seq) == \A i, j \in DOMAIN seq : i < j => seq[i] < seq[j]

\* What is buffered for a handle came later than all that its subjects got, and
\* nothing is while it has subjects.
Later ==
  /\ \A h \in Handle : /\ Ordered(buffer[h]) /\ Items(buffer[h]) \subseteq 1 .. log
                       /\ subjects[h] # <<>> => buffer[h] = <<>>
  /\ \A s \in Subject : /\ Ordered(got[s]) /\ Items(got[s]) \subseteq 1 .. log
                        /\ handle[s] = None => got[s] = <<>>
  /\ \A s \in Subject : \A h \in Handle : handle[s] = h =>
       \A n \in Items(got[s]), m \in Items(buffer[h]) : n < m

\* A list without items is empty.
LEMMA EmptyList ==
  ASSUME NEW S, NEW seq \in Seq(S)
  PROVE  Items(seq) = {} <=> seq = <<>>
<1>1. seq = <<>> => Items(seq) = {}
  BY DEF Items
<1>2. seq # <<>> => 1 \in DOMAIN seq
  OBVIOUS
<1>3. QED
  BY <1>1, <1>2 DEF Items

\* The next message goes after the others,
LEMMA OrderedAppend ==
  ASSUME NEW S, NEW seq \in Seq(S), NEW n \in Nat, Ordered(seq), Items(seq) \subseteq 1 .. n
  PROVE  /\ Ordered(Append(seq, n + 1))
         /\ Items(Append(seq, n + 1)) = Items(seq) \cup {n + 1}
         /\ Items(Append(seq, n + 1)) \subseteq 1 .. (n + 1)
<1> DEFINE new == Append(seq, n + 1)
<1>1. /\ Len(seq) \in Nat /\ DOMAIN seq = 1 .. Len(seq) /\ DOMAIN new = 1 .. (Len(seq) + 1)
      /\ \A i \in 1 .. Len(seq) : new[i] = seq[i]
      /\ new[Len(seq) + 1] = n + 1
  OBVIOUS
<1> HIDE DEF new
<1>2. \A i \in 1 .. Len(seq) : seq[i] \in 1 .. n
  BY <1>1 DEF Items
<1>3. Ordered(new)
  BY <1>1, <1>2 DEF Ordered
<1>4. Items(new) = Items(seq) \cup {n + 1}
  BY <1>1 DEF Items
<1>5. Items(new) \subseteq 1 .. (n + 1)
  BY <1>4
<1>6. QED
  BY <1>3, <1>4, <1>5 DEF new

\* and a buffer after what was got before it.
LEMMA OrderedConcat ==
  ASSUME NEW S, NEW first \in Seq(S), NEW seq \in Seq(S), Ordered(first), Ordered(seq),
         \A n \in Items(first), m \in Items(seq) : n < m
  PROVE  Ordered(first \o seq) /\ Items(first \o seq) = Items(first) \cup Items(seq)
<1> DEFINE new == first \o seq
           k == Len(first)
           n == Len(seq)
<1>1. /\ k \in Nat /\ n \in Nat
      /\ DOMAIN first = 1 .. k /\ DOMAIN seq = 1 .. n /\ DOMAIN new = 1 .. (k + n)
      /\ \A i \in 1 .. k : new[i] = first[i]
      /\ \A i \in 1 .. n : new[k + i] = seq[i]
  OBVIOUS
<1> HIDE DEF new, k, n
<1>2. ASSUME NEW i \in 1 .. (k + n), i > k
      PROVE  i - k \in 1 .. n /\ new[i] = seq[i - k]
  <2>1. i - k \in 1 .. n /\ k + (i - k) = i
    BY <1>1, <1>2
  <2>2. QED
    BY <1>1, <2>1
<1>3. Ordered(new)
  <2> SUFFICES ASSUME NEW i \in 1 .. (k + n), NEW j \in 1 .. (k + n), i < j
               PROVE  new[i] < new[j]
    BY <1>1 DEF Ordered
  <2>1. CASE j <= k
    BY <1>1, <2>1 DEF Ordered
  <2>2. CASE i <= k /\ j > k
    <3>1. i \in 1 .. k /\ j - k \in 1 .. n /\ new[i] = first[i] /\ new[j] = seq[j - k]
      BY <1>1, <1>2, <2>2
    <3>2. first[i] \in Items(first) /\ seq[j - k] \in Items(seq)
      BY <1>1, <3>1 DEF Items
    <3>3. QED
      BY <3>1, <3>2
  <2>3. CASE i > k /\ j > k
    <3>1. /\ i - k \in 1 .. n /\ j - k \in 1 .. n /\ i - k < j - k
          /\ new[i] = seq[i - k] /\ new[j] = seq[j - k]
      BY <1>1, <1>2, <2>3
    <3>2. QED
      BY <1>1, <3>1 DEF Ordered
  <2>4. QED
    BY <1>1, <2>1, <2>2, <2>3
<1>4. Items(new) \subseteq Items(first) \cup Items(seq)
  <2> SUFFICES ASSUME NEW i \in 1 .. (k + n) PROVE new[i] \in Items(first) \cup Items(seq)
    BY <1>1 DEF Items
  <2>1. CASE i <= k
    BY <1>1, <2>1 DEF Items
  <2>2. CASE i > k
    BY <1>1, <1>2, <2>2 DEF Items
  <2>3. QED
    BY <1>1, <2>1, <2>2
<1>5. Items(first) \cup Items(seq) \subseteq Items(new)
  <2>1. ASSUME NEW i \in 1 .. k PROVE first[i] \in Items(new)
    BY <1>1 DEF Items
  <2>2. ASSUME NEW i \in 1 .. n PROVE seq[i] \in Items(new)
    <3>1. k + i \in 1 .. (k + n)
      BY <1>1
    <3>2. QED
      BY <1>1, <3>1 DEF Items
  <2>3. QED
    BY <1>1, <2>1, <2>2 DEF Items
<1>6. QED
  BY <1>3, <1>4, <1>5 DEF new

\* A step that brings no message and replays none.
LEMMA LaterKeeps ==
  ASSUME IInv, Later, UNCHANGED <<got, buffer, log>>,
         \A h \in Handle : subjects'[h] # <<>> => subjects[h] # <<>>,
         \A s \in Subject : handle'[s] = handle[s] \/ (handle[s] = None /\ handle'[s] # None)
  PROVE  Later'
<1>1. \A h \in Handle : /\ Ordered(buffer'[h]) /\ Items(buffer'[h]) \subseteq 1 .. log'
                        /\ subjects'[h] # <<>> => buffer'[h] = <<>>
  BY DEF Later
<1>2. \A s \in Subject : /\ Ordered(got'[s]) /\ Items(got'[s]) \subseteq 1 .. log'
                         /\ handle'[s] = None => got'[s] = <<>>
  BY DEF Later
<1>3. ASSUME NEW s \in Subject, NEW h \in Handle, handle'[s] = h,
             NEW n \in Items(got'[s]), NEW m \in Items(buffer'[h])
      PROVE  n < m
  <2>1. CASE handle[s] = None
    <3>1. got'[s] = <<>>
      BY <2>1 DEF Later
    <3>2. QED
      BY <1>3, <3>1 DEF Items
  <2>2. CASE handle[s] # None
    BY <1>3, <2>2 DEF Later
  <2>3. QED
    BY <2>1, <2>2
<1>4. QED
  BY <1>1, <1>2, <1>3 DEF Later, Ordered, Items

\* What was got and what is buffered stay apart while neither changes.
LEMMA LaterStays ==
  ASSUME IInv, Later, UNCHANGED <<got, buffer, log, handle>>,
         \A h \in Handle : subjects'[h] # <<>> => subjects[h] # <<>>
  PROVE  Later'
<1>1. \A s \in Subject : handle'[s] = handle[s] \/ (handle[s] = None /\ handle'[s] # None)
  OBVIOUS
<1>2. got' = got /\ buffer' = buffer /\ log' = log
  OBVIOUS
<1>3. QED
  BY <1>1, <1>2, LaterKeeps

\* The first observer takes over what is buffered.
LEMMA ObserveLater ==
  ASSUME IInv, Later, NEW s \in Subject, observe(s)
  PROVE  Later'
<1>1. Types /\ Lists
  BY DEF IInv
<1>2. handle' = handle /\ log' = log /\ handle[s] # None
  BY DEF observe, Usable, Alive
<1>3. PICK h \in Handle : h = handle[s]
  BY <1>1, <1>2, HandleOf
<1>4. CASE refCount[s] > 0
  <2>1. UNCHANGED <<subjects, got, buffer>>
    BY <1>4 DEF observe
  <2>2. QED
    <3>1. \A g \in Handle : subjects'[g] # <<>> => subjects[g] # <<>>
      BY <2>1
    <3>2. got' = got /\ buffer' = buffer /\ log' = log /\ handle' = handle
      BY <1>2, <2>1
    <3>3. QED
      BY <3>1, <3>2, LaterStays
<1>5. CASE ~(refCount[s] > 0)
  <2>1. /\ subjects' = [subjects EXCEPT ![h] = Append(@, s)]
        /\ got' = [got EXCEPT ![s] = got[s] \o buffer[h]]
        /\ buffer' = [buffer EXCEPT ![h] = <<>>]
    <3>1. /\ subjects' = [subjects EXCEPT ![handle[s]] = Append(@, s)]
          /\ got' = [got EXCEPT ![s] = Replay(s)]
          /\ buffer' = Emptied(handle[s])
      BY <1>5 DEF observe
    <3>2. QED
      BY <1>3, <3>1 DEF Replay, Emptied
  <2>2. /\ subjects \in [Handle -> Seq(Subject)] /\ got \in [Subject -> Seq(1 .. MaxPublish)]
        /\ buffer \in [Handle -> Seq(1 .. MaxPublish)]
    BY <1>1 DEF Types
  <2>3. /\ buffer'[h] = <<>> /\ \A g \in Handle \ {h} : buffer'[g] = buffer[g]
        /\ \A g \in Handle \ {h} : subjects'[g] = subjects[g]
        /\ got'[s] = got[s] \o buffer[h] /\ \A t \in Subject \ {s} : got'[t] = got[t]
    BY <2>1, <2>2
  <2>4. Ordered(got'[s]) /\ Items(got'[s]) = Items(got[s]) \cup Items(buffer[h])
    <3>1. got[s] \in Seq(1 .. MaxPublish) /\ buffer[h] \in Seq(1 .. MaxPublish)
      BY <2>2
    <3>2. /\ Ordered(got[s]) /\ Ordered(buffer[h])
          /\ \A n \in Items(got[s]), m \in Items(buffer[h]) : n < m
      BY <1>3 DEF Later
    <3>3. Ordered(got[s] \o buffer[h])
          /\ Items(got[s] \o buffer[h]) = Items(got[s]) \cup Items(buffer[h])
      BY <3>1, <3>2, OrderedConcat
    <3>4. QED
      BY <2>3, <3>3
  <2>5. Ordered(<<>>) /\ Items(<<>>) = {}
    BY DEF Ordered, Items
  <2>6. ASSUME NEW g \in Handle
        PROVE  /\ Ordered(buffer'[g]) /\ Items(buffer'[g]) \subseteq 1 .. log'
               /\ subjects'[g] # <<>> => buffer'[g] = <<>>
    <3>1. CASE g = h
      BY <2>3, <2>5, <3>1
    <3>2. CASE g # h
      BY <1>2, <2>3, <3>2 DEF Later
    <3>3. QED
      BY <3>1, <3>2
  <2>7. ASSUME NEW t \in Subject
        PROVE  /\ Ordered(got'[t]) /\ Items(got'[t]) \subseteq 1 .. log'
               /\ handle'[t] = None => got'[t] = <<>>
    <3>1. CASE t = s
      BY <1>2, <2>4, <3>1 DEF Later
    <3>2. CASE t # s
      BY <1>2, <2>3, <3>2 DEF Later
    <3>3. QED
      BY <3>1, <3>2
  <2>8. ASSUME NEW t \in Subject, NEW g \in Handle, handle'[t] = g,
               NEW n \in Items(got'[t]), NEW m \in Items(buffer'[g])
        PROVE  n < m
    <3>1. g # h /\ t # s
      BY <1>2, <1>3, <2>3, <2>5, <2>8
    <3>2. QED
      BY <1>2, <2>3, <2>8, <3>1 DEF Later
  <2>9. QED
    BY <2>6, <2>7, <2>8 DEF Later, Ordered, Items
<1>6. QED
  BY <1>4, <1>5

\* A message is later than all.
LEMMA PassedLater ==
  ASSUME IInv, Later, NEW skipped \in SUBSET Subject, Passed(skipped),
         \A h \in Handle : subjects'[h] # <<>> => subjects[h] # <<>>
  PROVE  Later'
<1>1. Types /\ Lists /\ log \in Nat
  <2>1. Types /\ Lists /\ TypeOK
    BY DEF IInv, Types
  <2>2. log \in 0 .. MaxPublish
    BY <2>1, Zenon DEF TypeOK
  <2> QED
    BY <2>1, <2>2, BusSubjectAssumption
<1>2. log' = log + 1 /\ handle' = handle
  BY DEF Passed
<1>3. \A h \in Handle : \/ buffer'[h] = buffer[h]
                        \/ buffer'[h] = Append(buffer[h], log + 1) /\ subjects[h] = <<>>
  BY DEF Passed
<1>4. \A s \in Subject : \/ got'[s] = got[s]
                         \/ /\ got'[s] = Append(got[s], log + 1)
                            /\ \E h \in Handle : s \in Items(subjects[h])
  BY DEF Passed
<1>5. ASSUME NEW h \in Handle, subjects[h] = <<>>
      PROVE  /\ Ordered(Append(buffer[h], log + 1))
             /\ Items(Append(buffer[h], log + 1)) = Items(buffer[h]) \cup {log + 1}
  <2>1. buffer[h] \in Seq(1 .. MaxPublish)
    BY <1>1 DEF Types
  <2>2. Ordered(buffer[h]) /\ Items(buffer[h]) \subseteq 1 .. log
    BY DEF Later
  <2>3. QED
    BY <1>1, <2>1, <2>2, OrderedAppend
<1>6. ASSUME NEW s \in Subject
      PROVE  /\ Ordered(Append(got[s], log + 1))
             /\ Items(Append(got[s], log + 1)) = Items(got[s]) \cup {log + 1}
  <2>1. got[s] \in Seq(1 .. MaxPublish)
    BY <1>1 DEF Types
  <2>2. Ordered(got[s]) /\ Items(got[s]) \subseteq 1 .. log
    BY DEF Later
  <2>3. QED
    BY <1>1, <2>1, <2>2, OrderedAppend
<1>7. ASSUME NEW s \in Subject, NEW h \in Handle, s \in Items(subjects[h])
      PROVE  handle[s] = h /\ subjects[h] # <<>> /\ buffer'[h] = <<>>
  <2>1. handle[s] = h /\ subjects[h] # <<>>
    BY <1>1, <1>7 DEF Lists, Items
  <2>2. QED
    BY <1>3, <2>1 DEF Later
<1>8. ASSUME NEW h \in Handle
      PROVE  /\ Ordered(buffer'[h]) /\ Items(buffer'[h]) \subseteq 1 .. log'
             /\ subjects'[h] # <<>> => buffer'[h] = <<>>
  <2>1. /\ Ordered(buffer[h]) /\ Items(buffer[h]) \subseteq 1 .. log
        /\ subjects[h] # <<>> => buffer[h] = <<>>
    BY DEF Later
  <2>2. CASE buffer'[h] = buffer[h]
    BY <1>1, <1>2, <2>1, <2>2
  <2>3. CASE buffer'[h] = Append(buffer[h], log + 1) /\ subjects[h] = <<>>
    BY <1>1, <1>2, <1>5, <2>1, <2>3
  <2>4. QED
    BY <1>3, <2>2, <2>3
<1>9. ASSUME NEW s \in Subject
      PROVE  /\ Ordered(got'[s]) /\ Items(got'[s]) \subseteq 1 .. log'
             /\ handle'[s] = None => got'[s] = <<>>
  <2>1. /\ Ordered(got[s]) /\ Items(got[s]) \subseteq 1 .. log
        /\ handle[s] = None => got[s] = <<>>
    BY DEF Later
  <2>2. CASE got'[s] = got[s]
    BY <1>1, <1>2, <2>1, <2>2
  <2>3. CASE got'[s] = Append(got[s], log + 1) /\ \E h \in Handle : s \in Items(subjects[h])
    <3>1. handle[s] # None
      BY <1>7, <2>3, BusSubjectAssumption
    <3>2. QED
      <4>1. Ordered(got'[s]) /\ Items(got'[s]) = Items(got[s]) \cup {log + 1}
        BY <1>6, <2>3
      <4>2. Items(got'[s]) \subseteq 1 .. log'
        BY <1>1, <1>2, <2>1, <4>1
      <4>3. QED
        BY <1>2, <3>1, <4>1, <4>2
  <2>4. QED
    BY <1>4, <2>2, <2>3
<1>10. ASSUME NEW s \in Subject, NEW h \in Handle, handle'[s] = h,
              NEW n \in Items(got'[s]), NEW m \in Items(buffer'[h])
       PROVE  n < m
  <2>1. got'[s] = got[s]
    <3>1. ASSUME NEW g \in Handle, s \in Items(subjects[g]) PROVE FALSE
      BY <1>2, <1>7, <1>10, <3>1, EmptyList DEF Items
    <3>2. QED
      BY <1>4, <3>1
  <2>2. n \in 1 .. log
    BY <1>10, <2>1 DEF Later
  <2>3. CASE buffer'[h] = buffer[h]
    BY <1>2, <1>10, <2>1, <2>3 DEF Later
  <2>4. CASE buffer'[h] = Append(buffer[h], log + 1) /\ subjects[h] = <<>>
    <3>1. m \in Items(buffer[h]) \cup {log + 1}
      BY <1>5, <1>10, <2>4
    <3>2. CASE m \in Items(buffer[h])
      BY <1>2, <1>10, <2>1, <3>2 DEF Later
    <3>3. CASE m = log + 1
      BY <1>1, <2>2, <3>3
    <3>4. QED
      BY <3>1, <3>2, <3>3
  <2>5. QED
    BY <1>3, <2>3, <2>4
<1>11. QED
  BY <1>8, <1>9, <1>10 DEF Later, Ordered, Items

\* A release takes a subject out of a list.
LEMMA ReleaseShrinks ==
  ASSUME Types, Lists, NEW s \in Subject, handle[s] \in Handle, ReleaseSubject(s)
  PROVE  \A g \in Handle : subjects'[g] # <<>> => subjects[g] # <<>>
<1>1. PICK h \in Handle : h = handle[s]
  OBVIOUS
<1>2. /\ subjects' \in [Handle -> Seq(Subject)]
      /\ Items(subjects'[h]) = Items(subjects[h]) \ {s}
      /\ \A g \in Handle \ {h} : subjects'[g] = subjects[g]
  BY <1>1, ReleaseFacts
<1>3. subjects'[h] # <<>> => subjects[h] # <<>>
  <2>1. subjects'[h] \in Seq(Subject)
    BY <1>2
  <2>2. subjects[h] = <<>> => Items(subjects[h]) = {}
    BY EmptyList DEF Types
  <2>3. subjects[h] = <<>> => Items(subjects'[h]) = {}
    BY <1>2, <2>2
  <2>4. QED
    BY <2>1, <2>3, EmptyList
<1>4. QED
  BY <1>2, <1>3

\* The observers of a subject get messages in the order they came, none twice, over
\* its whole life (BrokerBusSubjectHandle.buffer and its replay).
LEMMA MessagesComeOnce == Spec => []NothingTwice
<1>1. Init => Later
  BY DEF Init, Later, Ordered, Items
<1>2. ASSUME IInv, Later, Step PROVE Later'
  <2>1. Types /\ Lists
    BY <1>2 DEF IInv
  <2>2. ASSUME NEW s \in Subject, subject(s) PROVE Later'
    <3>1. handle \in [Subject -> Handle \cup {None}]
      BY <2>1, TypeGroups DEF PerSubject
    <3>2. /\ UNCHANGED <<got, buffer, log, subjects>> /\ handle[s] = None
          /\ \E h \in Handle : handle' = [handle EXCEPT ![s] = h]
      BY <2>2 DEF subject
    <3>3. \A t \in Subject : handle'[t] = handle[t] \/ (handle[t] = None /\ handle'[t] # None)
      <4>1. PICK h \in Handle : handle' = [handle EXCEPT ![s] = h]
        BY <3>2
      <4>2. handle'[s] = h /\ \A t \in Subject \ {s} : handle'[t] = handle[t]
        BY <3>1, <4>1
      <4>3. h # None
        BY BusSubjectAssumption
      <4>4. QED
        BY <3>2, <4>2, <4>3
    <3>4. QED
      BY <1>2, <3>2, <3>3, LaterKeeps
  <2>3. ASSUME NEW s \in Subject, observe(s) PROVE Later'
    BY <1>2, <2>3, ObserveLater
  <2>4. ASSUME NEW s \in Subject, unobserve(s) PROVE Later'
    <3>1. UNCHANGED <<got, buffer, log, handle>> /\ handle[s] # None
      BY <2>4 DEF unobserve, Usable, Alive
    <3>2. \A g \in Handle : subjects'[g] # <<>> => subjects[g] # <<>>
      <4>1. CASE refCount[s] = 1
        BY <2>1, <2>4, <3>1, <4>1, HandleOf, ReleaseShrinks DEF unobserve
      <4>2. CASE refCount[s] # 1
        BY <2>4, <4>2 DEF unobserve
      <4>3. QED
        BY <4>1, <4>2
    <3>3. QED
      BY <1>2, <3>1, <3>2, LaterStays
  <2>5. ASSUME NEW s \in Subject, collect(s) PROVE Later'
    <3>1. UNCHANGED <<got, buffer, log, handle>> /\ handle[s] # None /\ ReleaseSubject(s)
      BY <2>5 DEF collect, Alive
    <3>2. \A g \in Handle : subjects'[g] # <<>> => subjects[g] # <<>>
      BY <2>1, <3>1, HandleOf, ReleaseShrinks
    <3>3. QED
      BY <1>2, <3>1, <3>2, LaterStays
  <2>6. ASSUME NEW s \in Subject, activateSubject(s) PROVE Later'
    <3>1. UNCHANGED <<got, buffer, log, handle>> /\ subjects' = subjects
      BY <2>6 DEF activateSubject
    <3>2. QED
      BY <1>2, <3>1, LaterStays
  <2>7. ASSUME NEW h \in Handle, opened(h) \/ refused(h) \/ closeChannel(h) PROVE Later'
    <3>1. UNCHANGED <<got, buffer, log, handle>> /\ subjects' = subjects
      BY <2>7 DEF opened, refused, Settle, closeChannel, subjectVars
    <3>2. QED
      BY <1>2, <3>1, LaterStays
  <2>8. ASSUME NEW h \in Handle, NEW i \in DOMAIN subjects[h], messageOneShot(h, i) PROVE Later'
    <3>1. \A j \in DOMAIN subjects[h] : subjects[h][j] \in Subject
      BY <2>1 DEF Types
    <3>2. PICK s \in Subject : s = subjects[h][i]
      BY <3>1
    <3>3. PICK skipped \in SUBSET Subject :
            skipped = { subjects[h][j] : j \in {i + 1} \cap DOMAIN subjects[h] }
      BY <3>1
    <3>4. Passed(skipped) /\ ReleaseSubject(s)
      BY <2>8, <3>2, <3>3 DEF messageOneShot
    <3>5. handle[s] \in Handle
      BY <2>1, <3>2 DEF Lists, Items
    <3>6. \A g \in Handle : subjects'[g] # <<>> => subjects[g] # <<>>
      BY <2>1, <3>4, <3>5, ReleaseShrinks
    <3>7. QED
      BY <1>2, <3>4, <3>6, PassedLater
  <2>9. CASE message
    BY <1>2, <2>9, PassedLater DEF message
  <2>10. QED
    BY <1>2, <2>2, <2>3, <2>4, <2>5, <2>6, <2>7, <2>8, <2>9 DEF Step
<1>3. ASSUME Later, UNCHANGED vars PROVE Later'
  BY <1>3 DEF Later, Ordered, Items, vars, subjectVars
<1>4. IInv /\ Later /\ [Next]_vars => Later'
  BY <1>2, <1>3 DEF Next
<1>5. Later => NothingTwice
  BY DEF Later, Ordered, NothingTwice
<1>6. QED
  BY <1>1, <1>4, <1>5, SpecIInv, PTL DEF Spec

\* The observers of a subject get all messages that are due to them, in the order they
\* came and none twice (BrokerBusSubjectHandle: the buffer, its replay, the loop).
THEOREM ObserversGetAllOnce == Spec => []AllOnceInOrder
<1>1. AllHeard /\ NothingTwice => AllOnceInOrder
  BY DEF AllOnceInOrder
<1>2. QED
  BY <1>1, ObserversGetEverything, MessagesComeOnce, PTL

-----------------------------------------------------------------------------
(* One channel: what the broker and the clients know of each other.        *)

\* What stands in a sequence that a packet is added to, or the first one taken from.
LEMMA Pushed ==
    ASSUME NEW S, NEW seq \in Seq(S), NEW e \in S
    PROVE  /\ Append(seq, e) \in Seq(S)
           /\ Len(Append(seq, e)) = Len(seq) + 1 /\ Len(seq) \in Nat
           /\ DOMAIN Append(seq, e) = 1 .. Len(seq) + 1 /\ DOMAIN seq = 1 .. Len(seq)
           /\ \A i \in 1 .. Len(seq) : Append(seq, e)[i] = seq[i]
           /\ Append(seq, e)[Len(seq) + 1] = e
           /\ Append(seq, e) # <<>>
OBVIOUS

\* ... that the first packet is taken from.
LEMMA Pulled ==
    ASSUME NEW S, NEW seq \in Seq(S), seq # <<>>
    PROVE  /\ Tail(seq) \in Seq(S)
           /\ Len(Tail(seq)) = Len(seq) - 1 /\ Len(seq) \in Nat /\ Len(seq) >= 1
           /\ DOMAIN Tail(seq) = 1 .. Len(seq) - 1 /\ DOMAIN seq = 1 .. Len(seq)
           /\ \A i \in 1 .. Len(seq) - 1 : Tail(seq)[i] = seq[i + 1]
           /\ Head(seq) = seq[1] /\ seq[1] \in S
OBVIOUS

ChannelTypes ==
  /\ listenersOf \in [Client -> Int]
  /\ callbacks \in [Client -> Seq(Listener)]
  /\ status \in [Listener -> Status]
  /\ toBroker \in [Client -> Seq(Packet)]
  /\ toClient \in [Client -> Seq(Packet)]
  /\ subscriptions \in Seq(Client)
  /\ published \in 0 .. MaxMessages
  /\ received \in [Listener -> Seq(1 .. MaxMessages)]
  /\ joined \in [Listener -> 0 .. MaxMessages]
  /\ overlooked \subseteq Listener
  /\ breaks \in 0 .. MaxBreaks

\* The callbacks of a client are those of its listeners that are neither new nor
\* released, and the count is theirs.
Registered(p) ==
  /\ Once(callbacks[p])
  /\ listenersOf[p] = Len(callbacks[p])
  /\ \A l \in Items(callbacks[p]) : ClientOf[l] = p /\ status[l] \notin {"new", "releasing"}
  /\ \A l \in Listener : ClientOf[l] = p /\ status[l] \in {"subscribing", "subscribed", "early", "lost"}
       => l \in Items(callbacks[p])

IsRequest(packet) == packet.type \in {"Subscribe", "Unsubscribe"}

\* A listener waits for one answer at a time, and only while it subscribes or releases.
Awaited(p) ==
  /\ \A i \in DOMAIN toBroker[p] :
       /\ IsRequest(toBroker[p][i])
       /\ ClientOf[toBroker[p][i].of] = p
       /\ status[toBroker[p][i].of] =
            IF toBroker[p][i].type = "Subscribe" THEN "subscribing" ELSE "releasing"
  /\ \A i \in DOMAIN toClient[p] :
       /\ toClient[p][i].type \in {"Ack", "Message"}
       /\ toClient[p][i].type = "Ack" =>
            /\ ClientOf[toClient[p][i].of] = p
            /\ status[toClient[p][i].of] \in {"subscribing", "releasing"}
  /\ \A i, j \in DOMAIN toBroker[p] : toBroker[p][i].of = toBroker[p][j].of => i = j
  /\ \A i, j \in DOMAIN toClient[p] :
       toClient[p][i].type = "Ack" /\ toClient[p][j].type = "Ack" /\ toClient[p][i].of = toClient[p][j].of
         => i = j
  /\ \A i \in DOMAIN toBroker[p], j \in DOMAIN toClient[p] :
       toClient[p][j].type = "Ack" => toBroker[p][i].of # toClient[p][j].of

\* The requests under way: an Unsubscribe, a Subscribe, or one after the other.
Requests(p) ==
  \A i \in DOMAIN toBroker[p] :
    /\ toBroker[p][i].type = "Subscribe" =>
         i = Len(toBroker[p]) /\ (i = 1 => p \notin Items(subscriptions))
    /\ toBroker[p][i].type = "Unsubscribe" =>
         i = 1 /\ (i = Len(toBroker[p]) => callbacks[p] = <<>>)

Settled(p) == p \in Items(subscriptions) /\ toBroker[p] = <<>>

\* What the broker knows of a client.
Agreed(p) ==
  /\ toBroker[p] = <<>> =>
       /\ p \in Items(subscriptions) => callbacks[p] # <<>>
       /\ breaks = 0 /\ callbacks[p] # <<>> => p \in Items(subscriptions)
  /\ \A l \in Items(callbacks[p]) : status[l] \in {"lost", "over"} =>
       toBroker[p] = <<>> /\ p \notin Items(subscriptions)
  /\ \A l \in Listener : ClientOf[l] = p /\ status[l] = "subscribed" => Settled(p)
  /\ \A i \in DOMAIN toClient[p] :
       toClient[p][i].type = "Ack" /\ status[toClient[p][i].of] = "subscribing" => Settled(p)

Channel(p) == Registered(p) /\ Awaited(p) /\ Requests(p) /\ Agreed(p)

Messages(way) == { i \in DOMAIN way : way[i].type = "Message" }

\* What a listener got, then what is on the way: in order, and nothing after upto.
Flows(seq, way, upto) ==
  /\ \A i \in DOMAIN seq : seq[i] <= upto
  /\ \A i \in Messages(way) : way[i].n <= upto
  /\ \A i, j \in DOMAIN seq : i < j => seq[i] < seq[j]
  /\ \A i, j \in Messages(way) : i < j => way[i].n < way[j].n
  /\ \A i \in DOMAIN seq, j \in Messages(way) : seq[i] < way[j].n

\* It was received or is on the way.
Has(seq, way, n) == n \in Items(seq) \/ \E i \in Messages(way) : way[i].n = n

\* The messages of a listener are in order, and none is missing that is due to it.
Follows(l) ==
  /\ Flows(received[l], toClient[ClientOf[l]], published)
  /\ status[l] = "subscribed" /\ l \notin overlooked =>
       \A n \in joined[l] + 1 .. published : Has(received[l], toClient[ClientOf[l]], n)

ChannelInv ==
  /\ ChannelTypes
  /\ Once(subscriptions)
  /\ \A p \in Client : Channel(p)
  /\ \A l \in Listener : Follows(l)

\* The invariant of the channel holds at first, and (ChannelNext) is kept.
LEMMA ChannelInit == BusInit => ChannelInv
<1> SUFFICES ASSUME BusInit PROVE ChannelInv
  OBVIOUS
<1>1. ChannelTypes
  BY BrokerBusAssumption DEF BusInit, ChannelTypes, Status
<1>2. \A p \in Client : Registered(p) /\ Awaited(p) /\ Requests(p) /\ Agreed(p)
  BY BrokerBusAssumption DEF BusInit, Registered, Awaited, Requests, Agreed, Settled, Once, Items
<1>3. Once(subscriptions)
  BY DEF BusInit, Once
<1>4. \A l \in Listener : Follows(l)
  BY BrokerBusAssumption DEF BusInit, Follows, Flows, Messages
<1> QED
  BY <1>1, <1>2, <1>3, <1>4 DEF ChannelInv, Channel

-----------------------------------------------------------------------------
(* What happens to the messages of a listener.                             *)

\* An answer is sent.
LEMMA AckSent ==
    ASSUME NEW seq \in Seq(Nat), NEW way \in Seq(Packet), NEW upto \in Nat,
           NEW ack \in Packet, ack.type = "Ack"
    PROVE  /\ Flows(seq, way, upto) => Flows(seq, Append(way, ack), upto)
           /\ \A n : Has(seq, way, n) => Has(seq, Append(way, ack), n)
<1> DEFINE new == Append(way, ack)
<1>1. /\ DOMAIN new = 1 .. Len(way) + 1 /\ DOMAIN way = 1 .. Len(way) /\ Len(way) \in Nat
      /\ \A i \in 1 .. Len(way) : new[i] = way[i]
      /\ new[Len(way) + 1] = ack
  BY Pushed
<1> HIDE DEF new
<1>2. Messages(new) = Messages(way) /\ \A i \in Messages(way) : new[i] = way[i]
  BY <1>1 DEF Messages
<1>3. Flows(seq, way, upto) => Flows(seq, new, upto)
  BY <1>2 DEF Flows
<1>4. \A n : Has(seq, way, n) => Has(seq, new, n)
  BY <1>2 DEF Has
<1> QED
  BY <1>3, <1>4 DEF new

\* A message is sent.
LEMMA MessageSent ==
    ASSUME NEW seq \in Seq(Nat), NEW way \in Seq(Packet), NEW upto \in Nat,
           NEW packet \in Packet, packet.type = "Message", packet.n = upto + 1,
           Flows(seq, way, upto)
    PROVE  /\ Flows(seq, Append(way, packet), upto + 1)
           /\ \A n : Has(seq, way, n) => Has(seq, Append(way, packet), n)
           /\ Has(seq, Append(way, packet), upto + 1)
<1> DEFINE new == Append(way, packet)
           k == Len(way)
<1>1. /\ DOMAIN new = 1 .. k + 1 /\ DOMAIN way = 1 .. k /\ k \in Nat
      /\ \A i \in 1 .. k : new[i] = way[i]
      /\ new[k + 1] = packet
  BY Pushed
<1> HIDE DEF new, k
<1>2. /\ Messages(new) = Messages(way) \cup {k + 1} /\ \A i \in Messages(way) : new[i] = way[i]
      /\ \A i \in Messages(way) : i \in Nat /\ i <= k
      /\ new[k + 1].n = upto + 1
  BY <1>1 DEF Messages
<1>3. \A i \in Messages(way) : way[i].n \in Nat
  BY BrokerBusAssumption DEF Messages, Packet
<1>4. \A i \in DOMAIN seq : seq[i] \in Nat
  OBVIOUS
<1>5. Flows(seq, new, upto + 1)
  <2>1. \A i \in DOMAIN seq : seq[i] <= upto + 1
    BY <1>4 DEF Flows
  <2>2. \A i \in Messages(new) : new[i].n <= upto + 1
    BY <1>2, <1>3 DEF Flows
  <2>3. \A i, j \in Messages(new) : i < j => new[i].n < new[j].n
    BY <1>1, <1>2, <1>3 DEF Flows
  <2>4. \A i \in DOMAIN seq, j \in Messages(new) : seq[i] < new[j].n
    BY <1>2, <1>3, <1>4 DEF Flows
  <2> QED
    BY <2>1, <2>2, <2>3, <2>4 DEF Flows
<1>6. \A n : Has(seq, way, n) => Has(seq, new, n)
  BY <1>2 DEF Has
<1>7. Has(seq, new, upto + 1)
  BY <1>2 DEF Has
<1> QED
  BY <1>5, <1>6, <1>7 DEF new

\* A packet is taken; a message among them may be given to the listener.
LEMMA Taken ==
    ASSUME NEW seq \in Seq(Nat), NEW way \in Seq(Packet), NEW upto \in Nat, way # <<>>,
           Flows(seq, way, upto)
    PROVE  /\ Flows(seq, Tail(way), upto)
           /\ Head(way).type # "Message" => \A n : Has(seq, way, n) => Has(seq, Tail(way), n)
           /\ Head(way).type = "Message" =>
                /\ Flows(Append(seq, Head(way).n), Tail(way), upto)
                /\ \A n : Has(seq, way, n) => Has(Append(seq, Head(way).n), Tail(way), n)
<1> DEFINE new == Tail(way)
           k == Len(way)
           first == Head(way)
<1>1. /\ DOMAIN new = 1 .. k - 1 /\ DOMAIN way = 1 .. k /\ k \in Nat /\ k >= 1
      /\ \A i \in 1 .. k - 1 : new[i] = way[i + 1]
      /\ first = way[1] /\ way[1] \in Packet
  BY Pulled
<1> HIDE DEF new, k, first
<1>2. \A i \in Messages(new) : i + 1 \in Messages(way) /\ new[i] = way[i + 1] /\ i \in Nat
  BY <1>1 DEF Messages
<1>3. \A i \in Messages(way) : /\ i \in Nat /\ way[i].n \in Nat
                               /\ i = 1 \/ (i - 1 \in Messages(new) /\ new[i - 1] = way[i])
  <2> SUFFICES ASSUME NEW i \in Messages(way)
               PROVE  /\ i \in Nat /\ way[i].n \in Nat
                      /\ i = 1 \/ (i - 1 \in Messages(new) /\ new[i - 1] = way[i])
    OBVIOUS
  <2>1. i \in 1 .. k /\ way[i] \in Packet /\ way[i].type = "Message"
    BY <1>1 DEF Messages
  <2>2. way[i].n \in Nat
    BY <2>1, BrokerBusAssumption DEF Packet
  <2>3. i # 1 => i - 1 \in 1 .. k - 1 /\ new[i - 1] = way[i]
    BY <1>1, <2>1
  <2> QED
    BY <1>1, <2>1, <2>2, <2>3 DEF Messages
<1>4. first.type = "Message" => 1 \in Messages(way)
  BY <1>1 DEF Messages
<1>5. first.type # "Message" => 1 \notin Messages(way)
  BY <1>1 DEF Messages
<1>6. Flows(seq, new, upto)
  <2>1. \A i, j \in Messages(new) : i < j => i + 1 < j + 1
    BY <1>2
  <2>2. \A i, j \in Messages(new) : i < j => new[i].n < new[j].n
    BY <1>2, <2>1 DEF Flows
  <2> QED
    BY <1>2, <2>2 DEF Flows
<1>7. first.type # "Message" => \A n : Has(seq, way, n) => Has(seq, new, n)
  BY <1>3, <1>5 DEF Has
<1>8. ASSUME first.type = "Message"
      PROVE  /\ Flows(Append(seq, first.n), new, upto)
             /\ \A n : Has(seq, way, n) => Has(Append(seq, first.n), new, n)
  <2> DEFINE more == Append(seq, first.n)
             m == Len(seq)
  <2>1. first.n \in Nat /\ 1 \in Messages(way) /\ first = way[1]
    BY <1>1, <1>3, <1>4, <1>8
  <2>2. /\ DOMAIN more = 1 .. m + 1 /\ DOMAIN seq = 1 .. m /\ m \in Nat
        /\ \A i \in 1 .. m : more[i] = seq[i]
        /\ more[m + 1] = first.n
    BY <2>1, Pushed
  <2>3. \A i \in 1 .. m : seq[i] \in Nat
    OBVIOUS
  <2> HIDE DEF more, m
  <2>4. \A i \in DOMAIN seq : seq[i] < first.n
    BY <2>1 DEF Flows
  <2>5. first.n <= upto
    BY <2>1 DEF Flows
  <2>6. \A i \in Messages(new) : first.n < new[i].n
    <3> SUFFICES ASSUME NEW i \in Messages(new) PROVE first.n < new[i].n
      OBVIOUS
    <3>1. i + 1 \in Messages(way) /\ new[i] = way[i + 1] /\ 1 < i + 1
      BY <1>1, <1>2 DEF Messages
    <3> QED
      BY <2>1, <3>1 DEF Flows
  <2>7. \A i \in DOMAIN more : more[i] <= upto
    BY <2>2, <2>5 DEF Flows
  <2>8. \A i, j \in DOMAIN more : i < j => more[i] < more[j]
    BY <2>2, <2>4 DEF Flows
  <2>9. \A i \in DOMAIN more, j \in Messages(new) : more[i] < new[j].n
    BY <1>6, <2>2, <2>6 DEF Flows
  <2>10. Flows(more, new, upto)
    BY <1>6, <2>7, <2>8, <2>9 DEF Flows
  <2>11. \A n : Has(seq, way, n) => Has(more, new, n)
    <3>1. \A n \in Items(seq) : n \in Items(more)
      BY <2>2 DEF Items
    <3>2. first.n \in Items(more)
      BY <2>2 DEF Items
    <3>3. \A i \in Messages(way) : \/ way[i].n \in Items(more)
                                   \/ \E j \in Messages(new) : new[j].n = way[i].n
      BY <1>3, <2>1, <3>2
    <3> QED
      BY <3>1, <3>3 DEF Has
  <2> QED
    BY <2>10, <2>11 DEF more
<1> QED
  BY <1>6, <1>7, <1>8 DEF new, first

\* The connection is lost.
LEMMA NothingOnTheWay ==
    ASSUME NEW seq, NEW way, NEW upto, Flows(seq, way, upto)
    PROVE  Flows(seq, <<>>, upto)
<1>1. Messages(<<>>) = {}
  BY DEF Messages
<1> QED
  BY <1>1 DEF Flows

-----------------------------------------------------------------------------
(* What the operations have in common.                                     *)

\* What a sequence holds.
LEMMA ItemsIn ==
    ASSUME NEW S, NEW seq \in Seq(S)
    PROVE  Items(seq) \subseteq S
BY DEF Items

\* Requests and answers are about a listener.
LEMMA RequestOf ==
    ASSUME NEW packet \in Packet, packet.type # "Message"
    PROVE  packet.of \in Listener
BY DEF Packet

\* ... and have a type.
LEMMA RequestIs ==
    ASSUME NEW l \in Listener, NEW type \in {"Subscribe", "Unsubscribe", "Ack"}
    PROVE  /\ [type |-> type, of |-> l] \in Packet
           /\ [type |-> type, of |-> l].type = type /\ [type |-> type, of |-> l].of = l
BY DEF Packet

\* Who waits for an answer.
LEMMA WhoWaits ==
    ASSUME ChannelTypes, NEW p \in Client, Awaited(p)
    PROVE  /\ \A i \in DOMAIN toBroker[p] :
                /\ toBroker[p][i].type \in {"Subscribe", "Unsubscribe"}
                /\ toBroker[p][i].of \in Listener /\ ClientOf[toBroker[p][i].of] = p
                /\ status[toBroker[p][i].of] \in {"subscribing", "releasing"}
           /\ \A i \in DOMAIN toClient[p] : toClient[p][i].type = "Ack" =>
                /\ toClient[p][i].of \in Listener /\ ClientOf[toClient[p][i].of] = p
                /\ status[toClient[p][i].of] \in {"subscribing", "releasing"}
<1>1. ASSUME NEW i \in DOMAIN toBroker[p]
      PROVE  /\ toBroker[p][i].type \in {"Subscribe", "Unsubscribe"}
             /\ toBroker[p][i].of \in Listener /\ ClientOf[toBroker[p][i].of] = p
             /\ status[toBroker[p][i].of] \in {"subscribing", "releasing"}
  <2>1. toBroker[p] \in Seq(Packet) /\ toBroker[p][i] \in Packet
    BY DEF ChannelTypes
  <2>2. toBroker[p][i].type \in {"Subscribe", "Unsubscribe"}
    BY Zenon DEF Awaited, IsRequest
  <2>3. toBroker[p][i].of \in Listener
    BY <2>1, <2>2, RequestOf
  <2>4. /\ ClientOf[toBroker[p][i].of] = p
        /\ status[toBroker[p][i].of] =
             IF toBroker[p][i].type = "Subscribe" THEN "subscribing" ELSE "releasing"
    BY DEF Awaited
  <2> QED
    BY <2>2, <2>3, <2>4
<1>2. ASSUME NEW i \in DOMAIN toClient[p], toClient[p][i].type = "Ack"
      PROVE  /\ toClient[p][i].of \in Listener /\ ClientOf[toClient[p][i].of] = p
             /\ status[toClient[p][i].of] \in {"subscribing", "releasing"}
  <2>1. toClient[p] \in Seq(Packet) /\ toClient[p][i] \in Packet
    BY DEF ChannelTypes
  <2>2. toClient[p][i].of \in Listener
    BY <1>2, <2>1, RequestOf
  <2> QED
    BY <1>2, <2>2 DEF Awaited
<1> QED
  BY <1>1, <1>2

\* Packets are taken from either end of the connection of a client.
LEMMA AwaitedLess ==
    ASSUME ChannelTypes, NEW p \in Client, Awaited(p), NEW s \in Nat, NEW t \in Nat,
           \A i \in DOMAIN toBroker'[p] :
             i \in Nat /\ i + s \in DOMAIN toBroker[p] /\ toBroker'[p][i] = toBroker[p][i + s],
           \A i \in DOMAIN toClient'[p] :
             i \in Nat /\ i + t \in DOMAIN toClient[p] /\ toClient'[p][i] = toClient[p][i + t],
           \A i \in DOMAIN toBroker'[p] : status'[toBroker'[p][i].of] = status[toBroker'[p][i].of],
           \A i \in DOMAIN toClient'[p] : toClient'[p][i].type = "Ack" =>
             status'[toClient'[p][i].of] = status[toClient'[p][i].of]
    PROVE  Awaited(p)'
<1>1. \A i \in DOMAIN toBroker'[p] :
        /\ IsRequest(toBroker'[p][i])
        /\ ClientOf[toBroker'[p][i].of] = p
        /\ status'[toBroker'[p][i].of] =
             IF toBroker'[p][i].type = "Subscribe" THEN "subscribing" ELSE "releasing"
  BY DEF Awaited
<1>2. \A i \in DOMAIN toClient'[p] :
        /\ toClient'[p][i].type \in {"Ack", "Message"}
        /\ toClient'[p][i].type = "Ack" =>
             /\ ClientOf[toClient'[p][i].of] = p
             /\ status'[toClient'[p][i].of] \in {"subscribing", "releasing"}
  BY DEF Awaited
<1>3. \A i, j \in DOMAIN toBroker'[p] : toBroker'[p][i].of = toBroker'[p][j].of => i = j
  <2> SUFFICES ASSUME NEW i \in DOMAIN toBroker'[p], NEW j \in DOMAIN toBroker'[p],
                      toBroker'[p][i].of = toBroker'[p][j].of
               PROVE  i = j
    OBVIOUS
  <2>1. i + s = j + s
    BY DEF Awaited
  <2> QED
    BY <2>1
<1>4. \A i, j \in DOMAIN toClient'[p] :
        toClient'[p][i].type = "Ack" /\ toClient'[p][j].type = "Ack" /\ toClient'[p][i].of = toClient'[p][j].of
          => i = j
  <2> SUFFICES ASSUME NEW i \in DOMAIN toClient'[p], NEW j \in DOMAIN toClient'[p],
                      toClient'[p][i].type = "Ack", toClient'[p][j].type = "Ack",
                      toClient'[p][i].of = toClient'[p][j].of
               PROVE  i = j
    OBVIOUS
  <2>1. i + t = j + t
    BY DEF Awaited
  <2> QED
    BY <2>1
<1>5. \A i \in DOMAIN toBroker'[p], j \in DOMAIN toClient'[p] :
        toClient'[p][j].type = "Ack" => toBroker'[p][i].of # toClient'[p][j].of
  BY DEF Awaited
<1> QED
  BY <1>1, <1>2, <1>3, <1>4, <1>5 DEF Awaited

\* A request of a listener that waits for nothing is sent.
LEMMA AwaitedMore ==
    ASSUME ChannelTypes, NEW p \in Client, Awaited(p), NEW t \in Nat,
           NEW packet \in Packet, IsRequest(packet), ClientOf[packet.of] = p,
           status[packet.of] \notin {"subscribing", "releasing"},
           status'[packet.of] = IF packet.type = "Subscribe" THEN "subscribing" ELSE "releasing",
           \A l \in Listener : l # packet.of => status'[l] = status[l],
           toBroker'[p] = Append(toBroker[p], packet),
           \A i \in DOMAIN toClient'[p] :
             i \in Nat /\ i + t \in DOMAIN toClient[p] /\ toClient'[p][i] = toClient[p][i + t]
    PROVE  Awaited(p)'
<1> DEFINE n == Len(toBroker[p])
<1>1. toBroker[p] \in Seq(Packet)
  BY DEF ChannelTypes
<1>2. /\ DOMAIN toBroker'[p] = 1 .. n + 1 /\ DOMAIN toBroker[p] = 1 .. n /\ n \in Nat
      /\ \A i \in 1 .. n : toBroker'[p][i] = toBroker[p][i]
      /\ toBroker'[p][n + 1] = packet
  BY <1>1, Pushed
<1> HIDE DEF n
<1>3. /\ \A i \in 1 .. n : toBroker[p][i].of # packet.of /\ toBroker[p][i].of \in Listener
      /\ \A i \in DOMAIN toClient[p] : toClient[p][i].type = "Ack" =>
           toClient[p][i].of # packet.of /\ toClient[p][i].of \in Listener
  BY <1>2, WhoWaits
<1>4. \A i \in DOMAIN toBroker'[p] :
        /\ IsRequest(toBroker'[p][i])
        /\ ClientOf[toBroker'[p][i].of] = p
        /\ status'[toBroker'[p][i].of] =
             IF toBroker'[p][i].type = "Subscribe" THEN "subscribing" ELSE "releasing"
  <2> SUFFICES ASSUME NEW i \in 1 .. n + 1
               PROVE  /\ IsRequest(toBroker'[p][i])
                      /\ ClientOf[toBroker'[p][i].of] = p
                      /\ status'[toBroker'[p][i].of] =
                           IF toBroker'[p][i].type = "Subscribe" THEN "subscribing" ELSE "releasing"
    BY <1>2
  <2>1. CASE i = n + 1
    BY <1>2, <2>1
  <2>2. CASE i # n + 1
    <3>1. i \in 1 .. n /\ toBroker'[p][i] = toBroker[p][i]
      BY <1>2, <2>2
    <3>2. status'[toBroker'[p][i].of] = status[toBroker[p][i].of]
      BY <1>3, <3>1
    <3> QED
      BY <1>2, <3>1, <3>2 DEF Awaited
  <2> QED
    BY <2>1, <2>2
<1>5. \A i \in DOMAIN toClient'[p] :
        /\ toClient'[p][i].type \in {"Ack", "Message"}
        /\ toClient'[p][i].type = "Ack" =>
             /\ ClientOf[toClient'[p][i].of] = p
             /\ status'[toClient'[p][i].of] \in {"subscribing", "releasing"}
  <2> SUFFICES ASSUME NEW i \in DOMAIN toClient'[p]
               PROVE  /\ toClient'[p][i].type \in {"Ack", "Message"}
                      /\ toClient'[p][i].type = "Ack" =>
                           /\ ClientOf[toClient'[p][i].of] = p
                           /\ status'[toClient'[p][i].of] \in {"subscribing", "releasing"}
    OBVIOUS
  <2>1. PICK j \in DOMAIN toClient[p] : toClient'[p][i] = toClient[p][j]
    OBVIOUS
  <2>2. toClient[p][j].type = "Ack" => status'[toClient[p][j].of] = status[toClient[p][j].of]
    BY <1>3
  <2> QED
    BY <2>1, <2>2 DEF Awaited
<1>6. \A i, j \in DOMAIN toBroker'[p] : toBroker'[p][i].of = toBroker'[p][j].of => i = j
  <2> SUFFICES ASSUME NEW i \in 1 .. n + 1, NEW j \in 1 .. n + 1,
                      toBroker'[p][i].of = toBroker'[p][j].of
               PROVE  i = j
    BY <1>2
  <2>1. i = n + 1 <=> j = n + 1
    BY <1>2, <1>3
  <2> QED
    BY <1>2, <2>1 DEF Awaited
<1>7. \A i, j \in DOMAIN toClient'[p] :
        toClient'[p][i].type = "Ack" /\ toClient'[p][j].type = "Ack" /\ toClient'[p][i].of = toClient'[p][j].of
          => i = j
  <2> SUFFICES ASSUME NEW i \in DOMAIN toClient'[p], NEW j \in DOMAIN toClient'[p],
                      toClient'[p][i].type = "Ack", toClient'[p][j].type = "Ack",
                      toClient'[p][i].of = toClient'[p][j].of
               PROVE  i = j
    OBVIOUS
  <2>1. i + t = j + t
    BY DEF Awaited
  <2> QED
    BY <2>1
<1>8. \A i \in DOMAIN toBroker'[p], j \in DOMAIN toClient'[p] :
        toClient'[p][j].type = "Ack" => toBroker'[p][i].of # toClient'[p][j].of
  <2> SUFFICES ASSUME NEW i \in 1 .. n + 1, NEW k \in DOMAIN toClient'[p], toClient'[p][k].type = "Ack"
               PROVE  toBroker'[p][i].of # toClient'[p][k].of
    BY <1>2
  <2>1. PICK j \in DOMAIN toClient[p] : toClient'[p][k] = toClient[p][j]
    OBVIOUS
  <2>2. CASE i = n + 1
    BY <1>2, <1>3, <2>1, <2>2
  <2>3. CASE i # n + 1
    <3>1. i \in DOMAIN toBroker[p] /\ toBroker'[p][i] = toBroker[p][i]
      BY <1>2, <2>3
    <3> QED
      BY <2>1, <3>1 DEF Awaited
  <2> QED
    BY <2>2, <2>3
<1> QED
  BY <1>4, <1>5, <1>6, <1>7, <1>8 DEF Awaited

\* What another client does, or what happens to its connection, leaves a client alone.
LEMMA OtherClient ==
    ASSUME ChannelTypes, NEW q \in Client, Channel(q),
           callbacks'[q] = callbacks[q], listenersOf'[q] = listenersOf[q],
           toBroker'[q] = toBroker[q], toClient'[q] = toClient[q],
           q \in Items(subscriptions)' <=> q \in Items(subscriptions),
           \A l \in Listener : ClientOf[l] = q => status'[l] = status[l],
           breaks' = 0 => breaks = 0
    PROVE  Channel(q)'
<1>1. \A i \in DOMAIN toBroker[q] : toBroker[q][i].of \in Listener /\ ClientOf[toBroker[q][i].of] = q
  BY WhoWaits DEF Channel
<1>2. \A i \in DOMAIN toClient[q] : toClient[q][i].type = "Ack" =>
         toClient[q][i].of \in Listener /\ ClientOf[toClient[q][i].of] = q
  BY WhoWaits DEF Channel
<1>3. \A l \in Items(callbacks[q]) : l \in Listener /\ ClientOf[l] = q
  BY ItemsIn DEF ChannelTypes, Channel, Registered
<1>4. Registered(q)'
  BY <1>3, Zenon DEF Channel, Registered
<1>5. Awaited(q)'
  BY <1>1, <1>2 DEF Channel, Awaited
<1>6. Requests(q)'
  BY DEF Channel, Requests
<1>7. Agreed(q)'
  BY <1>2, <1>3 DEF Channel, Agreed, Settled
<1> QED
  BY <1>4, <1>5, <1>6, <1>7 DEF Channel


\* The messages of a listener whose client nothing happens to.
LEMMA NothingFollows ==
    ASSUME NEW l \in Listener, Follows(l),
           received'[l] = received[l], toClient'[ClientOf[l]] = toClient[ClientOf[l]],
           published' = published, joined'[l] = joined[l],
           status'[l] = "subscribed" /\ l \notin overlooked' => status[l] = "subscribed" /\ l \notin overlooked
    PROVE  Follows(l)'
BY DEF Follows

\* What the requests of a client allow when it has callbacks.
LEMMA SubscribeFirstKeeps ==
    ASSUME ChannelInv, NEW l \in Listener, subscribeFirst(l)
    PROVE  ChannelInv'
<1> DEFINE p == ClientOf[l]
           packet == [type |-> "Subscribe", of |-> l]
<1>1. p \in Client
  BY BrokerBusAssumption
<1>2. packet \in Packet /\ packet.type = "Subscribe" /\ packet.of = l
  BY RequestIs
<1>3. /\ status[l] = "new" /\ listenersOf[p] = 0
      /\ listenersOf' = [listenersOf EXCEPT ![p] = 1]
      /\ callbacks' = [callbacks EXCEPT ![p] = Append(callbacks[p], l)]
      /\ status' = [status EXCEPT ![l] = "subscribing"]
      /\ toBroker' = [toBroker EXCEPT ![p] = Append(toBroker[p], packet)]
      /\ UNCHANGED <<brokerVars, received, joined, overlooked, toClient, breaks>>
  BY DEF subscribeFirst
<1> HIDE DEF p, packet
<1>4. ChannelTypes
  BY DEF ChannelInv
<1>5. ChannelTypes'
  BY <1>1, <1>2, <1>3, <1>4 DEF ChannelTypes, Status, brokerVars
<1>6. /\ toBroker[p] \in Seq(Packet) /\ callbacks[p] \in Seq(Listener)
      /\ listenersOf'[p] = 1 /\ callbacks'[p] = Append(callbacks[p], l)
      /\ toBroker'[p] = Append(toBroker[p], packet) /\ toClient'[p] = toClient[p]
      /\ status'[l] = "subscribing" /\ \A k \in Listener : k # l => status'[k] = status[k]
      /\ subscriptions' = subscriptions /\ breaks' = breaks
  BY <1>1, <1>3, <1>4 DEF ChannelTypes, brokerVars
<1>7. Channel(p) /\ callbacks[p] = <<>>
  BY <1>1, <1>3, <1>6 DEF ChannelInv, Channel, Registered
<1>8. callbacks'[p] = <<l>> /\ Items(callbacks'[p]) = {l} /\ Len(callbacks'[p]) = 1
  BY <1>6, <1>7 DEF Items
<1>9. Registered(p)'
  <2>1. Once(callbacks'[p])
    BY <1>8 DEF Once
  <2>2. listenersOf'[p] = Len(callbacks'[p])
    BY <1>6, <1>8
  <2>3. \A k \in Items(callbacks'[p]) : ClientOf[k] = p /\ status'[k] \notin {"new", "releasing"}
    BY <1>6, <1>8 DEF p
  <2>4. \A k \in Listener : ClientOf[k] = p /\ status'[k] \in {"subscribing", "subscribed", "early", "lost"}
          => k \in Items(callbacks'[p])
    BY <1>6, <1>7, <1>8 DEF Channel, Registered, Items
  <2> QED
    BY <2>1, <2>2, <2>3, <2>4 DEF Registered
<1>10. Awaited(p)'
  <2>1. \A i \in DOMAIN toClient'[p] :
             i \in Nat /\ i + 0 \in DOMAIN toClient[p] /\ toClient'[p][i] = toClient[p][i + 0]
    BY <1>1, <1>4, <1>6 DEF ChannelTypes
  <2> QED
    <3>1. /\ IsRequest(packet) /\ ClientOf[packet.of] = p
          /\ status[packet.of] \notin {"subscribing", "releasing"}
          /\ status'[packet.of] = IF packet.type = "Subscribe" THEN "subscribing" ELSE "releasing"
          /\ \A k \in Listener : k # packet.of => status'[k] = status[k]
      BY <1>2, <1>3, <1>6 DEF IsRequest, p
    <3> QED
      BY <1>1, <1>2, <1>4, <1>6, <1>7, <2>1, <3>1, AwaitedMore DEF Channel
<1>11. Requests(p)'
  <2> DEFINE n == Len(toBroker[p])
  <2>1. /\ DOMAIN toBroker'[p] = 1 .. n + 1 /\ DOMAIN toBroker[p] = 1 .. n /\ n \in Nat
        /\ \A i \in 1 .. n : toBroker'[p][i] = toBroker[p][i]
        /\ toBroker'[p][n + 1] = packet /\ Len(toBroker'[p]) = n + 1
    BY <1>2, <1>6, Pushed
  <2> HIDE DEF n
  <2>2. \A i \in 1 .. n : toBroker[p][i].type = "Unsubscribe" /\ i = 1
    <3> SUFFICES ASSUME NEW i \in 1 .. n PROVE toBroker[p][i].type = "Unsubscribe" /\ i = 1
      OBVIOUS
    <3>0. toBroker[p][i].of \in Listener /\ ClientOf[toBroker[p][i].of] = p
      BY <1>1, <1>4, <1>7, <2>1, WhoWaits DEF Channel
    <3>1. status[toBroker[p][i].of] # "subscribing"
      BY <1>7, <3>0 DEF Channel, Registered, Items
    <3>2. toBroker[p][i].type = "Unsubscribe"
      <4>1. toBroker[p][i].type \in {"Subscribe", "Unsubscribe"}
        BY <1>1, <1>4, <1>7, <2>1, WhoWaits DEF Channel
      <4>2. status[toBroker[p][i].of] =
              IF toBroker[p][i].type = "Subscribe" THEN "subscribing" ELSE "releasing"
        BY <1>7, <2>1 DEF Channel, Awaited
      <4> QED
        BY <3>1, <4>1, <4>2
    <3> QED
      BY <1>7, <2>1, <3>2 DEF Channel, Requests
  <2>3. n = 0 => p \notin Items(subscriptions)
    BY <1>6, <1>7, <2>1 DEF Channel, Agreed
  <2> QED
    BY <1>2, <1>6, <2>1, <2>2, <2>3 DEF Requests
<1>12. Agreed(p)'
  <2>1. toBroker'[p] # <<>>
    BY <1>2, <1>6, Pushed
  <2>2. \A k \in Listener : ClientOf[k] = p => status[k] \notin {"subscribing", "subscribed"}
    BY <1>7 DEF Channel, Registered, Items
  <2>3. \A k \in Listener : ClientOf[k] = p => status'[k] # "subscribed"
    BY <1>6, <2>2
  <2>4. \A k \in Items(callbacks'[p]) : status'[k] \notin {"lost", "over"}
    BY <1>6, <1>8
  <2>5. \A i \in DOMAIN toClient'[p] : toClient'[p][i].type = "Ack" => status'[toClient'[p][i].of] # "subscribing"
    <3> SUFFICES ASSUME NEW i \in DOMAIN toClient[p], toClient[p][i].type = "Ack"
                 PROVE  status'[toClient[p][i].of] # "subscribing"
      BY <1>6
    <3>1. /\ toClient[p][i].of \in Listener /\ ClientOf[toClient[p][i].of] = p
          /\ status[toClient[p][i].of] \in {"subscribing", "releasing"}
      BY <1>1, <1>4, <1>7, WhoWaits DEF Channel
    <3> QED
      BY <1>3, <1>6, <2>2, <3>1
  <2> QED
    BY <2>1, <2>3, <2>4, <2>5, Zenon DEF Agreed
<1>13. \A q \in Client : Channel(q)'
  <2> SUFFICES ASSUME NEW q \in Client, q # p PROVE Channel(q)'
    BY <1>9, <1>10, <1>11, <1>12 DEF Channel
  <2> QED
    BY <1>3, <1>4, <1>6, OtherClient DEF ChannelInv, p, ChannelTypes
<1>14. \A k \in Listener : Follows(k)'
  <2> SUFFICES ASSUME NEW k \in Listener PROVE Follows(k)'
    OBVIOUS
  <2> QED
    BY <1>3, <1>6, NothingFollows DEF ChannelInv, brokerVars
<1>15. Once(subscriptions)'
  BY <1>6 DEF ChannelInv, Once
<1> QED
  BY <1>5, <1>13, <1>14, <1>15 DEF ChannelInv


\* Without its item an array is one shorter.
LEMMA RemoveShortens ==
    ASSUME NEW S, NEW array \in Seq(S), NEW item \in Items(array)
    PROVE  Len(arrayRemoveItem(array, item)) = Len(array) - 1
<1>1. arrayRemoveItem(array, item) = [ i \in 1 .. (Len(array) - 1) |->
             IF i < IndexOf(array, item) THEN array[i] ELSE array[i + 1] ]
  BY DEF arrayRemoveItem
<1>2. Len(array) - 1 \in Nat
  BY DEF Items
<1> QED
  BY <1>1, <1>2

\* A listener subscribes behind others of its client.
LEMMA SubscribeNextKeeps ==
    ASSUME ChannelInv, NEW l \in Listener, subscribeNext(l)
    PROVE  ChannelInv'
<1> DEFINE p == ClientOf[l]
<1> DEFINE new == IF Known(p) THEN "subscribed" ELSE "early"
<1>1. p \in Client
  BY BrokerBusAssumption
<1>2. PICK s : s = new
  OBVIOUS
<1>3. s \in {"subscribed", "early"} /\ (s = "subscribed" => \E k \in Listener : ClientOf[k] = p /\ status[k] = "subscribed")
  BY <1>2 DEF Known
<1>4. /\ status[l] = "new" /\ listenersOf[p] # 0
      /\ listenersOf' = [listenersOf EXCEPT ![p] = @ + 1]
      /\ callbacks' = [callbacks EXCEPT ![p] = Append(callbacks[p], l)]
      /\ status' = [status EXCEPT ![l] = s]
      /\ joined' = [joined EXCEPT ![l] = published]
      /\ UNCHANGED <<brokerVars, received, overlooked, toBroker, toClient, breaks>>
  BY <1>2 DEF subscribeNext
<1> HIDE DEF p, new
<1>5. ChannelTypes
  BY DEF ChannelInv
<1>6. ChannelTypes'
  BY <1>1, <1>3, <1>4, <1>5 DEF ChannelTypes, Status, brokerVars
<1>7. /\ callbacks[p] \in Seq(Listener) /\ listenersOf[p] \in Int
      /\ listenersOf'[p] = listenersOf[p] + 1 /\ callbacks'[p] = Append(callbacks[p], l)
      /\ toBroker' = toBroker /\ toClient' = toClient
      /\ status'[l] = s /\ \A k \in Listener : k # l => status'[k] = status[k]
      /\ subscriptions' = subscriptions /\ breaks' = breaks /\ published' = published
  BY <1>1, <1>4, <1>5 DEF ChannelTypes, brokerVars
<1>8. Channel(p)
  BY <1>1 DEF ChannelInv
<1>9. l \notin Items(callbacks[p])
  BY <1>4, <1>8 DEF Channel, Registered
<1>10. /\ Items(callbacks'[p]) = Items(callbacks[p]) \cup {l} /\ Once(callbacks'[p])
       /\ Len(callbacks'[p]) = Len(callbacks[p]) + 1
       /\ callbacks'[p] # <<>> /\ callbacks[p] # <<>>
  <2>1. callbacks[p] # <<>>
    BY <1>4, <1>8 DEF Channel, Registered
  <2> QED
    BY <1>7, <1>8, <1>9, <2>1, PushItem, Pushed DEF Channel, Registered
<1>11. Registered(p)'
  <2>1. listenersOf'[p] = Len(callbacks'[p])
    BY <1>7, <1>8, <1>10 DEF Channel, Registered
  <2>2. \A k \in Items(callbacks'[p]) : ClientOf[k] = p /\ status'[k] \notin {"new", "releasing"}
    <3> SUFFICES ASSUME NEW k \in Items(callbacks'[p])
                 PROVE  ClientOf[k] = p /\ status'[k] \notin {"new", "releasing"}
      OBVIOUS
    <3>1. CASE k = l
      BY <1>3, <1>7, <3>1 DEF p
    <3>2. CASE k # l
      <4>1. k \in Items(callbacks[p]) /\ k \in Listener
        BY <1>7, <1>10, <3>2, ItemsIn
      <4> QED
        BY <1>7, <1>8, <3>2, <4>1 DEF Channel, Registered
    <3> QED
      BY <3>1, <3>2
  <2>3. \A k \in Listener : ClientOf[k] = p /\ status'[k] \in {"subscribing", "subscribed", "early", "lost"}
          => k \in Items(callbacks'[p])
    BY <1>7, <1>8, <1>10 DEF Channel, Registered
  <2> QED
    BY <1>10, <2>1, <2>2, <2>3 DEF Registered
<1>12. \A k \in Listener : status[k] \in {"subscribing", "releasing"} => status'[k] = status[k]
  BY <1>4, <1>7
<1>13. Awaited(p)'
  <2>1. /\ \A i \in DOMAIN toBroker[p] : status'[toBroker[p][i].of] = status[toBroker[p][i].of]
        /\ \A i \in DOMAIN toClient[p] : toClient[p][i].type = "Ack" =>
             status'[toClient[p][i].of] = status[toClient[p][i].of]
    BY <1>1, <1>5, <1>8, <1>12, WhoWaits DEF Channel
  <2> QED
    BY <1>7, <1>8, <2>1 DEF Channel, Awaited
<1>14. Requests(p)'
  BY <1>7, <1>8, <1>10 DEF Channel, Requests
<1>15. Agreed(p)'
  <2>1. toBroker'[p] = <<>> =>
       /\ p \in Items(subscriptions') => callbacks'[p] # <<>>
       /\ breaks' = 0 /\ callbacks'[p] # <<>> => p \in Items(subscriptions')
    BY <1>7, <1>8, <1>10 DEF Channel, Agreed
  <2>2. \A k \in Items(callbacks'[p]) : status'[k] \in {"lost", "over"} =>
       toBroker'[p] = <<>> /\ p \notin Items(subscriptions')
    <3> SUFFICES ASSUME NEW k \in Items(callbacks'[p]), status'[k] \in {"lost", "over"}
                 PROVE  toBroker'[p] = <<>> /\ p \notin Items(subscriptions')
      OBVIOUS
    <3>1. k # l /\ k \in Items(callbacks[p]) /\ k \in Listener
      BY <1>3, <1>7, <1>10, ItemsIn
    <3> QED
      BY <1>7, <1>8, <3>1 DEF Channel, Agreed
  <2>3. \A k \in Listener : ClientOf[k] = p /\ status'[k] = "subscribed" => Settled(p)'
    BY <1>3, <1>7, <1>8 DEF Channel, Agreed, Settled
  <2>4. \A i \in DOMAIN toClient'[p] :
       toClient'[p][i].type = "Ack" /\ status'[toClient'[p][i].of] = "subscribing" => Settled(p)'
    <3> SUFFICES ASSUME NEW i \in DOMAIN toClient[p], toClient[p][i].type = "Ack",
                        status'[toClient[p][i].of] = "subscribing"
                 PROVE  Settled(p)
      BY <1>7 DEF Settled
    <3>1. status[toClient[p][i].of] = "subscribing"
      BY <1>1, <1>5, <1>8, <1>12, WhoWaits DEF Channel
    <3> QED
      BY <1>8, <3>1 DEF Channel, Agreed
  <2> QED
    BY <2>1, <2>2, <2>3, <2>4 DEF Agreed
<1>16. \A q \in Client : Channel(q)'
  <2> SUFFICES ASSUME NEW q \in Client, q # p PROVE Channel(q)'
    BY <1>11, <1>13, <1>14, <1>15 DEF Channel
  <2> QED
    BY <1>4, <1>5, <1>7, OtherClient DEF ChannelInv, p, ChannelTypes
<1>17. \A k \in Listener : Follows(k)'
  <2> SUFFICES ASSUME NEW k \in Listener PROVE Follows(k)'
    OBVIOUS
  <2>1. CASE k = l
    <3>1. joined'[k] = published /\ published \in Nat
      BY <1>4, <1>5, <2>1, BrokerBusAssumption DEF ChannelTypes
    <3>2. Flows(received'[k], toClient'[ClientOf[k]], published')
      BY <1>4, <1>7 DEF ChannelInv, Follows
    <3>3. published' = published /\ \A n : n \notin published + 1 .. published
      BY <1>7, <3>1
    <3> QED
      BY <3>1, <3>2, <3>3 DEF Follows
  <2>2. CASE k # l
    <3>1. joined'[k] = joined[k] /\ status'[k] = status[k] /\ received'[k] = received[k] /\ overlooked' = overlooked
      BY <1>4, <1>5, <1>7, <2>2 DEF ChannelTypes
    <3> QED
      BY <1>7, <3>1, NothingFollows DEF ChannelInv
  <2> QED
    BY <2>1, <2>2
<1>18. Once(subscriptions)'
  BY <1>7 DEF ChannelInv, Once
<1> QED
  BY <1>6, <1>16, <1>17, <1>18 DEF ChannelInv


\* A listener releases, while packets may be taken from the way to its client.
LEMMA LeaveKeeps ==
    ASSUME ChannelTypes, NEW l \in Listener, NEW p \in Client, p = ClientOf[l], Channel(p),
           Released(l), Leave(l), NEW t \in Nat,
           \A i \in DOMAIN toClient'[p] :
             i \in Nat /\ i + t \in DOMAIN toClient[p] /\ toClient'[p][i] = toClient[p][i + t],
           subscriptions' = subscriptions, breaks' = breaks
    PROVE  /\ Channel(p)'
           /\ \A q \in Client : q # p =>
                /\ callbacks'[q] = callbacks[q] /\ listenersOf'[q] = listenersOf[q]
                /\ toBroker'[q] = toBroker[q]
           /\ status'[l] \in {"releasing", "over"}
           /\ \A k \in Listener : k # l => status'[k] = status[k]
           /\ listenersOf' \in [Client -> Int]
           /\ callbacks' \in [Client -> Seq(Listener)]
           /\ status' \in [Listener -> Status]
           /\ toBroker' \in [Client -> Seq(Packet)]
<1> DEFINE packet == [type |-> "Unsubscribe", of |-> l]
           n == Len(callbacks[p])
<1>1. packet \in Packet /\ packet.type = "Unsubscribe" /\ packet.of = l
  BY RequestIs
<1>2. /\ callbacks[p] \in Seq(Listener) /\ n \in Nat
      /\ toBroker[p] \in Seq(Packet) /\ toClient[p] \in Seq(Packet)
      /\ listenersOf[p] = n /\ Once(callbacks[p])
  BY DEF ChannelTypes, Channel, Registered
<1>3. /\ listenersOf' = [listenersOf EXCEPT ![p] = n - 1]
      /\ callbacks' = [callbacks EXCEPT ![p] = arrayRemoveItem(callbacks[p], l)]
      /\ status' = [status EXCEPT ![l] = IF n = 1 THEN "releasing" ELSE "over"]
      /\ toBroker' = IF n = 1 THEN [toBroker EXCEPT ![p] = Append(toBroker[p], packet)] ELSE toBroker
  BY <1>2 DEF Leave, IsLast
<1> HIDE DEF packet, n
<1>4. status[l] \in {"subscribed", "early", "lost"} /\ l \in Items(callbacks[p])
  BY DEF Released, Channel, Registered
<1>5. /\ listenersOf'[p] = n - 1 /\ callbacks'[p] = arrayRemoveItem(callbacks[p], l)
      /\ callbacks'[p] \in Seq(Listener) /\ Once(callbacks'[p])
      /\ Items(callbacks'[p]) = Items(callbacks[p]) \ {l}
      /\ Len(callbacks'[p]) = n - 1
  <2>1. PICK list \in Seq(Listener) : list = callbacks[p]
    BY <1>2
  <2>2. /\ arrayRemoveItem(list, l) \in Seq(Listener) /\ Once(arrayRemoveItem(list, l))
        /\ Items(arrayRemoveItem(list, l)) = Items(list) \ {l}
    BY <1>2, <2>1, RemoveItem
  <2>3. Len(arrayRemoveItem(list, l)) = n - 1
    BY <1>4, <2>1, RemoveShortens DEF n
  <2>4. listenersOf'[p] = n - 1 /\ callbacks'[p] = arrayRemoveItem(list, l)
    BY <1>3, <2>1 DEF ChannelTypes
  <2> QED
    BY <2>1, <2>2, <2>3, <2>4
<1>6. /\ status'[l] \in {"releasing", "over"} /\ \A k \in Listener : k # l => status'[k] = status[k]
      /\ n = 1 => status'[l] = "releasing"
  BY <1>3 DEF ChannelTypes
<1>7. /\ \A q \in Client : q # p =>
           /\ callbacks'[q] = callbacks[q] /\ listenersOf'[q] = listenersOf[q]
           /\ toBroker'[q] = toBroker[q]
      /\ listenersOf' \in [Client -> Int]
      /\ callbacks' \in [Client -> Seq(Listener)]
      /\ status' \in [Listener -> Status]
      /\ toBroker' \in [Client -> Seq(Packet)]
  <2>1. listenersOf' \in [Client -> Int] /\ callbacks' \in [Client -> Seq(Listener)]
    <3>1. n - 1 \in Int
      BY <1>2
    <3>2. listenersOf' \in [Client -> Int]
      BY <1>3, <3>1 DEF ChannelTypes
    <3>3. arrayRemoveItem(callbacks[p], l) \in Seq(Listener)
      BY <1>3, <1>5 DEF ChannelTypes
    <3>4. callbacks' \in [Client -> Seq(Listener)]
      BY <1>3, <3>3 DEF ChannelTypes
    <3> QED
      BY <3>2, <3>4
  <2>2. status' \in [Listener -> Status]
    BY <1>3 DEF ChannelTypes, Status
  <2>3. toBroker' \in [Client -> Seq(Packet)]
    BY <1>1, <1>2, <1>3 DEF ChannelTypes
  <2> QED
    BY <1>3, <2>1, <2>2, <2>3 DEF ChannelTypes
<1>8. n = 1 => callbacks'[p] = <<>> /\ Items(callbacks'[p]) = {} /\ \A k \in Items(callbacks[p]) : k = l
  <2>1. n = 1 => \A k \in Items(callbacks[p]) : k = callbacks[p][1]
    BY <1>2 DEF Items, n
  <2>2. n = 1 => callbacks'[p] = <<>>
    BY <1>5
  <2> QED
    BY <1>4, <1>5, <2>1, <2>2
<1>9. n # 1 => callbacks'[p] # <<>> /\ toBroker'[p] = toBroker[p]
  <2>1. n >= 1
    BY <1>2, <1>4 DEF Items, n
  <2>2. n # 1 => Len(callbacks'[p]) # 0
    BY <1>2, <1>5, <2>1
  <2> QED
    BY <1>3, <2>2
<1>10. callbacks[p] # <<>>
  BY <1>4 DEF Items
<1>11. Registered(p)'
  <2>1. \A k \in Items(callbacks'[p]) : ClientOf[k] = p /\ status'[k] \notin {"new", "releasing"}
    BY <1>2, <1>5, <1>6, ItemsIn DEF Channel, Registered
  <2>2. \A k \in Listener : ClientOf[k] = p /\ status'[k] \in {"subscribing", "subscribed", "early", "lost"}
          => k \in Items(callbacks'[p])
    BY <1>5, <1>6 DEF Channel, Registered
  <2> QED
    BY <1>5, <2>1, <2>2 DEF Registered
<1>12. /\ \A i \in DOMAIN toBroker[p] : toBroker[p][i].of # l /\ toBroker[p][i].of \in Listener
       /\ \A i \in DOMAIN toClient[p] : toClient[p][i].type = "Ack" =>
            toClient[p][i].of # l /\ toClient[p][i].of \in Listener
  BY <1>4, WhoWaits DEF Channel
\* Whoever else subscribes keeps its callback, so that this one is not the last.
<1>13. ASSUME NEW k \in Listener, ClientOf[k] = p, status[k] \in {"subscribing", "subscribed"}, k # l
       PROVE  n # 1
  BY <1>8, <1>13 DEF Channel, Registered
<1>14. n = 1 => toBroker[p] = <<>>
  <2> SUFFICES ASSUME n = 1, toBroker[p] # <<>> PROVE FALSE
    OBVIOUS
  <2> DEFINE m == Len(toBroker[p])
  <2>1. m \in DOMAIN toBroker[p]
    BY <1>2
  <2> HIDE DEF m
  <2>2. toBroker[p][m].type = "Subscribe"
    BY <1>10, <2>1, WhoWaits DEF Channel, Requests, m
  <2>3. status[toBroker[p][m].of] = "subscribing"
    BY <2>1, <2>2 DEF Channel, Awaited
  <2>4. toBroker[p][m].of \in Listener /\ ClientOf[toBroker[p][m].of] = p /\ toBroker[p][m].of # l
    BY <1>12, <2>1, WhoWaits DEF Channel
  <2> QED
    BY <1>13, <2>3, <2>4
<1>15. Awaited(p)'
  <2>1. CASE n = 1
    <3>1. /\ IsRequest(packet) /\ ClientOf[packet.of] = p
          /\ status[packet.of] \notin {"subscribing", "releasing"}
          /\ status'[packet.of] = IF packet.type = "Subscribe" THEN "subscribing" ELSE "releasing"
          /\ \A k \in Listener : k # packet.of => status'[k] = status[k]
      BY <1>1, <1>4, <1>6, <2>1 DEF IsRequest
    <3>2. toBroker'[p] = Append(toBroker[p], packet)
      BY <1>3, <2>1 DEF ChannelTypes
    <3> QED
      BY <1>1, <3>1, <3>2, AwaitedMore DEF Channel
  <2>2. CASE n # 1
    <3>1. \A i \in DOMAIN toBroker'[p] :
             i \in Nat /\ i + 0 \in DOMAIN toBroker[p] /\ toBroker'[p][i] = toBroker[p][i + 0]
      BY <1>2, <1>9, <2>2
    <3>2. \A i \in DOMAIN toBroker'[p] : status'[toBroker'[p][i].of] = status[toBroker'[p][i].of]
      BY <1>6, <1>9, <1>12, <2>2
    <3>3. \A i \in DOMAIN toClient'[p] : toClient'[p][i].type = "Ack" =>
             status'[toClient'[p][i].of] = status[toClient'[p][i].of]
      BY <1>6, <1>12
    <3> QED
      BY <3>1, <3>2, <3>3, AwaitedLess DEF Channel
  <2> QED
    BY <2>1, <2>2
<1>16. Requests(p)'
  <2>1. CASE n = 1
    <3>1. toBroker'[p] = Append(toBroker[p], packet) /\ Len(toBroker[p]) = 0
      BY <1>3, <1>14, <2>1 DEF ChannelTypes
    <3>2. DOMAIN toBroker'[p] = 1 .. 1 /\ toBroker'[p][1] = packet /\ Len(toBroker'[p]) = 1
      BY <1>1, <1>2, <3>1, Pushed
    <3> QED
      BY <1>1, <1>8, <2>1, <3>2 DEF Requests
  <2>2. CASE n # 1
    BY <1>9, <1>10, <2>2 DEF Channel, Requests
  <2> QED
    BY <2>1, <2>2
<1>17. Agreed(p)'
  <2>1. toBroker'[p] = <<>> => n # 1
    <3>1. n = 1 => toBroker'[p] = Append(toBroker[p], packet)
      BY <1>3 DEF ChannelTypes
    <3>2. toBroker[p] \in Seq(Packet) /\ packet \in Packet
      BY <1>1, <1>2
    <3>3. Append(toBroker[p], packet) # <<>>
      BY <3>2, Pushed
    <3> QED
      BY <3>1, <3>3
  <2>2. toBroker'[p] = <<>> =>
       /\ p \in Items(subscriptions') => callbacks'[p] # <<>>
       /\ breaks' = 0 /\ callbacks'[p] # <<>> => p \in Items(subscriptions')
    BY <1>9, <1>10, <2>1 DEF Channel, Agreed
  <2>3. \A k \in Items(callbacks'[p]) : status'[k] \in {"lost", "over"} =>
       toBroker'[p] = <<>> /\ p \notin Items(subscriptions')
    <3> SUFFICES ASSUME NEW k \in Items(callbacks'[p]), status'[k] \in {"lost", "over"}
                 PROVE  toBroker'[p] = <<>> /\ p \notin Items(subscriptions')
      OBVIOUS
    <3>1. k # l /\ k \in Items(callbacks[p]) /\ k \in Listener /\ n # 1
      BY <1>2, <1>5, <1>8, ItemsIn
    <3> QED
      BY <1>6, <1>9, <3>1 DEF Channel, Agreed
  <2>4. \A k \in Listener : ClientOf[k] = p /\ status'[k] = "subscribed" => Settled(p)'
    <3> SUFFICES ASSUME NEW k \in Listener, ClientOf[k] = p, status'[k] = "subscribed" PROVE Settled(p)'
      OBVIOUS
    <3>1. k # l /\ status[k] = "subscribed"
      BY <1>6
    <3>2. n # 1
      BY <1>13, <3>1
    <3> QED
      BY <1>9, <3>1, <3>2 DEF Channel, Agreed, Settled
  <2>5. \A i \in DOMAIN toClient'[p] :
       toClient'[p][i].type = "Ack" /\ status'[toClient'[p][i].of] = "subscribing" => Settled(p)'
    <3> SUFFICES ASSUME NEW i \in DOMAIN toClient'[p], toClient'[p][i].type = "Ack",
                        status'[toClient'[p][i].of] = "subscribing"
                 PROVE  Settled(p)'
      OBVIOUS
    <3>1. PICK j \in DOMAIN toClient[p] : toClient'[p][i] = toClient[p][j]
      OBVIOUS
    <3>2. toClient[p][j].of \in Listener /\ toClient[p][j].of # l /\ ClientOf[toClient[p][j].of] = p
      BY <1>12, <3>1, WhoWaits DEF Channel
    <3>3. status[toClient[p][j].of] = "subscribing"
      BY <1>6, <3>1, <3>2
    <3>4. n # 1
      BY <1>13, <3>2, <3>3
    <3> QED
      BY <1>9, <3>1, <3>3, <3>4 DEF Channel, Agreed, Settled
  <2> QED
    BY <2>2, <2>3, <2>4, <2>5 DEF Agreed
<1> QED
  BY <1>6, <1>7, <1>11, <1>15, <1>16, <1>17 DEF Channel


\* A listener is released, with an Unsubscribe if it was the last.
LEMMA ListenerReleaseKeeps ==
    ASSUME ChannelInv, NEW l \in Listener, release(l)
    PROVE  ChannelInv'
<1>1. PICK p \in Client : p = ClientOf[l]
  BY BrokerBusAssumption
<1>2. /\ Released(l) /\ Leave(l)
      /\ UNCHANGED <<brokerVars, received, joined, overlooked, toClient, breaks>>
  BY DEF release
<1>3. ChannelTypes /\ \A q \in Client : Channel(q)
  BY DEF ChannelInv
<1>4. \A i \in DOMAIN toClient'[p] :
             i \in Nat /\ i + 0 \in DOMAIN toClient[p] /\ toClient'[p][i] = toClient[p][i + 0]
  BY <1>2, <1>3 DEF ChannelTypes
<1>5. /\ Channel(p)'
      /\ \A q \in Client : q # p =>
           /\ callbacks'[q] = callbacks[q] /\ listenersOf'[q] = listenersOf[q]
           /\ toBroker'[q] = toBroker[q]
      /\ status'[l] \in {"releasing", "over"}
      /\ \A k \in Listener : k # l => status'[k] = status[k]
      /\ listenersOf' \in [Client -> Int]
      /\ callbacks' \in [Client -> Seq(Listener)]
      /\ status' \in [Listener -> Status]
      /\ toBroker' \in [Client -> Seq(Packet)]
  BY <1>1, <1>2, <1>3, <1>4, LeaveKeeps DEF brokerVars
<1>6. ChannelTypes'
  BY <1>2, <1>3, <1>5 DEF ChannelTypes, brokerVars
<1>7. \A q \in Client : Channel(q)'
  <2> SUFFICES ASSUME NEW q \in Client, q # p PROVE Channel(q)'
    BY <1>5
  <2> QED
    BY <1>1, <1>2, <1>3, <1>5, OtherClient DEF brokerVars
<1>8. \A k \in Listener : Follows(k)'
  <2> SUFFICES ASSUME NEW k \in Listener PROVE Follows(k)'
    OBVIOUS
  <2>1. status'[k] = "subscribed" => status[k] = "subscribed"
    BY <1>5
  <2> QED
    BY <1>2, <2>1, NothingFollows DEF ChannelInv, brokerVars
<1>9. Once(subscriptions)'
  BY <1>2 DEF ChannelInv, Once, brokerVars
<1> QED
  BY <1>6, <1>7, <1>8, <1>9 DEF ChannelInv

\* A client takes a packet, and what follows from it for the messages of a listener.
LEMMA ArrivesShifts ==
    ASSUME ChannelTypes, NEW p \in Client, NEW type, Arrives(p, type)
    PROVE  /\ toClient[p] \in Seq(Packet) /\ toClient[p] # <<>>
           /\ 1 \in DOMAIN toClient[p] /\ Head(toClient[p]) = toClient[p][1]
           /\ Next1(p) = Head(toClient[p]) /\ Next1(p).type = type /\ Next1(p) \in Packet
           /\ toClient'[p] = Tail(toClient[p])
           /\ \A q \in Client : q # p => toClient'[q] = toClient[q]
           /\ toClient' \in [Client -> Seq(Packet)]
           /\ \A i \in DOMAIN toClient'[p] :
                i \in Nat /\ i + 1 \in DOMAIN toClient[p] /\ toClient'[p][i] = toClient[p][i + 1]
<1>1. /\ toClient[p] \in Seq(Packet) /\ toClient[p] # <<>> /\ Next1(p) = Head(toClient[p])
      /\ Next1(p).type = type
      /\ toClient' = [toClient EXCEPT ![p] = Tail(toClient[p])]
  BY DEF ChannelTypes, Arrives, Next1
<1>2. PICK way \in Seq(Packet) : way = toClient[p]
  BY <1>1
<1>3. /\ Tail(way) \in Seq(Packet) /\ Len(way) \in Nat /\ Len(way) >= 1
      /\ DOMAIN Tail(way) = 1 .. Len(way) - 1 /\ DOMAIN way = 1 .. Len(way)
      /\ \A i \in 1 .. Len(way) - 1 : Tail(way)[i] = way[i + 1]
      /\ Head(way) = way[1] /\ way[1] \in Packet
  BY <1>1, <1>2, Pulled
<1>4. toClient'[p] = Tail(way) /\ \A q \in Client : q # p => toClient'[q] = toClient[q]
  BY <1>1, <1>2 DEF ChannelTypes
<1>5. toClient' \in [Client -> Seq(Packet)]
  BY <1>1, <1>2, <1>3 DEF ChannelTypes
<1>6. \A i \in DOMAIN toClient'[p] :
        i \in Nat /\ i + 1 \in DOMAIN toClient[p] /\ toClient'[p][i] = toClient[p][i + 1]
  BY <1>2, <1>3, <1>4
<1> QED
  BY <1>1, <1>2, <1>3, <1>4, <1>5, <1>6


\* A packet is gone from the way to a client, whose other state is as it was: but for
\* the listener that it answers, if any.
LEMMA ShiftKeeps ==
    ASSUME ChannelTypes, NEW p \in Client, NEW type, Arrives(p, type), Channel(p), Channel(p)',
           listenersOf' \in [Client -> Int], callbacks' \in [Client -> Seq(Listener)],
           status' \in [Listener -> Status], toBroker' \in [Client -> Seq(Packet)],
           \A q \in Client : q # p =>
             /\ callbacks'[q] = callbacks[q] /\ listenersOf'[q] = listenersOf[q]
             /\ toBroker'[q] = toBroker[q],
           \A l \in Listener : ClientOf[l] # p => status'[l] = status[l],
           \A q \in Client : Channel(q), subscriptions' = subscriptions, breaks' = breaks
    PROVE  \A q \in Client : Channel(q)'
<1> SUFFICES ASSUME NEW q \in Client, q # p PROVE Channel(q)'
  OBVIOUS
<1>1. toClient'[q] = toClient[q]
  BY ArrivesShifts
<1> QED
  BY <1>1, OtherClient

\* The answer reaches its listener.
LEMMA ReceiveAckKeeps ==
    ASSUME ChannelInv, NEW p \in Client, receiveAck(p)
    PROVE  ChannelInv'
<1>1. PICK l : l = Next1(p).of
  OBVIOUS
<1>2. /\ Arrives(p, "Ack")
      /\ status' = [status EXCEPT ![l] = IF status[l] = "subscribing" THEN "subscribed" ELSE "over"]
      /\ joined' = [joined EXCEPT ![l] = IF status[l] = "subscribing" THEN published ELSE joined[l]]
      /\ UNCHANGED <<brokerVars, listenersOf, callbacks, received, overlooked, toBroker, breaks>>
  BY <1>1 DEF receiveAck
<1>3. ChannelTypes /\ \A q \in Client : Channel(q)
  BY DEF ChannelInv
<1>4. /\ toClient[p] \in Seq(Packet) /\ toClient[p] # <<>>
      /\ 1 \in DOMAIN toClient[p] /\ Head(toClient[p]) = toClient[p][1]
      /\ Next1(p) = Head(toClient[p]) /\ Next1(p).type = "Ack" /\ Next1(p) \in Packet
      /\ toClient'[p] = Tail(toClient[p])
      /\ \A q \in Client : q # p => toClient'[q] = toClient[q]
      /\ toClient' \in [Client -> Seq(Packet)]
      /\ \A i \in DOMAIN toClient'[p] :
           i \in Nat /\ i + 1 \in DOMAIN toClient[p] /\ toClient'[p][i] = toClient[p][i + 1]
  BY <1>2, <1>3, ArrivesShifts
<1>5. toClient[p][1].type = "Ack" /\ toClient[p][1].of = l
  BY <1>1, <1>4
<1>6. l \in Listener /\ ClientOf[l] = p /\ status[l] \in {"subscribing", "releasing"}
  BY <1>3, <1>4, <1>5, WhoWaits DEF Channel
<1>7. /\ status[l] = "subscribing" => status'[l] = "subscribed" /\ joined'[l] = published
      /\ status[l] = "releasing" => status'[l] = "over"
      /\ \A k \in Listener : k # l => status'[k] = status[k] /\ joined'[k] = joined[k]
      /\ subscriptions' = subscriptions /\ breaks' = breaks /\ published' = published
  BY <1>2, <1>3, <1>6 DEF ChannelTypes, brokerVars
<1>8. ChannelTypes'
  <2>1. status' \in [Listener -> Status]
    BY <1>2, <1>3 DEF ChannelTypes, Status
  <2>2. joined' \in [Listener -> 0 .. MaxMessages]
    BY <1>2, <1>3 DEF ChannelTypes
  <2> QED
    BY <1>2, <1>3, <1>4, <2>1, <2>2 DEF ChannelTypes, brokerVars
<1>9. Registered(p)'
  <2>1. \A k \in Items(callbacks[p]) : ClientOf[k] = p /\ status'[k] \notin {"new", "releasing"}
    <3> SUFFICES ASSUME NEW k \in Items(callbacks[p])
                 PROVE  ClientOf[k] = p /\ status'[k] \notin {"new", "releasing"}
      OBVIOUS
    <3>1. k \in Listener /\ ClientOf[k] = p /\ status[k] \notin {"new", "releasing"}
      BY <1>3, ItemsIn DEF ChannelTypes, Channel, Registered
    <3> QED
      BY <1>6, <1>7, <3>1
  <2>2. \A k \in Listener : ClientOf[k] = p /\ status'[k] \in {"subscribing", "subscribed", "early", "lost"}
          => k \in Items(callbacks[p])
    BY <1>3, <1>6, <1>7 DEF Channel, Registered
  <2> QED
    BY <1>2, <1>3, <2>1, <2>2 DEF Channel, Registered
<1>10. /\ \A i \in DOMAIN toBroker[p] : toBroker[p][i].of # l
       /\ \A i \in DOMAIN toClient'[p] : toClient'[p][i].type = "Ack" => toClient'[p][i].of # l
  <2>1. \A i \in DOMAIN toBroker[p] : toBroker[p][i].of # l
    BY <1>3, <1>4, <1>5 DEF Channel, Awaited
  <2>2. ASSUME NEW i \in DOMAIN toClient'[p], toClient'[p][i].type = "Ack" PROVE toClient'[p][i].of # l
    <3>1. i + 1 \in DOMAIN toClient[p] /\ i + 1 # 1 /\ toClient'[p][i] = toClient[p][i + 1]
      BY <1>4
    <3> QED
      BY <1>3, <1>4, <1>5, <2>2, <3>1 DEF Channel, Awaited
  <2> QED
    BY <2>1, <2>2
<1>11. \A i \in DOMAIN toClient'[p] : toClient'[p][i].type = "Ack" =>
         toClient'[p][i].of \in Listener /\ \E j \in DOMAIN toClient[p] : toClient'[p][i] = toClient[p][j]
  BY <1>3, <1>4, WhoWaits DEF Channel
<1>12. Awaited(p)'
  <2>1. \A i \in DOMAIN toBroker'[p] :
             i \in Nat /\ i + 0 \in DOMAIN toBroker[p] /\ toBroker'[p][i] = toBroker[p][i + 0]
    BY <1>2, <1>3 DEF ChannelTypes
  <2>2. \A i \in DOMAIN toBroker'[p] : status'[toBroker'[p][i].of] = status[toBroker'[p][i].of]
    BY <1>2, <1>3, <1>7, <1>10, WhoWaits DEF Channel
  <2>3. \A i \in DOMAIN toClient'[p] : toClient'[p][i].type = "Ack" =>
             status'[toClient'[p][i].of] = status[toClient'[p][i].of]
    BY <1>7, <1>10, <1>11
  <2> QED
    BY <1>3, <1>4, <2>1, <2>2, <2>3, AwaitedLess DEF Channel
<1>13. Requests(p)'
  BY <1>2, <1>3, <1>7 DEF Channel, Requests
<1>14. Agreed(p)'
  <2>1. toBroker'[p] = <<>> =>
       /\ p \in Items(subscriptions') => callbacks'[p] # <<>>
       /\ breaks' = 0 /\ callbacks'[p] # <<>> => p \in Items(subscriptions')
    BY <1>2, <1>3, <1>7 DEF Channel, Agreed
  <2>2. \A k \in Items(callbacks'[p]) : status'[k] \in {"lost", "over"} =>
       toBroker'[p] = <<>> /\ p \notin Items(subscriptions')
    <3> SUFFICES ASSUME NEW k \in Items(callbacks[p]), status'[k] \in {"lost", "over"}
                 PROVE  toBroker[p] = <<>> /\ p \notin Items(subscriptions)
      BY <1>2, <1>7
    <3>1. k \in Listener /\ status[k] # "releasing"
      BY <1>3, ItemsIn DEF ChannelTypes, Channel, Registered
    <3>2. k # l
      BY <1>6, <1>7, <3>1
    <3> QED
      BY <1>3, <1>7, <3>1, <3>2 DEF Channel, Agreed
  <2>3. \A k \in Listener : ClientOf[k] = p /\ status'[k] = "subscribed" => Settled(p)'
    <3>1. status[l] = "subscribing" => Settled(p)
      BY <1>3, <1>4, <1>5 DEF Channel, Agreed
    <3>2. \A k \in Listener : ClientOf[k] = p /\ status[k] = "subscribed" => Settled(p)
      BY <1>3 DEF Channel, Agreed
    <3>3. Settled(p) => Settled(p)'
      BY <1>2, <1>7 DEF Settled
    <3> QED
      BY <1>6, <1>7, <3>1, <3>2, <3>3
  <2>4. \A i \in DOMAIN toClient'[p] :
       toClient'[p][i].type = "Ack" /\ status'[toClient'[p][i].of] = "subscribing" => Settled(p)'
    <3> SUFFICES ASSUME NEW i \in DOMAIN toClient'[p], toClient'[p][i].type = "Ack",
                        status'[toClient'[p][i].of] = "subscribing"
                 PROVE  Settled(p)
      BY <1>2, <1>7 DEF Settled
    <3>1. PICK j \in DOMAIN toClient[p] : toClient'[p][i] = toClient[p][j]
      BY <1>11
    <3>2. status[toClient[p][j].of] = "subscribing"
      BY <1>7, <1>10, <1>11, <3>1
    <3> QED
      BY <1>3, <3>1, <3>2 DEF Channel, Agreed
  <2> QED
    BY <2>1, <2>2, <2>3, <2>4 DEF Agreed
<1>15. \A q \in Client : Channel(q)'
  <2>1. Channel(p)'
    BY <1>9, <1>12, <1>13, <1>14 DEF Channel
  <2>2. \A k \in Listener : ClientOf[k] # p => status'[k] = status[k]
    BY <1>6, <1>7
  <2> QED
    BY <1>2, <1>3, <1>7, <1>8, <2>1, <2>2, ShiftKeeps DEF ChannelTypes
<1>16. \A k \in Listener : Follows(k)'
  <2> SUFFICES ASSUME NEW k \in Listener PROVE Follows(k)'
    OBVIOUS
  <2>1. Follows(k) /\ received'[k] = received[k] /\ overlooked' = overlooked
    BY <1>2 DEF ChannelInv
  <2>2. CASE ClientOf[k] # p
    <3>1. toClient'[ClientOf[k]] = toClient[ClientOf[k]] /\ k # l
      BY <1>4, <1>6, <2>2, BrokerBusAssumption
    <3> QED
      BY <1>7, <2>1, <3>1, NothingFollows
  <2>3. CASE ClientOf[k] = p
    <3>1. /\ received[k] \in Seq(Nat) /\ published \in Nat
      BY <1>3, BrokerBusAssumption DEF ChannelTypes
    <3>2. PICK seq \in Seq(Nat), way \in Seq(Packet), upto \in Nat :
             seq = received[k] /\ way = toClient[p] /\ upto = published
      BY <1>4, <3>1
    <3>3. Flows(seq, way, upto) /\ way # <<>> /\ Head(way).type # "Message"
      BY <1>4, <2>1, <2>3, <3>2 DEF Follows
    <3>4. Flows(seq, Tail(way), upto) /\ \A n : Has(seq, way, n) => Has(seq, Tail(way), n)
      BY <3>3, Taken
    <3>5. toClient'[p] = Tail(way)
      BY <1>4, <3>2
    <3>6. CASE k = l
      <4>1. status'[k] = "subscribed" => joined'[k] = published
        BY <1>6, <1>7, <3>6
      <4>2. status'[k] = "subscribed" => \A n : n \notin joined'[k] + 1 .. published'
        BY <1>7, <3>1, <4>1
      <4> QED
        BY <1>7, <2>1, <2>3, <3>2, <3>4, <3>5, <4>2 DEF Follows
    <3>7. CASE k # l
      BY <1>7, <2>1, <2>3, <3>2, <3>4, <3>5, <3>7 DEF Follows
    <3> QED
      BY <3>6, <3>7
  <2> QED
    BY <2>2, <2>3
<1>17. Once(subscriptions)'
  BY <1>7 DEF ChannelInv, Once
<1> QED
  BY <1>8, <1>15, <1>16, <1>17 DEF ChannelInv


\* A message comes for a client and is given to some of its callbacks.
LEMMA MessageFollows ==
    ASSUME ChannelTypes, NEW p \in Client, Channel(p), Arrives(p, "Message"),
           NEW given \in SUBSET Items(callbacks[p]),
           received' = [k \in Listener |-> IF k \in given
                                           THEN Append(received[k], Next1(p).n) ELSE received[k]],
           published' = published, joined' = joined
    PROVE  /\ received' \in [Listener -> Seq(1 .. MaxMessages)]
           /\ \A k \in Listener :
                /\ Follows(k)
                /\ status'[k] = "subscribed" /\ k \notin overlooked' =>
                     /\ status[k] = "subscribed" /\ k \notin overlooked
                     /\ ClientOf[k] = p => k \in given
                => Follows(k)'
<1>1. /\ toClient[p] \in Seq(Packet) /\ toClient[p] # <<>>
      /\ Next1(p) = Head(toClient[p]) /\ Next1(p).type = "Message" /\ Next1(p) \in Packet
      /\ toClient'[p] = Tail(toClient[p])
      /\ \A q \in Client : q # p => toClient'[q] = toClient[q]
  BY ArrivesShifts
<1>2. PICK n : n = Next1(p).n
  OBVIOUS
<1>3. n \in 1 .. MaxMessages
  BY <1>1, <1>2 DEF Packet
<1>4. received' = [k \in Listener |-> IF k \in given THEN Append(received[k], n) ELSE received[k]]
  BY <1>2
<1>5. received' \in [Listener -> Seq(1 .. MaxMessages)]
  <2>1. ASSUME NEW k \in Listener PROVE received'[k] \in Seq(1 .. MaxMessages)
    <3>1. received[k] \in Seq(1 .. MaxMessages)
      BY DEF ChannelTypes
    <3>2. Append(received[k], n) \in Seq(1 .. MaxMessages)
      BY <1>3, <3>1
    <3> QED
      BY <1>4, <3>1, <3>2
  <2> QED
    BY <1>4, <2>1
<1>6. ASSUME NEW k \in Listener, Follows(k),
             status'[k] = "subscribed" /\ k \notin overlooked' =>
               /\ status[k] = "subscribed" /\ k \notin overlooked
               /\ ClientOf[k] = p => k \in given
      PROVE  Follows(k)'
  <2>1. CASE ClientOf[k] # p
    <3>1. k \notin given
      BY <2>1 DEF Channel, Registered
    <3>2. toClient'[ClientOf[k]] = toClient[ClientOf[k]] /\ received'[k] = received[k]
      BY <1>1, <1>4, <2>1, <3>1, BrokerBusAssumption
    <3> QED
      BY <1>6, <3>2, NothingFollows
  <2>2. CASE ClientOf[k] = p
    <3>1. received[k] \in Seq(Nat) /\ published \in Nat
      BY BrokerBusAssumption DEF ChannelTypes
    <3>2. PICK seq \in Seq(Nat), way \in Seq(Packet), upto \in Nat :
             seq = received[k] /\ way = toClient[p] /\ upto = published
      BY <1>1, <3>1
    <3>3. Flows(seq, way, upto) /\ way # <<>> /\ Head(way).type = "Message" /\ Head(way).n = n
      BY <1>1, <1>2, <1>6, <2>2, <3>2 DEF Follows
    <3>4. /\ Flows(seq, Tail(way), upto)
          /\ Flows(Append(seq, n), Tail(way), upto)
          /\ \A m : Has(seq, way, m) => Has(Append(seq, n), Tail(way), m)
      BY <3>3, Taken
    <3>5. toClient'[p] = Tail(way)
      BY <1>1, <3>2
    <3>6. CASE k \in given
      <4>1. received'[k] = Append(seq, n)
        BY <1>4, <3>2, <3>6
      <4> QED
        BY <1>6, <2>2, <3>2, <3>4, <3>5, <4>1 DEF Follows
    <3>7. CASE k \notin given
      <4>1. received'[k] = seq
        BY <1>4, <3>2, <3>7
      <4> QED
        BY <1>6, <2>2, <3>2, <3>4, <3>5, <3>7, <4>1 DEF Follows
    <3> QED
      BY <3>6, <3>7
  <2> QED
    BY <2>1, <2>2
<1> QED
  BY <1>5, <1>6

\* A message reaches the listeners of a client.
LEMMA ReceiveMessageKeeps ==
    ASSUME ChannelInv, NEW p \in Client, receiveMessage(p)
    PROVE  ChannelInv'
<1>1. /\ Arrives(p, "Message")
      /\ received' = [k \in Listener |-> IF k \in Items(callbacks[p])
                                         THEN Append(received[k], Next1(p).n) ELSE received[k]]
      /\ UNCHANGED <<brokerVars, listenersOf, callbacks, status, joined, overlooked, toBroker, breaks>>
  BY DEF receiveMessage
<1>2. ChannelTypes /\ \A q \in Client : Channel(q)
  BY DEF ChannelInv
<1>3. /\ toClient' \in [Client -> Seq(Packet)]
      /\ \A i \in DOMAIN toClient'[p] :
           i \in Nat /\ i + 1 \in DOMAIN toClient[p] /\ toClient'[p][i] = toClient[p][i + 1]
  BY <1>1, <1>2, ArrivesShifts
<1>4. /\ received' \in [Listener -> Seq(1 .. MaxMessages)]
      /\ \A k \in Listener :
           /\ Follows(k)
           /\ status'[k] = "subscribed" /\ k \notin overlooked' =>
                /\ status[k] = "subscribed" /\ k \notin overlooked
                /\ ClientOf[k] = p => k \in Items(callbacks[p])
           => Follows(k)'
  BY <1>1, <1>2, MessageFollows DEF brokerVars
<1>5. ChannelTypes'
  BY <1>1, <1>2, <1>3, <1>4 DEF ChannelTypes, brokerVars
<1>6. Registered(p)' /\ Requests(p)'
  BY <1>1, <1>2 DEF Channel, Registered, Requests, brokerVars
<1>7. Awaited(p)'
  <2>1. \A i \in DOMAIN toBroker'[p] :
             i \in Nat /\ i + 0 \in DOMAIN toBroker[p] /\ toBroker'[p][i] = toBroker[p][i + 0]
    BY <1>1, <1>2 DEF ChannelTypes
  <2> QED
    BY <1>1, <1>2, <1>3, <2>1, AwaitedLess DEF Channel
<1>8. Agreed(p)'
  <2>1. \A i \in DOMAIN toClient'[p] : \E j \in DOMAIN toClient[p] : toClient'[p][i] = toClient[p][j]
    BY <1>3
  <2> QED
    BY <1>1, <1>2, <2>1 DEF Channel, Agreed, Settled, brokerVars
<1>9. \A q \in Client : Channel(q)'
  BY <1>1, <1>2, <1>5, <1>6, <1>7, <1>8, ShiftKeeps DEF Channel, ChannelTypes, brokerVars
<1>10. \A k \in Listener : Follows(k)'
  BY <1>1, <1>2, <1>4 DEF ChannelInv, Channel, Registered
<1>11. Once(subscriptions)'
  BY <1>1 DEF ChannelInv, Once, brokerVars
<1> QED
  BY <1>5, <1>9, <1>10, <1>11 DEF ChannelInv

\* ... one of which releases itself while the others are still called.
LEMMA ReceiveAndReleaseKeeps ==
    ASSUME ChannelInv, NEW p \in Client, NEW i \in DOMAIN callbacks[p], receiveAndRelease(p, i)
    PROVE  ChannelInv'
<1>1. ChannelTypes /\ \A q \in Client : Channel(q)
  BY DEF ChannelInv
<1>2. PICK l : l = callbacks[p][i]
  OBVIOUS
<1>3. PICK over : over = { callbacks[p][j] : j \in {i + 1} \cap DOMAIN callbacks[p] }
  OBVIOUS
<1>4. /\ Released(l) /\ Arrives(p, "Message") /\ Leave(l)
      /\ received' = [k \in Listener |-> IF k \in Items(callbacks[p]) \ over
                                         THEN Append(received[k], Next1(p).n) ELSE received[k]]
      /\ overlooked' = overlooked \cup over
      /\ UNCHANGED <<brokerVars, joined, breaks>>
  BY <1>2, <1>3 DEF receiveAndRelease
<1>5. l \in Listener /\ l \in Items(callbacks[p]) /\ over \subseteq Listener /\ ClientOf[l] = p
  <2>1. PICK seq \in Seq(Listener) : seq = callbacks[p]
    BY <1>1 DEF ChannelTypes
  <2>2. \A j \in DOMAIN seq : seq[j] \in Listener
    BY <2>1
  <2>3. l \in Listener /\ l \in Items(callbacks[p])
    BY <1>2, <2>1, <2>2 DEF Items
  <2>4. over \subseteq Listener
    BY <1>3, <2>1, <2>2
  <2>5. Registered(p)
    BY <1>1 DEF Channel
  <2> QED
    BY <2>3, <2>4, <2>5 DEF Registered
<1>6. /\ toClient' \in [Client -> Seq(Packet)]
      /\ \A j \in DOMAIN toClient'[p] :
           j \in Nat /\ j + 1 \in DOMAIN toClient[p] /\ toClient'[p][j] = toClient[p][j + 1]
  BY <1>1, <1>4, ArrivesShifts
<1>7. /\ Channel(p)'
      /\ \A q \in Client : q # p =>
           /\ callbacks'[q] = callbacks[q] /\ listenersOf'[q] = listenersOf[q]
           /\ toBroker'[q] = toBroker[q]
      /\ status'[l] \in {"releasing", "over"}
      /\ \A k \in Listener : k # l => status'[k] = status[k]
      /\ listenersOf' \in [Client -> Int]
      /\ callbacks' \in [Client -> Seq(Listener)]
      /\ status' \in [Listener -> Status]
      /\ toBroker' \in [Client -> Seq(Packet)]
  BY <1>1, <1>4, <1>5, <1>6, LeaveKeeps DEF brokerVars
<1>8. /\ received' \in [Listener -> Seq(1 .. MaxMessages)]
      /\ \A k \in Listener :
           /\ Follows(k)
           /\ status'[k] = "subscribed" /\ k \notin overlooked' =>
                /\ status[k] = "subscribed" /\ k \notin overlooked
                /\ ClientOf[k] = p => k \in Items(callbacks[p]) \ over
           => Follows(k)'
  BY <1>1, <1>4, MessageFollows DEF brokerVars
<1>9. ChannelTypes'
  BY <1>1, <1>4, <1>5, <1>6, <1>7, <1>8 DEF ChannelTypes, brokerVars
<1>10. \A q \in Client : Channel(q)'
  <2>1. \A k \in Listener : ClientOf[k] # p => status'[k] = status[k]
    BY <1>5, <1>7
  <2> QED
    BY <1>1, <1>4, <1>7, <2>1, ShiftKeeps DEF brokerVars
<1>11. \A k \in Listener : Follows(k)'
  <2>1. \A k \in Listener : status[k] = "subscribed" /\ ClientOf[k] = p => k \in Items(callbacks[p])
    BY <1>1 DEF Channel, Registered
  <2>2. \A k \in Listener : status'[k] = "subscribed" => status[k] = "subscribed"
    BY <1>7
  <2> QED
    BY <1>4, <1>8, <2>1, <2>2 DEF ChannelInv
<1>12. Once(subscriptions)'
  BY <1>4 DEF ChannelInv, Once, brokerVars
<1> QED
  BY <1>9, <1>10, <1>11, <1>12 DEF ChannelInv


\* The broker takes a request and answers it.
LEMMA HandlesFacts ==
    ASSUME ChannelInv, NEW p \in Client, NEW type \in {"Subscribe", "Unsubscribe"}, Handles(p, type),
           UNCHANGED <<published, clientVars, breaks>>
    PROVE  /\ Registered(p)' /\ Awaited(p)'
           /\ toBroker' \in [Client -> Seq(Packet)] /\ toClient' \in [Client -> Seq(Packet)]
           /\ \A q \in Client : q # p => toBroker'[q] = toBroker[q] /\ toClient'[q] = toClient[q]
           /\ 1 \in DOMAIN toBroker[p] /\ toBroker[p][1].type = type
           /\ toBroker[p] # <<>> /\ toBroker[p] \in Seq(Packet)
           /\ Len(toBroker'[p]) = Len(toBroker[p]) - 1
           /\ \A i \in DOMAIN toBroker'[p] :
                i \in Nat /\ i + 1 \in DOMAIN toBroker[p] /\ toBroker'[p][i] = toBroker[p][i + 1]
           /\ \A i \in DOMAIN toClient'[p] :
                \/ i \in DOMAIN toClient[p] /\ toClient'[p][i] = toClient[p][i]
                \/ toClient'[p][i].of = toBroker[p][1].of
           /\ \A l \in Listener : Follows(l)'
<1>1. ChannelTypes /\ Channel(p)
  BY DEF ChannelInv
<1>2. PICK l : l = Head(toBroker[p]).of
  OBVIOUS
<1>3. /\ toBroker[p] # <<>> /\ Head(toBroker[p]).type = type
      /\ toBroker' = [toBroker EXCEPT ![p] = Tail(toBroker[p])]
      /\ toClient' = [toClient EXCEPT ![p] = Append(toClient[p], [type |-> "Ack", of |-> l])]
  BY <1>2 DEF Handles
<1>4. PICK way \in Seq(Packet) : way = toBroker[p]
  BY <1>1 DEF ChannelTypes
<1>5. /\ Tail(way) \in Seq(Packet) /\ Len(way) \in Nat /\ Len(way) >= 1
      /\ Len(Tail(way)) = Len(way) - 1
      /\ DOMAIN Tail(way) = 1 .. Len(way) - 1 /\ DOMAIN way = 1 .. Len(way)
      /\ \A i \in 1 .. Len(way) - 1 : Tail(way)[i] = way[i + 1]
      /\ Head(way) = way[1] /\ way[1] \in Packet
  BY <1>3, <1>4, Pulled
<1>6. /\ 1 \in DOMAIN way /\ way[1].type = type /\ way[1].of = l
  BY <1>2, <1>3, <1>4, <1>5
<1>7. /\ l \in Listener /\ ClientOf[l] = p /\ status[l] \in {"subscribing", "releasing"}
  BY <1>1, <1>4, <1>6, WhoWaits DEF Channel
<1>8. PICK ack \in Packet : ack = [type |-> "Ack", of |-> l] /\ ack.type = "Ack" /\ ack.of = l
  BY <1>7, RequestIs
<1>9. PICK back \in Seq(Packet) : back = toClient[p]
  BY <1>1 DEF ChannelTypes
<1>10. /\ Append(back, ack) \in Seq(Packet)
       /\ DOMAIN Append(back, ack) = 1 .. Len(back) + 1 /\ DOMAIN back = 1 .. Len(back) /\ Len(back) \in Nat
       /\ \A i \in 1 .. Len(back) : Append(back, ack)[i] = back[i]
       /\ Append(back, ack)[Len(back) + 1] = ack
  BY Pushed
<1>11. /\ toBroker'[p] = Tail(way) /\ toClient'[p] = Append(back, ack)
       /\ \A q \in Client : q # p => toBroker'[q] = toBroker[q] /\ toClient'[q] = toClient[q]
       /\ toBroker' \in [Client -> Seq(Packet)] /\ toClient' \in [Client -> Seq(Packet)]
  <2>1. /\ toBroker' = [toBroker EXCEPT ![p] = Tail(way)]
        /\ toClient' = [toClient EXCEPT ![p] = Append(back, ack)]
    BY <1>3, <1>4, <1>8, <1>9
  <2> QED
    BY <1>1, <1>5, <1>10, <2>1 DEF ChannelTypes
<1>12. Registered(p)'
  BY <1>1 DEF Channel, Registered, clientVars
<1>13. status' = status
  BY DEF clientVars
<1>14. \A i \in 1 .. Len(way) - 1 : way[i + 1].of # l
  <2> SUFFICES ASSUME NEW i \in 1 .. Len(way) - 1, way[i + 1].of = l PROVE FALSE
    OBVIOUS
  <2>1. i + 1 \in DOMAIN way /\ 1 \in DOMAIN way /\ i + 1 # 1
    BY <1>5
  <2> QED
    BY <1>1, <1>4, <1>6, <2>1 DEF Channel, Awaited
<1>15. \A i \in DOMAIN back : back[i].type = "Ack" => back[i].of # l
  BY <1>1, <1>4, <1>6, <1>9 DEF Channel, Awaited
<1>16. \A i \in DOMAIN toBroker'[p] :
         i \in Nat /\ i + 1 \in DOMAIN toBroker[p] /\ toBroker'[p][i] = toBroker[p][i + 1]
  BY <1>4, <1>5, <1>11
<1>17. Awaited(p)'
  <2>1. \A i \in DOMAIN toBroker'[p] :
       /\ IsRequest(toBroker'[p][i])
       /\ ClientOf[toBroker'[p][i].of] = p
       /\ status'[toBroker'[p][i].of] =
            IF toBroker'[p][i].type = "Subscribe" THEN "subscribing" ELSE "releasing"
    BY <1>1, <1>13, <1>16 DEF Channel, Awaited
  <2>2. \A i \in DOMAIN toClient'[p] :
       /\ toClient'[p][i].type \in {"Ack", "Message"}
       /\ toClient'[p][i].type = "Ack" =>
            /\ ClientOf[toClient'[p][i].of] = p
            /\ status'[toClient'[p][i].of] \in {"subscribing", "releasing"}
    <3> SUFFICES ASSUME NEW i \in 1 .. Len(back) + 1
                 PROVE  LET a == Append(back, ack)[i]
                        IN  /\ a.type \in {"Ack", "Message"}
                            /\ a.type = "Ack" =>
                                 ClientOf[a.of] = p /\ status[a.of] \in {"subscribing", "releasing"}
      BY <1>10, <1>11, <1>13
    <3>1. CASE i = Len(back) + 1
      BY <1>7, <1>8, <1>10, <3>1
    <3>2. CASE i # Len(back) + 1
      <4>1. i \in DOMAIN back /\ Append(back, ack)[i] = back[i]
        BY <1>10, <3>2
      <4> QED
        BY <1>1, <1>9, <4>1 DEF Channel, Awaited
    <3> QED
      BY <3>1, <3>2
  <2>3. \A i, j \in DOMAIN toBroker'[p] : toBroker'[p][i].of = toBroker'[p][j].of => i = j
    <3> SUFFICES ASSUME NEW i \in DOMAIN toBroker'[p], NEW j \in DOMAIN toBroker'[p],
                        toBroker'[p][i].of = toBroker'[p][j].of
                 PROVE  i = j
      OBVIOUS
    <3>1. i + 1 = j + 1
      BY <1>1, <1>16 DEF Channel, Awaited
    <3> QED
      BY <1>16, <3>1
  <2>4. \A i, j \in DOMAIN toClient'[p] :
       toClient'[p][i].type = "Ack" /\ toClient'[p][j].type = "Ack" /\ toClient'[p][i].of = toClient'[p][j].of
         => i = j
    <3> SUFFICES ASSUME NEW i \in 1 .. Len(back) + 1, NEW j \in 1 .. Len(back) + 1,
                        Append(back, ack)[i].type = "Ack", Append(back, ack)[j].type = "Ack",
                        Append(back, ack)[i].of = Append(back, ack)[j].of
                 PROVE  i = j
      BY <1>10, <1>11
    <3>1. i = Len(back) + 1 <=> j = Len(back) + 1
      BY <1>8, <1>10, <1>15
    <3>2. CASE i # Len(back) + 1
      <4>1. /\ i \in DOMAIN back /\ Append(back, ack)[i] = back[i]
            /\ j \in DOMAIN back /\ Append(back, ack)[j] = back[j]
        BY <1>10, <3>1, <3>2
      <4> QED
        BY <1>1, <1>9, <4>1 DEF Channel, Awaited
    <3> QED
      BY <3>1, <3>2
  <2>5. \A i \in DOMAIN toBroker'[p], j \in DOMAIN toClient'[p] :
       toClient'[p][j].type = "Ack" => toBroker'[p][i].of # toClient'[p][j].of
    <3> SUFFICES ASSUME NEW i \in 1 .. Len(way) - 1, NEW j \in 1 .. Len(back) + 1,
                        Append(back, ack)[j].type = "Ack"
                 PROVE  way[i + 1].of # Append(back, ack)[j].of
      BY <1>5, <1>10, <1>11
    <3>1. CASE j = Len(back) + 1
      BY <1>8, <1>10, <1>14, <3>1
    <3>2. CASE j # Len(back) + 1
      <4>1. j \in DOMAIN back /\ Append(back, ack)[j] = back[j] /\ i + 1 \in DOMAIN way
        BY <1>5, <1>10, <3>2
      <4> QED
        BY <1>1, <1>4, <1>9, <4>1 DEF Channel, Awaited
    <3> QED
      BY <3>1, <3>2
  <2> QED
    BY <2>1, <2>2, <2>3, <2>4, <2>5 DEF Awaited
<1>18. \A i \in DOMAIN toClient'[p] :
         \/ i \in DOMAIN toClient[p] /\ toClient'[p][i] = toClient[p][i]
         \/ toClient'[p][i].of = toBroker[p][1].of
  <2> SUFFICES ASSUME NEW i \in 1 .. Len(back) + 1
               PROVE  \/ i \in DOMAIN back /\ Append(back, ack)[i] = back[i]
                      \/ Append(back, ack)[i].of = l
    BY <1>4, <1>6, <1>9, <1>10, <1>11
  <2>1. CASE i = Len(back) + 1
    BY <1>8, <1>10, <2>1
  <2>2. CASE i # Len(back) + 1
    BY <1>10, <2>2
  <2> QED
    BY <2>1, <2>2
<1>19. \A k \in Listener : Follows(k)'
  <2> SUFFICES ASSUME NEW k \in Listener PROVE Follows(k)'
    OBVIOUS
  <2>1. /\ Follows(k) /\ received' = received /\ overlooked' = overlooked /\ joined' = joined
        /\ published' = published
    BY DEF clientVars, ChannelInv
  <2>2. CASE ClientOf[k] # p
    <3>1. toClient'[ClientOf[k]] = toClient[ClientOf[k]]
      BY <1>11, <2>2, BrokerBusAssumption
    <3> QED
      BY <1>13, <2>1, <3>1, NothingFollows
  <2>3. CASE ClientOf[k] = p
    <3>1. received[k] \in Seq(Nat) /\ published \in Nat
      BY <1>1, BrokerBusAssumption DEF ChannelTypes
    <3>2. PICK seq \in Seq(Nat), upto \in Nat : seq = received[k] /\ upto = published
      BY <3>1
    <3>3. Flows(seq, back, upto)
      BY <1>9, <2>1, <2>3, <3>2 DEF Follows
    <3>4. Flows(seq, Append(back, ack), upto) /\ \A n : Has(seq, back, n) => Has(seq, Append(back, ack), n)
      BY <1>8, <3>3, AckSent
    <3> QED
      BY <1>9, <1>11, <1>13, <2>1, <2>3, <3>2, <3>4 DEF Follows
  <2> QED
    BY <2>2, <2>3
<1> QED
  BY <1>3, <1>4, <1>5, <1>6, <1>11, <1>12, <1>16, <1>17, <1>18, <1>19

\* What is left to show when the broker has handled a request.
LEMMA HandledKeeps ==
    ASSUME ChannelInv, NEW p \in Client, NEW type \in {"Subscribe", "Unsubscribe"}, Handles(p, type),
           UNCHANGED <<published, clientVars, breaks>>,
           subscriptions' \in Seq(Client), Once(subscriptions)',
           \A q \in Client : q # p => (q \in Items(subscriptions)' <=> q \in Items(subscriptions)),
           Requests(p)', Agreed(p)'
    PROVE  ChannelInv'
<1>1. /\ Registered(p)' /\ Awaited(p)'
      /\ toBroker' \in [Client -> Seq(Packet)] /\ toClient' \in [Client -> Seq(Packet)]
      /\ \A q \in Client : q # p => toBroker'[q] = toBroker[q] /\ toClient'[q] = toClient[q]
      /\ \A l \in Listener : Follows(l)'
  BY HandlesFacts
<1>2. ChannelTypes'
  BY <1>1 DEF ChannelInv, ChannelTypes, clientVars
<1>3. \A q \in Client : Channel(q)'
  <2> SUFFICES ASSUME NEW q \in Client, q # p PROVE Channel(q)'
    BY <1>1 DEF Channel
  <2>1. /\ ChannelTypes /\ Channel(q)
        /\ callbacks' = callbacks /\ listenersOf' = listenersOf /\ status' = status
    BY DEF ChannelInv, clientVars
  <2> QED
    BY <1>1, <2>1, OtherClient
<1> QED
  BY <1>1, <1>2, <1>3 DEF ChannelInv

\* The broker lists the client and answers.
LEMMA HandleSubscribeKeeps ==
    ASSUME ChannelInv, NEW p \in Client, handleSubscribe(p)
    PROVE  ChannelInv'
<1>1. /\ Handles(p, "Subscribe") /\ UNCHANGED <<published, clientVars, breaks>>
      /\ subscriptions' = Append(subscriptions, p)
  BY DEF handleSubscribe, clientVars
<1>2. /\ 1 \in DOMAIN toBroker[p] /\ toBroker[p][1].type = "Subscribe"
      /\ toBroker[p] # <<>> /\ toBroker[p] \in Seq(Packet)
      /\ Len(toBroker'[p]) = Len(toBroker[p]) - 1
      /\ toBroker' \in [Client -> Seq(Packet)]
  BY <1>1, HandlesFacts
<1>3. ChannelTypes /\ Channel(p) /\ Once(subscriptions) /\ subscriptions \in Seq(Client)
  BY DEF ChannelInv, ChannelTypes
<1>4. Len(toBroker[p]) = 1 /\ p \notin Items(subscriptions)
  BY <1>2, <1>3 DEF Channel, Requests
<1>5. /\ subscriptions' \in Seq(Client) /\ Once(subscriptions)'
      /\ Items(subscriptions') = Items(subscriptions) \cup {p}
  BY <1>1, <1>3, <1>4, PushItem DEF Once
<1>6. toBroker'[p] = <<>>
  BY <1>2, <1>4
<1>7. Requests(p)'
  BY <1>6 DEF Requests
<1>8. callbacks' = callbacks /\ status' = status
  BY <1>1 DEF clientVars
<1>9. callbacks[p] # <<>>
  <2>1. /\ toBroker[p][1].of \in Listener /\ ClientOf[toBroker[p][1].of] = p
        /\ status[toBroker[p][1].of] = "subscribing"
    BY <1>2, <1>3, WhoWaits DEF Channel, Awaited
  <2> QED
    BY <1>3, <2>1 DEF Channel, Registered, Items
<1>10. Agreed(p)'
  <2>1. Settled(p)'
    BY <1>5, <1>6 DEF Settled
  <2>2. \A l \in Items(callbacks[p]) : status[l] \notin {"lost", "over"}
    BY <1>2, <1>3 DEF Channel, Agreed
  <2> QED
    BY <1>8, <1>9, <2>1, <2>2 DEF Agreed, Settled
<1> QED
  BY <1>1, <1>5, <1>7, <1>10, HandledKeeps

\* The broker takes the client from its list and answers.
LEMMA HandleUnsubscribeKeeps ==
    ASSUME ChannelInv, NEW p \in Client, handleUnsubscribe(p)
    PROVE  ChannelInv'
<1>1. /\ Handles(p, "Unsubscribe") /\ UNCHANGED <<published, clientVars, breaks>>
      /\ subscriptions' = arrayRemoveItem(subscriptions, p)
  BY DEF handleUnsubscribe, clientVars
<1>2. /\ 1 \in DOMAIN toBroker[p] /\ toBroker[p][1].type = "Unsubscribe"
      /\ toBroker[p] # <<>> /\ toBroker[p] \in Seq(Packet)
      /\ Len(toBroker'[p]) = Len(toBroker[p]) - 1
      /\ toBroker' \in [Client -> Seq(Packet)]
      /\ \A i \in DOMAIN toBroker'[p] :
           i \in Nat /\ i + 1 \in DOMAIN toBroker[p] /\ toBroker'[p][i] = toBroker[p][i + 1]
      /\ \A i \in DOMAIN toClient'[p] :
           \/ i \in DOMAIN toClient[p] /\ toClient'[p][i] = toClient[p][i]
           \/ toClient'[p][i].of = toBroker[p][1].of
  BY <1>1, HandlesFacts
<1>3. ChannelTypes /\ Channel(p) /\ Once(subscriptions) /\ subscriptions \in Seq(Client)
  BY DEF ChannelInv, ChannelTypes
<1>4. /\ subscriptions' \in Seq(Client) /\ Once(subscriptions')
      /\ Items(subscriptions') = Items(subscriptions) \ {p}
  BY <1>1, <1>3, RemoveItem
<1>5. Requests(p)'
  <2> SUFFICES ASSUME NEW i \in DOMAIN toBroker'[p]
               PROVE  /\ toBroker'[p][i].type = "Subscribe" => i = Len(toBroker'[p])
                      /\ toBroker'[p][i].type # "Unsubscribe"
    BY <1>4 DEF Requests
  <2>1. i \in Nat /\ i + 1 \in DOMAIN toBroker[p] /\ toBroker'[p][i] = toBroker[p][i + 1] /\ i # 0
    <3>1. i # 0
      BY <1>2
    <3> QED
      BY <1>2, <3>1
  <2>2. Len(toBroker[p]) \in Nat
    BY <1>2
  <2> QED
    BY <1>2, <1>3, <2>1, <2>2 DEF Channel, Requests
<1>6. callbacks' = callbacks /\ status' = status
  BY <1>1 DEF clientVars
<1>7. Agreed(p)'
  <2>1. toBroker'[p] = <<>> => callbacks[p] = <<>>
    <3>1. toBroker'[p] = <<>> => Len(toBroker[p]) = 1
      BY <1>2
    <3> QED
      BY <1>2, <1>3, <3>1 DEF Channel, Requests
  <2>2. /\ \A l \in Items(callbacks[p]) : status[l] \notin {"lost", "over"}
        /\ \A l \in Listener : ClientOf[l] = p => status[l] # "subscribed"
        /\ \A i \in DOMAIN toClient[p] :
             toClient[p][i].type = "Ack" => status[toClient[p][i].of] # "subscribing"
    BY <1>2, <1>3 DEF Channel, Agreed, Settled
  <2>3. status[toBroker[p][1].of] = "releasing"
    BY <1>2, <1>3 DEF Channel, Awaited
  <2>4. \A i \in DOMAIN toClient'[p] :
             toClient'[p][i].type = "Ack" => status[toClient'[p][i].of] # "subscribing"
    BY <1>2, <2>2, <2>3
  <2> QED
    BY <1>4, <1>6, <2>1, <2>2, <2>4 DEF Agreed
<1> QED
  BY <1>1, <1>4, <1>5, <1>7, HandledKeeps DEF Once


\* What has come or comes is not later for a later bound.
LEMMA FlowsOn ==
    ASSUME NEW seq \in Seq(Nat), NEW way \in Seq(Packet), NEW upto \in Nat, Flows(seq, way, upto)
    PROVE  Flows(seq, way, upto + 1)
<1>1. \A i \in DOMAIN seq : seq[i] \in Nat
  OBVIOUS
<1>2. \A i \in Messages(way) : way[i].n \in Nat
  <2> SUFFICES ASSUME NEW i \in Messages(way) PROVE way[i].n \in Nat
    OBVIOUS
  <2>1. way[i] \in Packet /\ way[i].type = "Message"
    BY DEF Messages
  <2> QED
    BY <2>1, BrokerBusAssumption DEF Packet
<1> QED
  BY <1>1, <1>2 DEF Flows

\* The broker sends a message to those on its list.
LEMMA PublishKeeps ==
    ASSUME ChannelInv, handlePublish
    PROVE  ChannelInv'
<1>1. PICK packet : packet = [type |-> "Message", n |-> published + 1]
  OBVIOUS
<1>2. /\ published < MaxMessages /\ published' = published + 1
      /\ toClient' = [p \in Client |-> IF p \in Items(subscriptions)
                                       THEN Append(toClient[p], packet) ELSE toClient[p]]
      /\ UNCHANGED <<subscriptions, clientVars, toBroker, breaks>>
  BY <1>1 DEF handlePublish, Subscribers
<1>3. ChannelTypes /\ \A q \in Client : Channel(q)
  BY DEF ChannelInv
<1>4. published \in Nat /\ published + 1 \in 1 .. MaxMessages
  BY <1>2, <1>3, BrokerBusAssumption DEF ChannelTypes
<1>5. packet \in Packet /\ packet.type = "Message" /\ packet.n = published + 1
  BY <1>1, <1>4 DEF Packet
<1>6. ASSUME NEW p \in Client, p \in Items(subscriptions)
      PROVE  /\ toClient'[p] = Append(toClient[p], packet) /\ toClient'[p] \in Seq(Packet)
             /\ DOMAIN toClient'[p] = 1 .. Len(toClient[p]) + 1 /\ DOMAIN toClient[p] = 1 .. Len(toClient[p])
             /\ Len(toClient[p]) \in Nat
             /\ \A i \in 1 .. Len(toClient[p]) : toClient'[p][i] = toClient[p][i]
             /\ toClient'[p][Len(toClient[p]) + 1] = packet
  <2>1. PICK way \in Seq(Packet) : way = toClient[p]
    BY <1>3 DEF ChannelTypes
  <2>2. toClient'[p] = Append(way, packet)
    BY <1>2, <1>6, <2>1
  <2> QED
    BY <1>5, <2>1, <2>2, Pushed
<1>7. ChannelTypes'
  <2>1. \A p \in Client : toClient'[p] \in Seq(Packet)
    <3> SUFFICES ASSUME NEW p \in Client PROVE toClient'[p] \in Seq(Packet)
      OBVIOUS
    <3>1. CASE p \in Items(subscriptions)
      BY <1>6, <3>1
    <3>2. CASE p \notin Items(subscriptions)
      BY <1>2, <1>3, <3>2 DEF ChannelTypes
    <3> QED
      BY <3>1, <3>2
  <2>2. toClient' \in [Client -> Seq(Packet)]
    BY <1>2, <2>1
  <2>3. published' \in 0 .. MaxMessages
    BY <1>2, <1>4
  <2> QED
    BY <1>2, <1>3, <2>2, <2>3 DEF ChannelTypes, clientVars
<1>8. /\ listenersOf' = listenersOf /\ callbacks' = callbacks /\ status' = status /\ toBroker' = toBroker
      /\ subscriptions' = subscriptions /\ breaks' = breaks
      /\ received' = received /\ joined' = joined /\ overlooked' = overlooked
  BY <1>2 DEF clientVars
\* The answers that a client waits for are what they were.
<1>9. ASSUME NEW p \in Client, NEW i \in DOMAIN toClient'[p]
      PROVE  \/ toClient'[p][i].type = "Message"
             \/ i \in DOMAIN toClient[p] /\ toClient'[p][i] = toClient[p][i]
  <2>1. CASE p \in Items(subscriptions)
    <3>1. CASE i = Len(toClient[p]) + 1
      BY <1>5, <1>6, <2>1, <3>1
    <3>2. CASE i # Len(toClient[p]) + 1
      <4>1. i \in 1 .. Len(toClient[p])
        BY <1>6, <2>1, <3>2
      <4> QED
        BY <1>6, <2>1, <4>1
    <3> QED
      BY <3>1, <3>2
  <2>2. CASE p \notin Items(subscriptions)
    BY <1>2, <2>2
  <2> QED
    BY <2>1, <2>2
<1>10. \A p \in Client : Channel(p)'
  <2> SUFFICES ASSUME NEW p \in Client PROVE Channel(p)'
    OBVIOUS
  <2>1. Registered(p)' /\ Requests(p)'
    BY <1>3, <1>8 DEF Channel, Registered, Requests
  <2>2. \A i \in DOMAIN toClient'[p] : toClient'[p][i].type = "Ack" =>
          i \in DOMAIN toClient[p] /\ toClient'[p][i] = toClient[p][i]
    BY <1>9
  <2>3. \A i \in DOMAIN toClient'[p] : toClient'[p][i].type \in {"Ack", "Message"}
    <3> SUFFICES ASSUME NEW i \in DOMAIN toClient'[p] PROVE toClient'[p][i].type \in {"Ack", "Message"}
      OBVIOUS
    <3>1. CASE toClient'[p][i].type = "Message"
      BY <3>1
    <3>2. CASE i \in DOMAIN toClient[p] /\ toClient'[p][i] = toClient[p][i]
      BY <1>3, <3>2 DEF Channel, Awaited
    <3> QED
      BY <1>9, <3>1, <3>2
  <2>4. Awaited(p)'
    BY <1>3, <1>8, <2>2, <2>3 DEF Channel, Awaited
  <2>5. Agreed(p)'
    BY <1>3, <1>8, <2>2 DEF Channel, Agreed, Settled
  <2> QED
    BY <2>1, <2>4, <2>5 DEF Channel
<1>11. \A l \in Listener : Follows(l)'
  <2> SUFFICES ASSUME NEW l \in Listener PROVE Follows(l)'
    OBVIOUS
  <2>1. PICK p \in Client : p = ClientOf[l]
    BY BrokerBusAssumption
  <2>2. Follows(l)
    BY DEF ChannelInv
  <2>3. received[l] \in Seq(Nat) /\ toClient[p] \in Seq(Packet) /\ joined[l] \in Nat
    BY <1>3, BrokerBusAssumption DEF ChannelTypes
  <2>4. PICK seq \in Seq(Nat), way \in Seq(Packet), upto \in Nat :
           seq = received[l] /\ way = toClient[p] /\ upto = published
    BY <1>4, <2>3
  <2>5. Flows(seq, way, upto)
    BY <2>1, <2>2, <2>4 DEF Follows
  <2>6. CASE p \in Items(subscriptions)
    <3>1. /\ Flows(seq, Append(way, packet), upto + 1)
          /\ \A n : Has(seq, way, n) => Has(seq, Append(way, packet), n)
          /\ Has(seq, Append(way, packet), upto + 1)
      BY <1>5, <2>4, <2>5, MessageSent
    <3>2. toClient'[p] = Append(way, packet)
      BY <1>6, <2>4, <2>6
    <3>3. ASSUME status[l] = "subscribed", l \notin overlooked, NEW n \in joined[l] + 1 .. upto + 1
          PROVE  Has(seq, Append(way, packet), n)
      <4>1. CASE n = upto + 1
        BY <3>1, <4>1
      <4>2. CASE n # upto + 1
        <5>1. n \in joined[l] + 1 .. upto
          BY <2>3, <4>2
        <5> QED
          BY <2>1, <2>2, <2>4, <3>1, <3>3, <5>1 DEF Follows
      <4> QED
        BY <4>1, <4>2
    <3> QED
      BY <1>2, <1>8, <2>1, <2>4, <3>1, <3>2, <3>3 DEF Follows
  <2>7. CASE p \notin Items(subscriptions)
    <3>1. status[l] # "subscribed"
      BY <1>3, <2>1, <2>7 DEF Channel, Agreed, Settled
    <3>2. Flows(seq, way, upto + 1)
      BY <2>5, FlowsOn
    <3>3. toClient'[p] = way
      BY <1>2, <2>4, <2>7
    <3> QED
      BY <1>2, <1>8, <2>1, <2>4, <3>1, <3>2, <3>3 DEF Follows
  <2> QED
    BY <2>6, <2>7
<1>12. Once(subscriptions)'
  BY <1>8 DEF ChannelInv, Once
<1> QED
  BY <1>7, <1>10, <1>11, <1>12 DEF ChannelInv

\* A connection is lost, with what was under way and its place in the list.
LEMMA BreakKeeps ==
    ASSUME ChannelInv, NEW p \in Client, Break(p)
    PROVE  ChannelInv'
<1>1. /\ breaks < MaxBreaks /\ breaks' = breaks + 1
      /\ toBroker' = [toBroker EXCEPT ![p] = <<>>]
      /\ toClient' = [toClient EXCEPT ![p] = <<>>]
      /\ subscriptions' = arrayRemoveItem(subscriptions, p)
      /\ status' = [l \in Listener |->
           IF ClientOf[l] # p THEN status[l]
           ELSE CASE status[l] \in {"subscribing", "releasing"} -> "over"
                  [] status[l] \in {"subscribed", "early"} -> "lost"
                  [] OTHER -> status[l]]
      /\ UNCHANGED <<published, listenersOf, callbacks, received, joined, overlooked>>
  BY DEF Break, DropSubscription
<1>2. ChannelTypes /\ \A q \in Client : Channel(q)
  BY DEF ChannelInv
<1>3. /\ subscriptions' \in Seq(Client) /\ Once(subscriptions')
      /\ Items(subscriptions') = Items(subscriptions) \ {p}
  BY <1>1, <1>2, RemoveItem DEF ChannelInv, ChannelTypes
<1>4. /\ toBroker'[p] = <<>> /\ toClient'[p] = <<>>
      /\ \A q \in Client : q # p => toBroker'[q] = toBroker[q] /\ toClient'[q] = toClient[q]
      /\ toBroker' \in [Client -> Seq(Packet)] /\ toClient' \in [Client -> Seq(Packet)]
  BY <1>1, <1>2 DEF ChannelTypes
<1>5. /\ \A l \in Listener : ClientOf[l] # p => status'[l] = status[l]
      /\ \A l \in Listener : ClientOf[l] = p =>
           /\ status[l] \in {"subscribing", "releasing"} => status'[l] = "over"
           /\ status[l] \in {"subscribed", "early"} => status'[l] = "lost"
           /\ status[l] \in {"new", "lost", "over"} => status'[l] = status[l]
  BY <1>1
<1>6. status' \in [Listener -> Status]
  <2>1. \A l \in Listener : status'[l] \in Status
    BY <1>2, <1>5 DEF ChannelTypes, Status
  <2> QED
    BY <1>1, <2>1
<1>7. breaks \in Nat /\ breaks' \in 0 .. MaxBreaks /\ breaks' # 0
  BY <1>1, <1>2, BrokerBusAssumption DEF ChannelTypes
<1>8. ChannelTypes'
  BY <1>1, <1>2, <1>3, <1>4, <1>6, <1>7 DEF ChannelTypes
<1>9. \A l \in Listener : status[l] \in {"new", "subscribing", "subscribed", "early", "lost", "releasing", "over"}
  BY <1>2 DEF ChannelTypes, Status
<1>10. Channel(p)'
  <2>1. \A l \in Items(callbacks[p]) : ClientOf[l] = p /\ l \in Listener /\ status'[l] \in {"lost", "over"}
    <3> SUFFICES ASSUME NEW l \in Items(callbacks[p])
                 PROVE  ClientOf[l] = p /\ l \in Listener /\ status'[l] \in {"lost", "over"}
      OBVIOUS
    <3>1. l \in Listener /\ ClientOf[l] = p /\ status[l] \notin {"new", "releasing"}
      BY <1>2, ItemsIn DEF ChannelTypes, Channel, Registered
    <3> QED
      BY <1>5, <1>9, <3>1
  <2>2. \A l \in Listener : ClientOf[l] = p => status'[l] \in {"new", "over", "lost"}
    BY <1>5, <1>9
  <2>3. \A l \in Listener : ClientOf[l] = p /\ status'[l] = "lost" =>
          status[l] \in {"subscribed", "early", "lost"}
    BY <1>5, <1>9
  <2>4. \A l \in Listener : ClientOf[l] = p /\ status'[l] = "lost" => l \in Items(callbacks[p])
    BY <1>2, <2>3 DEF Channel, Registered
  <2>5. Registered(p)'
    <3>1. \A l \in Items(callbacks[p]) : ClientOf[l] = p /\ status'[l] \notin {"new", "releasing"}
      BY <2>1
    <3>2. \A l \in Listener : ClientOf[l] = p /\ status'[l] \in {"subscribing", "subscribed", "early", "lost"}
            => l \in Items(callbacks[p])
      BY <2>2, <2>4
    <3> QED
      BY <1>1, <1>2, <3>1, <3>2 DEF Channel, Registered
  <2>6. Awaited(p)' /\ Requests(p)'
    BY <1>4 DEF Awaited, Requests
  <2>7. p \notin Items(subscriptions')
    BY <1>3
  <2>8. Agreed(p)'
    BY <1>1, <1>4, <1>7, <2>2, <2>7 DEF Agreed
  <2> QED
    BY <2>5, <2>6, <2>8 DEF Channel
<1>11. \A q \in Client : Channel(q)'
  <2> SUFFICES ASSUME NEW q \in Client, q # p PROVE Channel(q)'
    BY <1>10
  <2>1. q \in Items(subscriptions)' <=> q \in Items(subscriptions)
    BY <1>3
  <2> QED
    BY <1>1, <1>2, <1>4, <1>5, <1>7, <2>1, OtherClient
<1>12. \A l \in Listener : Follows(l)'
  <2> SUFFICES ASSUME NEW l \in Listener PROVE Follows(l)'
    OBVIOUS
  <2>1. Follows(l)
    BY DEF ChannelInv
  <2>2. CASE ClientOf[l] = p
    <3>1. Flows(received[l], <<>>, published)
      BY <2>1, NothingOnTheWay DEF Follows
    <3>2. status'[l] # "subscribed"
      BY <1>5, <1>9, <2>2
    <3> QED
      BY <1>1, <1>4, <2>2, <3>1, <3>2 DEF Follows
  <2>3. CASE ClientOf[l] # p
    <3>1. toClient'[ClientOf[l]] = toClient[ClientOf[l]] /\ status'[l] = status[l]
      BY <1>4, <1>5, <2>3, BrokerBusAssumption
    <3> QED
      BY <1>1, <2>1, <3>1, NothingFollows
  <2> QED
    BY <2>2, <2>3
<1> QED
  BY <1>3, <1>8, <1>11, <1>12 DEF ChannelInv, Once

-----------------------------------------------------------------------------
\* One lemma per action makes the step.
LEMMA ChannelNext == ChannelInv /\ [BusNext]_busVars => ChannelInv'
<1> SUFFICES ASSUME ChannelInv, [BusNext]_busVars PROVE ChannelInv'
  OBVIOUS
<1>1. CASE \E l \in Listener : subscribeFirst(l) \/ subscribeNext(l) \/ release(l)
  BY <1>1, SubscribeFirstKeeps, SubscribeNextKeeps, ListenerReleaseKeeps
<1>2. CASE \E p \in Client : \/ receiveAck(p) \/ receiveMessage(p)
                             \/ \E i \in DOMAIN callbacks[p] : receiveAndRelease(p, i)
  BY <1>2, ReceiveAckKeeps, ReceiveMessageKeeps, ReceiveAndReleaseKeeps
<1>3. CASE \E p \in Client : handleSubscribe(p) \/ handleUnsubscribe(p) \/ Break(p)
  BY <1>3, HandleSubscribeKeeps, HandleUnsubscribeKeeps, BreakKeeps
<1>4. CASE handlePublish
  BY <1>4, PublishKeeps
<1>5. CASE UNCHANGED busVars
  <2>1. /\ ChannelTypes' /\ Once(subscriptions)'
    BY <1>5 DEF busVars, brokerVars, clientVars, ChannelInv, ChannelTypes, Once
  <2>2. \A p \in Client : Channel(p)'
    BY <1>5, OtherClient DEF busVars, brokerVars, clientVars, ChannelInv, Items
  <2>3. \A l \in Listener : Follows(l)'
    BY <1>5, NothingFollows DEF busVars, brokerVars, clientVars, ChannelInv
  <2> QED
    BY <2>1, <2>2, <2>3 DEF ChannelInv
<1> QED
  BY <1>1, <1>2, <1>3, <1>4, <1>5 DEF BusNext

\* So it is an invariant of the specification.
LEMMA ChannelAlways == BusSpec => []ChannelInv
BY ChannelInit, ChannelNext, PTL DEF BusSpec

\* Broker and clients agree on who is subscribed, for any number of clients, listeners
\* and lost connections (deepkit-adapter.ts, _subscribe; kernel.ts, subscribe,
\* unsubscribe and close).
THEOREM SubscriptionsAgree == BusSpec => []SubscriptionsMatch
<1>1. ChannelInv => SubscriptionsMatch
  <2> SUFFICES ASSUME ChannelInv PROVE SubscriptionsMatch
    OBVIOUS
  <2>1. BusTypeOK
    <3>1. /\ \A p \in Client : /\ Items(callbacks[p]) \subseteq Listener
                               /\ Items(toBroker[p]) \subseteq Packet /\ Items(toClient[p]) \subseteq Packet
          /\ Items(subscriptions) \subseteq Client
          /\ \A l \in Listener : Items(received[l]) \subseteq 1 .. MaxMessages
      BY ItemsIn DEF ChannelInv, ChannelTypes
    <3> QED
      BY <3>1 DEF ChannelInv, ChannelTypes, BusTypeOK
  <2>2. \A p \in Client : toBroker[p] = <<>> /\ p \in Items(subscriptions) =>
          \E l \in Listener : ClientOf[l] = p /\ status[l] \notin {"new", "over", "lost"}
    <3> SUFFICES ASSUME NEW p \in Client, toBroker[p] = <<>>, p \in Items(subscriptions)
                 PROVE  \E l \in Listener : ClientOf[l] = p /\ status[l] \notin {"new", "over", "lost"}
      OBVIOUS
    <3>1. Channel(p) /\ callbacks[p] \in Seq(Listener) /\ callbacks[p] # <<>>
      BY DEF ChannelInv, ChannelTypes, Channel, Agreed
    <3>2. PICK l \in Listener : l \in Items(callbacks[p])
      <4>1. 1 \in DOMAIN callbacks[p] /\ callbacks[p][1] \in Listener
        BY <3>1
      <4> QED
        BY <4>1 DEF Items
    <3>3. ClientOf[l] = p /\ status[l] # "new" /\ status[l] \notin {"lost", "over"}
      BY <3>1, <3>2 DEF Channel, Registered, Agreed
    <3> QED
      BY <3>3
  <2>3. NoStaleSubscription
    BY <2>2 DEF NoStaleSubscription
  <2>4. \A p \in Client :
         breaks = 0 /\ toBroker[p] = <<>> => (p \in Items(subscriptions) <=> listenersOf[p] > 0)
    <3> SUFFICES ASSUME NEW p \in Client, breaks = 0, toBroker[p] = <<>>
                 PROVE  p \in Items(subscriptions) <=> listenersOf[p] > 0
      OBVIOUS
    <3>1. /\ p \in Items(subscriptions) => callbacks[p] # <<>>
          /\ callbacks[p] # <<>> => p \in Items(subscriptions)
      BY DEF ChannelInv, Channel, Agreed
    <3>2. listenersOf[p] = Len(callbacks[p]) /\ callbacks[p] \in Seq(Listener)
      BY DEF ChannelInv, ChannelTypes, Channel, Registered
    <3> QED
      BY <3>1, <3>2
  <2> QED
    BY <2>1, <2>3, <2>4 DEF SubscriptionsMatch, ChannelInv
<1> QED
  BY <1>1, ChannelAlways, PTL

\* For any number of clients, listeners and messages: a listener gets its messages in
\* the order they were published and none twice, and one whose client was known to be
\* subscribed misses none, whoever else of its client comes and goes
\* (deepkit-adapter.ts, onMessage and _subscribe; kernel.ts, publish).
THEOREM SubscribersMissNothing == BusSpec => []NothingMissed
<1>1. ChannelInv => NothingMissed
  <2> SUFFICES ASSUME ChannelInv, NEW l \in Listener
               PROVE  InOrder(l) /\ (status[l] = "subscribed" /\ l \notin overlooked => Complete(l))
    BY DEF NothingMissed
  <2>1. Follows(l)
    BY DEF ChannelInv
  <2>2. OnTheWay(ClientOf[l]) = Messages(toClient[ClientOf[l]])
    BY DEF OnTheWay, Messages
  <2>3. InOrder(l)
    BY <2>1, <2>2 DEF Follows, Flows, InOrder
  <2>4. status[l] = "subscribed" /\ l \notin overlooked => Complete(l)
    BY <2>1, <2>2 DEF Follows, Has, Complete
  <2> QED
    BY <2>3, <2>4
<1> QED
  BY <1>1, ChannelAlways, PTL

=============================================================================
