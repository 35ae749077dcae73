------------------------ MODULE DatabaseSessionProofs ------------------------
(***************************************************************************)
(* Proofs about DatabaseSession.  SnapshotIsStored is not inductive: that  *)
(* the group which storeMany() takes as a whole is stored the way it is in *)
(* memory follows from how flush() got there.  GroupKept says that, for    *)
(* the entities that are inserted, changed and untouched; RoundKept, that  *)
(* add() and remove() leave the round in commit alone; MapKept, that the   *)
(* identity map holds what is known, so that a DELETE is noticed.  Only    *)
(* the values depend on Quiet (Agree).  UnknownKept adds that what is not  *)
(* known is not stored, and LInv where a wanted entity waits to be stored. *)
(***************************************************************************)
EXTENDS DatabaseSession, SequenceTheorems, TLAPS

Persisting == {"insertPre", "insert", "updates", "updatePre", "update"}
InRound == {"deletes", "deletePre", "delete", "groups"} \cup Persisting

\* Two versions, the same ones if the application is quiet.
Agree(v, w) == v \in Version /\ w \in Version /\ (Quiet => v = w)

\* The identity map holds exactly what is known, and all of that has a snapshot.
MapKept ==
  /\ map = {i \in Item : known[i]}
  /\ \A i \in Item : known[i] => snapshot[i] \in Version

\* flush() works on a round that is in commit.
RoundKept ==
  flush.phase \in InRound =>
    flush.round \in DOMAIN rounds /\ rounds[flush.round].state = "commit"

\* The group in work: what is inserted, changed, or as it was.
GroupKept ==
  flush.phase \in Persisting =>
    /\ flush.inserts = {i \in Group : ~known[i]}
    /\ flush.updates \subseteq Group \ flush.inserts
    /\ \A i \in flush.updates : Agree(flush.sent[i], value[i])
    /\ \A i \in Group \ (flush.inserts \cup flush.updates) : Agree(snapshot[i], value[i])
    /\ flush.phase = "insert" => \A i \in flush.inserts : Agree(flush.sent[i], value[i])
    /\ flush.phase \in {"updates", "updatePre", "update"} =>
         \A i \in flush.inserts \ doubt : Agree(stored[i], value[i])

KnownKept == \A i \in Item \ doubt : known[i] => Agree(stored[i], snapshot[i])

IInv == TypeOK /\ MapKept /\ RoundKept /\ GroupKept /\ KnownKept

\* Where flush() can be, as TypeOK has it.
FlushStates ==
  [phase : Awaiting \cup Running, round : Nat, todo : SUBSET Nat, type : Nat,
   inserts : SUBSET Item, updates : SUBSET Item, sent : [Item -> Version \cup {Absent}]]

LEMMA ReplaceKeeps ==
  ASSUME NEW S, NEW s \in Seq(S), NEW x \in S, NEW n \in 1 .. Len(s)
  PROVE  /\ [s EXCEPT ![n] = x] \in Seq(S)
         /\ DOMAIN [s EXCEPT ![n] = x] = DOMAIN s
BY ExceptSeq

LEMMA OpenIsRound == Open \in Round
BY DEF Open, Round

\* The rounds add() and remove() work on keep the one in commit.
LEMMA CurrentIsRounds ==
  ASSUME IInv
  PROVE  /\ Current \in Seq(Round) /\ Current # <<>>
         /\ flush.phase \in InRound => /\ flush.round \in DOMAIN Current
                                       /\ flush.round # Len(Current)
                                       /\ Current[flush.round] = rounds[flush.round]
<1> USE DEF IInv, TypeOK
<1>1. CASE rounds = <<>>
  <2>1. Entered(rounds) = <<Open>>
    BY <1>1 DEF Entered
  <2>2. Len(<<Open>>) = 1 /\ <<Open>>[1] = Open /\ Open.state = "open"
    BY DEF Open
  <2>3. Current = <<Open>>
    BY <2>1, <2>2 DEF Current, Busy
  <2>4. flush.phase \notin InRound
    BY <1>1 DEF RoundKept
  <2>5. QED
    BY <2>3, <2>4, OpenIsRound
<1>2. CASE rounds # <<>> /\ rounds[Len(rounds)].state = "commit"
  <2>1. Current = Append(rounds, Open)
    BY <1>2 DEF Current, Entered, Busy
  <2>2. Len(Current) = Len(rounds) + 1 /\ Current \in Seq(Round)
    BY <2>1, OpenIsRound
  <2>3. \A r \in DOMAIN rounds : r \in DOMAIN Current /\ r # Len(Current) /\ Current[r] = rounds[r]
    BY <2>1, OpenIsRound
  <2>4. QED
    BY <2>2, <2>3 DEF RoundKept
<1>3. CASE rounds # <<>> /\ rounds[Len(rounds)].state # "commit"
  <2>1. Current = rounds
    BY <1>3 DEF Current, Entered, Busy
  <2>2. QED
    BY <1>3, <2>1 DEF RoundKept
<1>4. QED
  BY <1>1, <1>2, <1>3

LEMMA CurrentKeeps ==
  ASSUME IInv, NEW round \in Round, rounds' = Changed(Current, round)
  PROVE  /\ rounds' \in Seq(Round)
         /\ flush.phase \in InRound => /\ flush.round \in DOMAIN rounds'
                                       /\ rounds'[flush.round] = rounds[flush.round]
<1>1. rounds' \in Seq(Round) /\ DOMAIN rounds' = DOMAIN Current
  BY CurrentIsRounds, ReplaceKeeps DEF Changed
<1>2. \A r \in DOMAIN Current : r # Len(Current) => rounds'[r] = Current[r]
  BY CurrentIsRounds DEF Changed
<1>3. QED
  BY <1>1, <1>2, CurrentIsRounds

\* What add() and remove() queue is a round.
LEMMA LastIsRound ==
  ASSUME NEW rs \in Seq(Round), rs # <<>>
  PROVE  Last(rs) \in Round
BY DEF Last

LEMMA RoundAddIsRound ==
  ASSUME TypeOK, NEW round \in Round, NEW items \in SUBSET Item
  PROVE  RoundAdd(round, items) \in Round /\ RoundAdd(round, items).add \subseteq Item
<1> DEFINE new == items \ (round.remove \cup round.add)
           all == round.add \cup new \cup ((UNION {Refs[i] : i \in new}) \ round.remove)
<1>1. \A i \in Item : Refs[i] \subseteq Item
  BY SessionAssumption DEF TypeOK, Refs
<1>2. all \in SUBSET Item
  BY <1>1 DEF Round
<1>3. RoundAdd(round, items) = [round EXCEPT !.add = all]
  BY DEF RoundAdd
<1>4. [round EXCEPT !.add = all] \in Round /\ [round EXCEPT !.add = all].add = all
  <2> HIDE DEF all
  <2>1. QED
    BY <1>2 DEF Round
<1>5. QED
  BY <1>2, <1>3, <1>4

LEMMA RoundRemoveIsRound ==
  ASSUME NEW round \in Round, NEW i \in Item
  PROVE  RoundRemove(round, i) \in Round
BY DEF RoundRemove, Round

\* A step that leaves flush() where it is, and its round with it.
LEMMA QueueStep ==
  ASSUME IInv, rounds' \in Seq(Round), wanted' \subseteq Item /\ skipped' \subseteq wanted',
         UNCHANGED <<shape, value, known, snapshot, map, stored, durable, transaction,
                     flush, flushes, doubt>>,
         flush.phase \in InRound => /\ flush.round \in DOMAIN rounds'
                                    /\ rounds'[flush.round] = rounds[flush.round]
  PROVE  IInv'
<1>1. TypeOK'
  BY DEF IInv, TypeOK
<1>2. MapKept' /\ KnownKept' /\ RoundKept'
  BY DEF IInv, MapKept, KnownKept, RoundKept
<1>3. GroupKept'
  <2>1. Group' = Group
    BY DEF Group, InRound, Persisting, TypeOf
  <2>2. QED
    BY <2>1 DEF IInv, GroupKept
<1>4. QED
  BY <1>1, <1>2, <1>3 DEF IInv

\* A step to a phase outside a group, or the end, that keeps what is stored.
LEMMA OutsideStep ==
  ASSUME IInv, TypeOK', MapKept', KnownKept', RoundKept', flush'.phase \notin Persisting
  PROVE  IInv'
BY DEF IInv, GroupKept

LEMMA IdleType == Idle \in FlushStates
BY DEF Idle, Awaiting, FlushStates

\* flush() ends: it is outside a round.
LEMMA EndKeeps ==
  ASSUME End
  PROVE  /\ rounds' \in Seq(Round) /\ flush' \in FlushStates
         /\ flush'.phase = "idle"
         /\ RoundKept' /\ GroupKept'
<1>1. flush' = Idle /\ flush'.phase = "idle"
  BY DEF End, Idle
<1>2. QED
  BY <1>1, IdleType DEF End, RoundKept, GroupKept, InRound, Persisting

\* A step of flush() that touches neither the entities nor the database.
LEMMA MemoryStep ==
  ASSUME IInv, UNCHANGED <<shape, value, known, snapshot, map, stored, durable>>,
         transaction' \in BOOLEAN, flushes' \in Nat,
         rounds' \in Seq(Round), flush' \in FlushStates,
         doubt' \subseteq Item, doubt \subseteq doubt', wanted' \subseteq Item /\ skipped' \subseteq wanted'
  PROVE  TypeOK' /\ MapKept' /\ KnownKept'
<1>1. TypeOK'
  BY DEF IInv, TypeOK, FlushStates
<1>2. MapKept' /\ KnownKept'
  BY DEF IInv, MapKept, KnownKept
<1>3. QED
  BY <1>1, <1>2

LEMMA RoundIsRound ==
  ASSUME IInv, flush.phase \in InRound
  PROVE  /\ rounds[flush.round] \in Round
         /\ rounds[flush.round].add \subseteq Item
         /\ rounds[flush.round].remove \subseteq Item
<1>1. rounds[flush.round] \in Round
  BY DEF IInv, TypeOK, RoundKept
<1>2. QED
  BY <1>1 DEF Round

LEMMA GroupIsItems ==
  ASSUME IInv
  PROVE  Group \subseteq Item
BY RoundIsRound DEF Group, InRound, Persisting

---------------------------------------------------------------------------
\* The application's steps.

LEMMA AddStep ==
  ASSUME IInv, shape' = shape, NEW i \in Item, Add(i)
  PROVE  IInv'
<1>1. /\ RoundAdd(Last(Current), {i}) \in Round
      /\ RoundAdd(Last(Current), {i}).add \subseteq Item
  BY CurrentIsRounds, LastIsRound, RoundAddIsRound DEF IInv
<1>2. rounds' = Changed(Current, RoundAdd(Last(Current), {i}))
  BY DEF Add
<1>3. wanted' \subseteq Item /\ skipped' \subseteq wanted'
  <2>1. Refs[i] \subseteq Item
    BY SessionAssumption DEF Refs, IInv, TypeOK
  <2>2. /\ wanted' = wanted \cup {i} \cup Refs[i]
        /\ skipped' \subseteq skipped \cup {i} \cup Refs[i]
    BY DEF Add
  <2>3. QED
    BY <2>1, <2>2 DEF IInv, TypeOK
<1>4. QED
  BY <1>1, <1>2, <1>3, CurrentKeeps, QueueStep DEF Add

LEMMA RemoveStep ==
  ASSUME IInv, shape' = shape, NEW i \in Item, Remove(i)
  PROVE  IInv'
<1>1. RoundRemove(Last(Current), i) \in Round
  BY CurrentIsRounds, LastIsRound, RoundRemoveIsRound
<1>2. rounds' = Changed(Current, RoundRemove(Last(Current), i))
  BY DEF Remove
<1>3. wanted' \subseteq Item /\ skipped' \subseteq wanted'
  BY DEF Remove, IInv, TypeOK
<1>4. QED
  BY <1>1, <1>2, <1>3, CurrentKeeps, QueueStep DEF Remove

\* A change is of an entity outside the group, or read later by its insert.
LEMMA ModifyStep ==
  ASSUME IInv, shape' = shape, NEW i \in Item, Modify(i)
  PROVE  IInv'
<1>1. /\ UNCHANGED <<known, snapshot, map, stored, durable, transaction, rounds, flush,
                     flushes, doubt, wanted, skipped>>
      /\ Quiet => i \notin Group \/ (flush.phase = "insertPre" /\ i \in flush.inserts)
  BY DEF Modify
<1>2. PICK v \in Version : value' = [value EXCEPT ![i] = v]
  BY DEF Modify
<1>3. TypeOK' /\ MapKept' /\ RoundKept' /\ KnownKept'
  BY <1>1, <1>2 DEF IInv, TypeOK, MapKept, RoundKept, KnownKept
<1>4. \A j \in Item : j # i => value'[j] = value[j]
  BY <1>2 DEF IInv, TypeOK
<1>5. Group' = Group /\ Group \subseteq Item
  BY <1>1, GroupIsItems DEF Group, TypeOf
<1>6. CASE ~Quiet
  <2>1. \A w \in Version, j \in Item : Agree(w, value'[j])
    BY <1>3, <1>6 DEF TypeOK, Agree
  <2>2. GroupKept'
    <3>1. flush.updates \subseteq Group /\ flush.phase \in Persisting => flush.inserts \subseteq Group
      BY <1>5 DEF IInv, GroupKept
    <3>2. QED
      BY <1>1, <1>5, <2>1, <3>1 DEF IInv, GroupKept, Agree
  <2>3. QED
    BY <1>3, <2>2 DEF IInv
<1>7. CASE i \notin Group
  <2>1. \A j \in Group : value'[j] = value[j]
    BY <1>4, <1>5, <1>7
  <2>2. GroupKept'
    BY <1>1, <1>5, <2>1 DEF IInv, GroupKept
  <2>3. QED
    BY <1>3, <2>2 DEF IInv
<1>8. CASE flush.phase = "insertPre" /\ i \in flush.inserts
  <2>1. \A j \in Group \ flush.inserts : value'[j] = value[j]
    BY <1>4, <1>5, <1>8
  <2>2. GroupKept'
    BY <1>1, <1>5, <1>8, <2>1 DEF IInv, GroupKept
  <2>3. QED
    BY <1>3, <2>2 DEF IInv
<1>9. QED
  BY <1>1, <1>6, <1>7, <1>8

---------------------------------------------------------------------------
\* The steps of flush() outside a group.

LEMMA FlushStep ==
  ASSUME IInv, shape' = shape, Flush
  PROVE  IInv'
<1> DEFINE rs == Entered(rounds)
<1>1. rs \in Seq(Round) /\ rs # <<>>
  BY OpenIsRound DEF Entered, IInv, TypeOK
<1>2. RoundAdd(Last(rs), map) \in Round
  BY <1>1, LastIsRound, RoundAddIsRound DEF IInv, TypeOK
<1>3. rounds' = Changed(rs, RoundAdd(Last(rs), map))
  BY DEF Flush
<1>4. rounds' \in Seq(Round)
  <2> HIDE DEF rs
  <2>1. Len(rs) \in 1 .. Len(rs)
    BY <1>1
  <2>2. QED
    BY <1>1, <1>2, <1>3, <2>1, ReplaceKeeps DEF Changed
<1>5. flush' \in FlushStates /\ flush'.phase = "commitPre"
  BY DEF Flush, IInv, TypeOK, FlushStates, Awaiting
<1>6. TypeOK' /\ MapKept' /\ KnownKept'
  <2>1. /\ UNCHANGED <<value, known, snapshot, map, stored, durable, transaction,
                        doubt, wanted, skipped>>
        /\ flushes' = flushes + 1
    BY DEF Flush
  <2>2. flushes' \in Nat /\ transaction' \in BOOLEAN
    BY <2>1 DEF IInv, TypeOK
  <2>3. doubt' \subseteq Item /\ wanted' \subseteq Item /\ skipped' \subseteq wanted'
    BY <2>1 DEF IInv, TypeOK
  <2>4. QED
    BY <1>4, <1>5, <2>1, <2>2, <2>3, MemoryStep
<1>7. RoundKept' /\ flush'.phase \notin Persisting
  BY <1>5 DEF RoundKept, InRound, Persisting
<1>8. QED
  BY <1>6, <1>7, OutsideStep

\* flush() gives up and leaves entities and database alone.
LEMMA GiveUpStep ==
  ASSUME IInv, UNCHANGED <<shape, value, known, snapshot, map, stored, durable,
                           transaction, flushes>>,
         GiveUp, doubt' \subseteq Item, doubt \subseteq doubt'
  PROVE  IInv'
<1>1. wanted' \subseteq Item /\ skipped' \subseteq wanted'
  BY DEF GiveUp
<1>2. TypeOK' /\ MapKept' /\ KnownKept'
  BY <1>1, EndKeeps, MemoryStep DEF GiveUp, IInv, TypeOK
<1>3. QED
  BY <1>2, EndKeeps DEF IInv, GiveUp

LEMMA CommitPreStep ==
  ASSUME IInv, shape' = shape, CommitPre
  PROVE  IInv'
<1>1. CASE GiveUp
  BY <1>1, GiveUpStep DEF CommitPre, IInv, TypeOK
<1>2. CASE flush' = [flush EXCEPT !.phase = "rounds"] /\ UNCHANGED <<rounds, wanted, skipped>>
  <2>1. flush' \in FlushStates /\ flush'.phase = "rounds"
    BY <1>2 DEF IInv, TypeOK, FlushStates, Running
  <2>2. TypeOK' /\ MapKept' /\ KnownKept'
    BY <1>2, <2>1, MemoryStep DEF CommitPre, IInv, TypeOK
  <2>3. RoundKept' /\ flush'.phase \notin Persisting
    BY <2>1 DEF RoundKept, InRound, Persisting
  <2>4. QED
    BY <2>2, <2>3, OutsideStep
<1>3. QED
  BY <1>1, <1>2 DEF CommitPre

LEMMA NextRoundStep ==
  ASSUME IInv, shape' = shape, NextRound
  PROVE  IInv'
<1>1. CASE End
  <2>1. TypeOK' /\ MapKept' /\ KnownKept'
    BY <1>1, EndKeeps, MemoryStep DEF NextRound, IInv, TypeOK
  <2>2. QED
    BY <1>1, <2>1, EndKeeps DEF IInv
<1>2. CASE ~End
  <2>1. PICK r \in DOMAIN rounds :
          /\ rounds' = [rounds EXCEPT ![r].state = "commit"]
          /\ flush' = [flush EXCEPT !.phase = "deletes", !.round = r,
                                    !.todo = {TypeOf[i] : i \in rounds[r].remove}]
    BY <1>2 DEF NextRound
  <2>2. rounds \in Seq(Round) /\ r \in 1 .. Len(rounds) /\ r \in Nat
    BY DEF IInv, TypeOK
  <2>3. rounds[r] \in Round /\ rounds[r].remove \subseteq Item
    <3>1. rounds[r] \in Round
      BY <2>2
    <3>2. QED
      BY <3>1 DEF Round
  <2>4. [rounds[r] EXCEPT !.state = "commit"] \in Round
    BY <2>3 DEF Round
  <2>5. rounds' = [rounds EXCEPT ![r] = [rounds[r] EXCEPT !.state = "commit"]]
    BY <2>1
  <2>6. rounds' \in Seq(Round) /\ DOMAIN rounds' = DOMAIN rounds
    BY <2>2, <2>4, <2>5, ReplaceKeeps
  <2>7. rounds'[r].state = "commit"
    BY <2>2, <2>3, <2>5 DEF Round
  <2>8. {TypeOf[i] : i \in rounds[r].remove} \in SUBSET Nat
    BY <2>3, SessionAssumption DEF IInv, TypeOK, TypeOf
  <2>9. flush' \in FlushStates /\ flush'.phase = "deletes" /\ flush'.round = r
    BY <2>1, <2>2, <2>8 DEF IInv, TypeOK, FlushStates, Running
  <2>10. TypeOK' /\ MapKept' /\ KnownKept'
    BY <2>6, <2>9, MemoryStep DEF NextRound, IInv, TypeOK
  <2>11. RoundKept' /\ flush'.phase \notin Persisting
    BY <2>6, <2>7, <2>9 DEF RoundKept, Persisting
  <2>12. QED
    BY <2>10, <2>11, OutsideStep
<1>3. QED
  BY <1>1, <1>2

\* The types of what is queued are numbers.
LEMMA TypesOf ==
  ASSUME TypeOK, NEW items \in SUBSET Item
  PROVE  {TypeOf[i] : i \in items} \in SUBSET Nat
BY SessionAssumption DEF TypeOK, TypeOf

\* A step within the round that leaves entities, database and queues alone.
LEMMA RoundStep ==
  ASSUME IInv, flush.phase \in InRound, flush' \in FlushStates,
         flush'.phase \notin Persisting, flush'.round = flush.round,
         UNCHANGED <<shape, value, known, snapshot, map, stored, durable, transaction,
                     rounds, flushes, doubt, wanted, skipped>>
  PROVE  IInv'
<1>1. TypeOK' /\ MapKept' /\ KnownKept'
  BY MemoryStep DEF IInv, TypeOK
<1>2. RoundKept'
  BY DEF IInv, RoundKept
<1>3. QED
  BY <1>1, <1>2, OutsideStep

LEMMA NextDeleteStep ==
  ASSUME IInv, shape' = shape, NextDelete
  PROVE  IInv'
<1>1. flush \in FlushStates /\ flush.phase \in InRound
  BY DEF NextDelete, IInv, TypeOK, FlushStates, InRound
<1>2. CASE flush.todo = {}
  <2>1. {TypeOf[i] : i \in rounds[flush.round].add} \in SUBSET Nat
    BY <1>1, RoundIsRound, TypesOf DEF IInv
  <2>2. flush' = [flush EXCEPT !.phase = "groups",
                               !.todo = {TypeOf[i] : i \in rounds[flush.round].add}]
    BY <1>2 DEF NextDelete
  <2>3. /\ flush' \in FlushStates /\ flush'.round = flush.round
        /\ flush'.phase \notin Persisting
    BY <1>1, <2>1, <2>2 DEF FlushStates, Running, Persisting
  <2>4. QED
    BY <1>1, <2>3, RoundStep DEF NextDelete
<1>3. CASE flush.todo # {}
  <2>1. PICK t \in flush.todo :
          flush' = [flush EXCEPT !.phase = "deletePre", !.type = t, !.todo = @ \ {t}]
    BY <1>3 DEF NextDelete
  <2>2. t \in Nat /\ flush.todo \ {t} \in SUBSET Nat
    BY <1>1 DEF FlushStates
  <2>3. /\ flush' \in FlushStates /\ flush'.round = flush.round
        /\ flush'.phase \notin Persisting
    BY <1>1, <2>1, <2>2 DEF FlushStates, Awaiting, Persisting
  <2>4. QED
    BY <1>1, <2>3, RoundStep DEF NextDelete
<1>4. QED
  BY <1>2, <1>3

LEMMA DeletePreStep ==
  ASSUME IInv, shape' = shape, DeletePre
  PROVE  IInv'
<1>1. flush \in FlushStates /\ flush.phase \in InRound
  BY DEF DeletePre, IInv, TypeOK, FlushStates, InRound
<1>2. PICK next \in {"delete", "deletes"} : flush' = [flush EXCEPT !.phase = next]
  BY DEF DeletePre
<1>3. /\ flush' \in FlushStates /\ flush'.round = flush.round
      /\ flush'.phase \notin Persisting
  BY <1>1, <1>2 DEF FlushStates, Running, Awaiting, Persisting
<1>4. QED
  BY <1>1, <1>3, RoundStep DEF DeletePre

LEMMA WriteType ==
  ASSUME TypeOK, NEW items, NEW contents, Write(items, contents),
         \A i \in items \cap Item : contents[i] \in Version \cup {Absent}
  PROVE  /\ stored' \in [Item -> Version \cup {Absent}]
         /\ durable' \in [Item -> Version \cup {Absent}]
BY DEF Write, TypeOK

\* What a DELETE takes away is in the identity map, or was not known.
LEMMA DeleteStep ==
  ASSUME IInv, shape' = shape, Delete
  PROVE  IInv'
<1> DEFINE items == {i \in rounds[flush.round].remove : TypeOf[i] = flush.type}
<1>1. flush \in FlushStates /\ flush.phase \in InRound
  BY DEF Delete, IInv, TypeOK, FlushStates, InRound
<1>2. items \subseteq Item
  BY <1>1, RoundIsRound
<1>3. /\ stored' = [i \in Item |-> IF i \in items THEN Absent ELSE stored[i]]
      /\ stored' \in [Item -> Version \cup {Absent}]
      /\ durable' \in [Item -> Version \cup {Absent}]
  BY WriteType DEF Delete, Write, IInv, TypeOK
<1>4. /\ known' = [i \in Item |-> known[i] /\ i \notin items \cap map]
      /\ map' = map \ items /\ doubt' = doubt \ items
      /\ UNCHANGED <<value, snapshot, transaction, flushes>>
  BY DEF Delete, Forget
<1> HIDE DEF items
<1>5. \A i \in Item : known'[i] <=> (known[i] /\ i \notin items)
  BY <1>4 DEF IInv, MapKept
<1>6. MapKept'
  BY <1>4, <1>5 DEF IInv, MapKept
<1>7. KnownKept'
  BY <1>3, <1>4, <1>5 DEF IInv, KnownKept
<1>8. /\ rounds' \in Seq(Round) /\ flush' \in FlushStates /\ wanted' \subseteq Item /\ skipped' \subseteq wanted'
      /\ RoundKept' /\ flush'.phase \notin Persisting
  <2>1. CASE GiveUp
    BY <2>1, EndKeeps DEF GiveUp, Persisting
  <2>2. CASE flush' = [flush EXCEPT !.phase = "deletes"] /\ UNCHANGED <<rounds, wanted, skipped>>
    <3>1. /\ flush' \in FlushStates /\ flush'.round = flush.round
          /\ flush'.phase = "deletes"
      BY <1>1, <2>2 DEF FlushStates, Running
    <3>2. QED
      BY <1>1, <2>2, <3>1 DEF IInv, TypeOK, RoundKept, Persisting
  <2>3. QED
    BY <2>1, <2>2 DEF Delete
<1>9. TypeOK'
  BY <1>3, <1>4, <1>8 DEF IInv, TypeOK, FlushStates
<1>10. QED
  BY <1>6, <1>7, <1>8, <1>9, OutsideStep

---------------------------------------------------------------------------
\* The steps that take a group through its statements.

LEMMA NextGroupStep ==
  ASSUME IInv, shape' = shape, NextGroup
  PROVE  IInv'
<1>1. flush \in FlushStates /\ flush.phase \in InRound
  BY DEF NextGroup, IInv, TypeOK, FlushStates, InRound
<1>2. CASE flush.todo = {}
  <2>1. /\ rounds' = [rounds EXCEPT ![flush.round].state = "done"]
        /\ flush' = [flush EXCEPT !.phase = "rounds"]
    BY <1>2 DEF NextGroup
  <2>2. rounds \in Seq(Round) /\ flush.round \in 1 .. Len(rounds)
    BY <1>1 DEF IInv, TypeOK, RoundKept
  <2>3. [rounds[flush.round] EXCEPT !.state = "done"] \in Round
    BY <1>1, RoundIsRound DEF Round
  <2>4. rounds' \in Seq(Round)
    BY <2>1, <2>2, <2>3, ReplaceKeeps
  <2>5. flush' \in FlushStates /\ flush'.phase = "rounds"
    BY <1>1, <2>1 DEF FlushStates, Running
  <2>6. TypeOK' /\ MapKept' /\ KnownKept'
    BY <2>4, <2>5, MemoryStep DEF NextGroup, IInv, TypeOK
  <2>7. RoundKept' /\ flush'.phase \notin Persisting
    BY <2>5 DEF RoundKept, InRound, Persisting
  <2>8. QED
    BY <2>6, <2>7, OutsideStep
<1>3. CASE flush.todo # {}
  <2> DEFINE items(t) == {i \in rounds[flush.round].add : TypeOf[i] = t}
             new(t) == {i \in items(t) : ~known[i]}
             changed(t) == {i \in items(t) \ new(t) : snapshot[i] # value[i]}
  <2>1. PICK t \in flush.todo :
          flush' = [flush EXCEPT
                     !.phase = IF new(t) = {} THEN "updates" ELSE "insertPre",
                     !.todo = @ \ {t}, !.type = t, !.inserts = new(t),
                     !.updates = changed(t), !.sent = value]
    BY <1>3 DEF NextGroup
  <2>2. items(t) \in SUBSET Item /\ new(t) \in SUBSET Item /\ changed(t) \in SUBSET Item
    BY <1>1, RoundIsRound
  <2>3. value \in [Item -> Version \cup {Absent}]
    BY DEF IInv, TypeOK
  <2>4. t \in Nat /\ flush.todo \ {t} \in SUBSET Nat
    BY <1>1 DEF FlushStates
  <2>5. UNCHANGED <<shape, value, known, snapshot, map, stored, durable, transaction,
                    rounds, flushes, doubt, wanted, skipped>>
    BY <1>3 DEF NextGroup
  <2>6. \A i \in items(t) \ (new(t) \cup changed(t)) : snapshot[i] = value[i]
    OBVIOUS
  <2>7. new(t) = {i \in items(t) : ~known[i]} /\ changed(t) \subseteq items(t) \ new(t)
    OBVIOUS
  <2>8. /\ flush' \in FlushStates /\ flush'.round = flush.round /\ flush'.type = t
        /\ flush'.inserts = new(t) /\ flush'.updates = changed(t) /\ flush'.sent = value
        /\ flush'.phase = IF new(t) = {} THEN "updates" ELSE "insertPre"
    <3> HIDE DEF items, new, changed
    <3>1. QED
      BY <1>1, <2>1, <2>2, <2>3, <2>4 DEF FlushStates, Running, Awaiting
  <2>9. Group' = items(t)
    BY <2>5, <2>8 DEF Group, TypeOf
  <2> HIDE DEF items, new, changed
  <2>10. TypeOK' /\ MapKept' /\ KnownKept'
    BY <2>5, <2>8, MemoryStep DEF IInv, TypeOK
  <2>11. RoundKept'
    BY <1>1, <2>5, <2>8 DEF IInv, RoundKept
  <2>12. GroupKept'
    <3>1. \A i \in items(t) : Agree(value[i], value[i])
      BY <2>2 DEF IInv, TypeOK, Agree
    <3>2. \A i \in items(t) \ (new(t) \cup changed(t)) : Agree(snapshot[i], value[i])
      BY <2>6, <3>1
    <3>3. QED
      BY <2>2, <2>5, <2>7, <2>8, <2>9, <3>1, <3>2 DEF GroupKept
  <2>13. QED
    BY <2>10, <2>11, <2>12 DEF IInv
<1>4. QED
  BY <1>2, <1>3

LEMMA InsertPreStep ==
  ASSUME IInv, shape' = shape, InsertPre
  PROVE  IInv'
<1>1. /\ flush \in FlushStates /\ flush.phase = "insertPre"
      /\ flush.phase \in InRound /\ flush.phase \in Persisting
  BY DEF InsertPre, IInv, TypeOK, FlushStates, InRound, Persisting
<1>2. UNCHANGED <<shape, value, known, snapshot, map, stored, durable, transaction,
                  rounds, flushes, wanted, skipped>>
  BY DEF InsertPre
<1>3. flush.inserts \subseteq Item /\ flush.sent \in [Item -> Version \cup {Absent}]
  BY <1>1 DEF FlushStates
<1>4. CASE /\ flush' = [flush EXCEPT !.phase = "insert",
                !.sent = [i \in Item |-> IF i \in flush.inserts THEN value[i] ELSE @[i]]]
           /\ UNCHANGED doubt
  <2> DEFINE sent == [i \in Item |-> IF i \in flush.inserts THEN value[i] ELSE flush.sent[i]]
  <2>1. /\ sent \in [Item -> Version \cup {Absent}]
        /\ \A i \in flush.inserts : sent[i] = value[i]
        /\ \A i \in Item \ flush.inserts : sent[i] = flush.sent[i]
    BY <1>3 DEF IInv, TypeOK
  <2>2. flush' = [flush EXCEPT !.phase = "insert", !.sent = sent]
    BY <1>4
  <2> HIDE DEF sent
  <2>3. /\ flush' \in FlushStates /\ flush'.phase = "insert" /\ flush'.sent = sent
        /\ flush'.round = flush.round /\ flush'.type = flush.type
        /\ flush'.inserts = flush.inserts /\ flush'.updates = flush.updates
    BY <1>1, <2>1, <2>2 DEF FlushStates, Awaiting
  <2>4. Group' = Group
    BY <1>1, <1>2, <2>3 DEF Group, TypeOf
  <2>5. TypeOK' /\ MapKept' /\ KnownKept'
    BY <1>2, <1>4, <2>3, MemoryStep DEF IInv, TypeOK
  <2>6. RoundKept'
    BY <1>1, <1>2, <2>3 DEF IInv, RoundKept
  <2>7. GroupKept'
    <3>1. \A i \in flush.inserts : Agree(sent[i], value[i])
      BY <1>3, <2>1 DEF IInv, TypeOK, Agree
    <3>2. QED
      BY <1>1, <1>2, <2>1, <2>3, <2>4, <3>1, GroupIsItems DEF IInv, GroupKept
  <2>8. QED
    BY <2>5, <2>6, <2>7 DEF IInv
<1>5. CASE /\ flush' = [flush EXCEPT !.phase = "updates"]
           /\ doubt' = doubt \cup flush.inserts
  <2>1. /\ flush' \in FlushStates /\ flush'.phase = "updates" /\ flush'.sent = flush.sent
        /\ flush'.round = flush.round /\ flush'.type = flush.type
        /\ flush'.inserts = flush.inserts /\ flush'.updates = flush.updates
    BY <1>1, <1>5 DEF FlushStates, Running
  <2>2. Group' = Group
    BY <1>1, <1>2, <2>1 DEF Group, TypeOf
  <2>3. TypeOK' /\ MapKept' /\ KnownKept'
    BY <1>2, <1>3, <1>5, <2>1, MemoryStep DEF IInv, TypeOK
  <2>4. RoundKept'
    BY <1>1, <1>2, <2>1 DEF IInv, RoundKept
  <2>5. GroupKept'
    BY <1>1, <1>2, <1>5, <2>1, <2>2 DEF IInv, GroupKept
  <2>6. QED
    BY <2>3, <2>4, <2>5 DEF IInv
<1>6. QED
  BY <1>4, <1>5 DEF InsertPre

\* What is inserted was not known, so nothing known is written over.
LEMMA InsertStep ==
  ASSUME IInv, shape' = shape, Insert
  PROVE  IInv'
<1>1. /\ flush \in FlushStates /\ flush.phase = "insert"
      /\ flush.phase \in InRound /\ flush.phase \in Persisting
  BY DEF Insert, IInv, TypeOK, FlushStates, InRound, Persisting
<1>2. UNCHANGED <<shape, value, known, snapshot, map, transaction, flushes>>
  BY DEF Insert
<1>3. flush.inserts \subseteq Item /\ flush.sent \in [Item -> Version \cup {Absent}]
  BY <1>1 DEF FlushStates
<1>4. /\ stored' = [i \in Item |-> IF i \in flush.inserts THEN flush.sent[i] ELSE stored[i]]
      /\ stored' \in [Item -> Version \cup {Absent}]
      /\ durable' \in [Item -> Version \cup {Absent}]
  <2>1. Write(flush.inserts, flush.sent) /\ TypeOK
    BY DEF Insert, IInv
  <2>2. \A i \in flush.inserts \cap Item : flush.sent[i] \in Version \cup {Absent}
    BY <1>3
  <2>3. /\ stored' \in [Item -> Version \cup {Absent}]
        /\ durable' \in [Item -> Version \cup {Absent}]
    BY <2>1, <2>2, WriteType
  <2>4. QED
    BY <2>1, <2>3 DEF Write
<1>5. /\ \A i \in flush.inserts : ~known[i]
      /\ \A i \in flush.inserts : Agree(stored'[i], value[i])
  BY <1>1, <1>3, <1>4 DEF IInv, GroupKept
<1>6. MapKept'
  BY <1>2 DEF IInv, MapKept
<1>7. \A i \in Item \ doubt : known[i] => Agree(stored'[i], snapshot[i])
  BY <1>4, <1>5 DEF IInv, KnownKept
<1>8. CASE flush' = [flush EXCEPT !.phase = "updates"] /\ UNCHANGED <<rounds, doubt, wanted, skipped>>
  <2>1. /\ flush' \in FlushStates /\ flush'.phase = "updates" /\ flush'.sent = flush.sent
        /\ flush'.round = flush.round /\ flush'.type = flush.type
        /\ flush'.inserts = flush.inserts /\ flush'.updates = flush.updates
    BY <1>1, <1>8 DEF FlushStates, Running
  <2>2. Group' = Group
    BY <1>1, <1>2, <1>8, <2>1 DEF Group, TypeOf
  <2>3. TypeOK'
    BY <1>2, <1>4, <1>8, <2>1 DEF IInv, TypeOK, FlushStates
  <2>4. RoundKept'
    BY <1>1, <1>8, <2>1 DEF IInv, RoundKept
  <2>5. GroupKept'
    BY <1>1, <1>2, <1>5, <1>8, <2>1, <2>2 DEF IInv, GroupKept
  <2>6. KnownKept'
    BY <1>2, <1>7, <1>8 DEF KnownKept
  <2>7. QED
    BY <1>6, <2>3, <2>4, <2>5, <2>6 DEF IInv
<1>9. CASE GiveUp /\ doubt' = doubt \cup flush.inserts
  <2>1. /\ rounds' \in Seq(Round) /\ flush' \in FlushStates
        /\ wanted' \subseteq Item /\ skipped' \subseteq wanted' /\ doubt' \subseteq Item
    BY <1>3, <1>9, EndKeeps DEF GiveUp, IInv, TypeOK
  <2>2. TypeOK'
    BY <1>2, <1>4, <2>1 DEF IInv, TypeOK, FlushStates
  <2>3. KnownKept'
    BY <1>2, <1>7, <1>9 DEF KnownKept
  <2>4. QED
    BY <1>6, <1>9, <2>2, <2>3, EndKeeps DEF IInv, GiveUp
<1>10. QED
  BY <1>8, <1>9 DEF Insert

\* storeMany() is right about a group that is stored the way it is in memory.
LEMMA GroupDoneStep ==
  ASSUME IInv, flush.phase \in Persisting, GroupDone,
         UNCHANGED <<shape, value, transaction, rounds, flushes, wanted, skipped>>,
         stored' \in [Item -> Version \cup {Absent}],
         durable' \in [Item -> Version \cup {Absent}],
         doubt' \subseteq Item, doubt \subseteq doubt',
         \A i \in Group \ doubt' : Agree(stored'[i], value[i]),
         \A i \in Item \ Group : stored'[i] = stored[i]
  PROVE  IInv'
<1>1. flush \in FlushStates /\ flush.phase \in InRound
  BY DEF IInv, TypeOK, FlushStates, InRound
<1>2. /\ known' = [i \in Item |-> known[i] \/ i \in Group]
      /\ snapshot' = [i \in Item |-> IF i \in Group THEN value[i] ELSE snapshot[i]]
      /\ map' = map \cup Group
  BY DEF GroupDone, StoreMany
<1>3. /\ flush' \in FlushStates /\ flush'.phase = "groups" /\ flush'.round = flush.round
  <2>1. flush' = [Idle EXCEPT !.phase = "groups", !.round = flush.round, !.todo = flush.todo]
    BY DEF GroupDone
  <2>2. QED
    BY <1>1, <2>1, IdleType DEF FlushStates, Running
<1>4. TypeOK'
  <2>1. /\ known' \in [Item -> BOOLEAN] /\ snapshot' \in [Item -> Version \cup {Absent}]
        /\ map' \subseteq Item
    BY <1>2, GroupIsItems DEF IInv, TypeOK
  <2>2. QED
    BY <1>3, <2>1 DEF IInv, TypeOK, FlushStates
<1>5. MapKept'
  BY <1>2, GroupIsItems DEF IInv, MapKept, TypeOK
<1>6. KnownKept'
  BY <1>2 DEF IInv, KnownKept
<1>7. RoundKept' /\ flush'.phase \notin Persisting
  BY <1>1, <1>3 DEF IInv, RoundKept, Persisting
<1>8. QED
  BY <1>4, <1>5, <1>6, <1>7, OutsideStep

\* What is neither inserted nor changed is stored as it is in memory.
LEMMA UntouchedStored ==
  ASSUME IInv, flush.phase \in {"updates", "updatePre", "update"}
  PROVE  \A i \in Group \ (flush.updates \cup doubt) : Agree(stored[i], value[i])
<1>1. flush.phase \in Persisting
  BY DEF Persisting
<1>2. \A i \in Group \ (flush.inserts \cup flush.updates) : known[i] /\ Agree(snapshot[i], value[i])
  BY <1>1, GroupIsItems DEF IInv, GroupKept
<1>3. \A i \in flush.inserts \ doubt : Agree(stored[i], value[i])
  BY <1>1 DEF IInv, GroupKept
<1>4. QED
  BY <1>2, <1>3, GroupIsItems DEF IInv, KnownKept, Agree

LEMMA NextUpdateStep ==
  ASSUME IInv, shape' = shape, NextUpdate
  PROVE  IInv'
<1>1. /\ flush \in FlushStates /\ flush.phase = "updates"
      /\ flush.phase \in InRound /\ flush.phase \in Persisting
  BY DEF NextUpdate, IInv, TypeOK, FlushStates, InRound, Persisting
<1>2. UNCHANGED <<shape, value, stored, durable, transaction, rounds, flushes, doubt, wanted, skipped>>
  BY DEF NextUpdate
<1>3. CASE flush.updates = {}
  <2>1. \A i \in Group \ doubt : Agree(stored[i], value[i])
    BY <1>1, <1>3, UntouchedStored
  <2>2. QED
    BY <1>1, <1>2, <1>3, <2>1, GroupDoneStep DEF NextUpdate, IInv, TypeOK
<1>4. CASE flush.updates # {}
  <2>1. flush' = [flush EXCEPT !.phase = "updatePre"] /\ UNCHANGED <<known, snapshot, map>>
    BY <1>4 DEF NextUpdate
  <2>2. /\ flush' \in FlushStates /\ flush'.phase = "updatePre" /\ flush'.sent = flush.sent
        /\ flush'.round = flush.round /\ flush'.type = flush.type
        /\ flush'.inserts = flush.inserts /\ flush'.updates = flush.updates
    BY <1>1, <2>1 DEF FlushStates, Awaiting
  <2>3. Group' = Group
    BY <1>1, <1>2, <2>2 DEF Group, TypeOf
  <2>4. TypeOK' /\ MapKept' /\ KnownKept'
    BY <1>2, <2>1, <2>2, MemoryStep DEF IInv, TypeOK
  <2>5. RoundKept'
    BY <1>1, <1>2, <2>2 DEF IInv, RoundKept
  <2>6. GroupKept'
    BY <1>1, <1>2, <2>1, <2>2, <2>3 DEF IInv, GroupKept
  <2>7. QED
    BY <2>4, <2>5, <2>6 DEF IInv
<1>5. QED
  BY <1>3, <1>4

LEMMA UpdatePreStep ==
  ASSUME IInv, shape' = shape, UpdatePre
  PROVE  IInv'
<1>1. /\ flush \in FlushStates /\ flush.phase = "updatePre"
      /\ flush.phase \in InRound /\ flush.phase \in Persisting
  BY DEF UpdatePre, IInv, TypeOK, FlushStates, InRound, Persisting
<1>2. UNCHANGED <<shape, value, stored, durable, transaction, rounds, flushes, wanted, skipped>>
  BY DEF UpdatePre
<1>3. CASE flush' = [flush EXCEPT !.phase = "update"] /\ UNCHANGED <<known, snapshot, map, doubt>>
  <2>1. /\ flush' \in FlushStates /\ flush'.phase = "update" /\ flush'.sent = flush.sent
        /\ flush'.round = flush.round /\ flush'.type = flush.type
        /\ flush'.inserts = flush.inserts /\ flush'.updates = flush.updates
    BY <1>1, <1>3 DEF FlushStates, Awaiting
  <2>2. Group' = Group
    BY <1>1, <1>2, <2>1 DEF Group, TypeOf
  <2>3. TypeOK' /\ MapKept' /\ KnownKept'
    BY <1>2, <1>3, <2>1, MemoryStep DEF IInv, TypeOK
  <2>4. RoundKept'
    BY <1>1, <1>2, <2>1 DEF IInv, RoundKept
  <2>5. GroupKept'
    BY <1>1, <1>2, <1>3, <2>1, <2>2 DEF IInv, GroupKept
  <2>6. QED
    BY <2>3, <2>4, <2>5 DEF IInv
<1>4. CASE GroupDone /\ doubt' = doubt \cup flush.updates
  <2>1. \A i \in Group \ doubt' : Agree(stored[i], value[i])
    BY <1>1, <1>4, UntouchedStored
  <2>2. doubt' \subseteq Item
    BY <1>1, <1>4 DEF FlushStates, IInv, TypeOK
  <2>3. QED
    BY <1>1, <1>2, <1>4, <2>1, <2>2, GroupDoneStep DEF IInv, TypeOK
<1>5. QED
  BY <1>3, <1>4 DEF UpdatePre

\* Every changed entity is stored, as it is known, and the UPDATE finds it.
LEMMA UpdateStep ==
  ASSUME IInv, shape' = shape, Update
  PROVE  IInv'
<1> DEFINE items == {i \in flush.updates : stored[i] # Absent}
<1>1. /\ flush \in FlushStates /\ flush.phase = "update"
      /\ flush.phase \in InRound /\ flush.phase \in Persisting
  BY DEF Update, IInv, TypeOK, FlushStates, InRound, Persisting
<1>2. UNCHANGED <<shape, value, transaction, flushes>>
  BY DEF Update
<1>3. /\ flush.updates \subseteq Item /\ flush.sent \in [Item -> Version \cup {Absent}]
      /\ flush.updates \subseteq Group \ flush.inserts
      /\ flush.inserts = {i \in Group : ~known[i]}
      /\ \A i \in flush.updates : Agree(flush.sent[i], value[i])
  BY <1>1 DEF FlushStates, IInv, GroupKept
<1>4. /\ stored' = [i \in Item |-> IF i \in items THEN flush.sent[i] ELSE stored[i]]
      /\ stored' \in [Item -> Version \cup {Absent}]
      /\ durable' \in [Item -> Version \cup {Absent}]
  <2>1. Write(items, flush.sent) /\ TypeOK
    BY DEF Update, IInv
  <2>2. \A i \in items \cap Item : flush.sent[i] \in Version \cup {Absent}
    BY <1>3
  <2>3. /\ stored' \in [Item -> Version \cup {Absent}]
        /\ durable' \in [Item -> Version \cup {Absent}]
    BY <2>1, <2>2, WriteType
  <2>4. QED
    BY <2>1, <2>3 DEF Write
<1>5. \A i \in flush.updates \ doubt : i \in items
  <2>1. \A i \in flush.updates \ doubt : known[i] /\ Agree(stored[i], snapshot[i])
    BY <1>3 DEF IInv, KnownKept
  <2>2. QED
    BY <1>3, <2>1, SessionAssumption DEF Agree
<1>6. \A i \in Group \ doubt : Agree(stored'[i], value[i])
  <2>1. \A i \in flush.updates \ doubt : Agree(stored'[i], value[i])
    BY <1>3, <1>4, <1>5
  <2>2. \A i \in Group \ (flush.updates \cup doubt) : stored'[i] = stored[i]
    BY <1>4, GroupIsItems
  <2>3. QED
    BY <1>1, <2>1, <2>2, UntouchedStored
<1>7. \A i \in Item \ Group : stored'[i] = stored[i]
  BY <1>3, <1>4
<1>8. CASE GroupDone /\ UNCHANGED <<rounds, doubt, wanted, skipped>>
  BY <1>1, <1>2, <1>4, <1>6, <1>7, <1>8, GroupDoneStep DEF IInv, TypeOK
<1>9. CASE /\ GiveUp /\ doubt' = doubt \cup Group
           /\ UNCHANGED <<known, snapshot, map>>
  <2>1. /\ rounds' \in Seq(Round) /\ flush' \in FlushStates
        /\ wanted' \subseteq Item /\ skipped' \subseteq wanted' /\ doubt' \subseteq Item
    BY <1>9, EndKeeps, GroupIsItems DEF GiveUp, IInv, TypeOK
  <2>2. TypeOK'
    BY <1>2, <1>4, <1>9, <2>1 DEF IInv, TypeOK, FlushStates
  <2>3. MapKept'
    BY <1>9 DEF IInv, MapKept
  <2>4. KnownKept'
    BY <1>7, <1>9 DEF IInv, KnownKept
  <2>5. QED
    BY <1>9, <2>2, <2>3, <2>4, EndKeeps DEF IInv, GiveUp
<1>10. QED
  BY <1>8, <1>9 DEF Update

LEMMA FailStep ==
  ASSUME IInv, shape' = shape, Fail
  PROVE  IInv'
<1>1. doubt' \subseteq Item /\ doubt \subseteq doubt'
  BY DEF Fail, IInv, TypeOK
<1>2. QED
  BY <1>1, GiveUpStep DEF Fail

---------------------------------------------------------------------------
\* Transactions between two flushes.

\* A step while no flush() runs.
LEMMA IdleStep ==
  ASSUME IInv, flush.phase = "idle",
         UNCHANGED <<shape, value, known, snapshot, map, flush, flushes>>,
         TypeOK', KnownKept'
  PROVE  IInv'
<1>1. MapKept'
  BY DEF IInv, MapKept
<1>2. RoundKept' /\ flush'.phase \notin Persisting
  BY DEF RoundKept, InRound, Persisting
<1>3. QED
  BY <1>1, <1>2, OutsideStep

LEMMA TransactionStep ==
  ASSUME IInv, shape' = shape, UseTransaction \/ CommitTransaction \/ Rollback \/ Reset
  PROVE  IInv'
<1>1. CASE UseTransaction
  BY <1>1, IdleStep DEF UseTransaction, IInv, TypeOK, KnownKept
<1>2. CASE CommitTransaction
  BY <1>2, IdleStep DEF CommitTransaction, IInv, TypeOK, KnownKept
<1>3. CASE Rollback
  <2>1. stored' = durable /\ doubt' = doubt \cup {i \in Item : stored[i] # durable[i]}
    BY <1>3 DEF Rollback
  <2>2. KnownKept'
    BY <1>3, <2>1 DEF Rollback, IInv, KnownKept
  <2>3. TypeOK'
    BY <1>3 DEF Rollback, IInv, TypeOK
  <2>4. QED
    BY <1>3, <2>2, <2>3, IdleStep DEF Rollback
<1>4. CASE Reset
  <2>1. rounds' \in Seq(Round) /\ wanted' \subseteq Item /\ skipped' \subseteq wanted'
    BY <1>4 DEF Reset
  <2>2. UNCHANGED <<shape, value, known, snapshot, map, stored, durable, transaction,
                    flush, flushes, doubt>>
    BY <1>4 DEF Reset
  <2>3. TypeOK' /\ KnownKept'
    BY <2>1, <2>2 DEF IInv, TypeOK, KnownKept
  <2>4. QED
    BY <1>4, <2>2, <2>3, IdleStep DEF Reset
<1>5. QED
  BY <1>1, <1>2, <1>3, <1>4

---------------------------------------------------------------------------
LEMMA InitKept == Init => IInv
<1> SUFFICES ASSUME Init PROVE IInv
  OBVIOUS
<1>1. rounds = <<>> /\ flush = Idle /\ flush.phase = "idle"
  BY DEF Init, Idle
<1>2. TypeOK
  <2>1. flush \in FlushStates
    BY <1>1, IdleType
  <2>2. value \in [Item -> Version]
    <3>1. PICK v \in Version : value = [i \in Item |-> v]
      BY DEF Init
    <3>2. QED
      BY <3>1
  <2>3. rounds \in Seq(Round) /\ flushes \in Nat /\ transaction \in BOOLEAN
    <3>1. transaction \in BOOLEAN
      BY DEF Init
    <3>2. rounds \in Seq(Round) /\ flushes \in Nat
      BY <1>1 DEF Init
    <3>3. QED
      BY <3>1, <3>2
  <2>4. /\ known \in [Item -> BOOLEAN] /\ map \subseteq Item
        /\ snapshot \in [Item -> Version \cup {Absent}]
        /\ stored \in [Item -> Version \cup {Absent}] /\ durable = stored
    BY DEF Init
  <2>5. shape \in Shapes /\ doubt = {} /\ wanted = {} /\ skipped = {}
    BY DEF Init
  <2>6. QED
    BY <2>1, <2>2, <2>3, <2>4, <2>5 DEF TypeOK, FlushStates
<1>3. MapKept /\ RoundKept /\ GroupKept /\ KnownKept
  BY <1>1 DEF Init, MapKept, RoundKept, GroupKept, KnownKept, InRound, Persisting
<1>4. QED
  BY <1>2, <1>3 DEF IInv

LEMMA StutterKept == IInv /\ UNCHANGED vars => IInv'
<1> SUFFICES ASSUME IInv, UNCHANGED vars PROVE IInv'
  OBVIOUS
<1>1. TypeOK'
  BY DEF vars, IInv, TypeOK
<1>2. MapKept' /\ RoundKept' /\ KnownKept'
  BY DEF vars, IInv, MapKept, RoundKept, KnownKept
<1>3. Group' = Group
  BY DEF vars, Group, TypeOf
<1>4. GroupKept'
  BY <1>3 DEF vars, IInv, GroupKept
<1>5. QED
  BY <1>1, <1>2, <1>4 DEF IInv

LEMMA NextKept ==
  ASSUME IInv, Next
  PROVE  IInv'
<1>1. shape' = shape
  BY DEF Next
<1>2. ASSUME NEW i \in Item, Add(i) \/ Remove(i) \/ Modify(i) PROVE IInv'
  BY <1>1, <1>2, AddStep, RemoveStep, ModifyStep
<1>3. CASE Flush \/ CommitPre \/ NextRound \/ NextDelete \/ DeletePre \/ Delete
  BY <1>1, <1>3, FlushStep, CommitPreStep, NextRoundStep, NextDeleteStep, DeletePreStep,
     DeleteStep
<1>4. CASE NextGroup \/ InsertPre \/ Insert \/ NextUpdate \/ UpdatePre \/ Update \/ Fail
  BY <1>1, <1>4, NextGroupStep, InsertPreStep, InsertStep, NextUpdateStep, UpdatePreStep,
     UpdateStep, FailStep
<1>5. CASE UseTransaction \/ CommitTransaction \/ Rollback \/ Reset
  BY <1>1, <1>5, TransactionStep
<1>6. QED
  BY <1>2, <1>3, <1>4, <1>5 DEF Next, Step

\* While the application leaves alone what a flush is persisting, the snapshot
\* of a known entity is what the database holds, so that change detection
\* (DatabaseSessionRound.doPersist) compares with the truth, for any entities,
\* references, rounds, failures and transactions.
THEOREM SnapshotsAreStored == Quiet => (Spec => []SnapshotIsStored)
<1> SUFFICES ASSUME Quiet PROVE Spec => []SnapshotIsStored
  OBVIOUS
<1>1. IInv /\ [Next]_vars => IInv'
  BY NextKept, StutterKept
<1>2. IInv => SnapshotIsStored
  BY DEF IInv, KnownKept, SnapshotIsStored, Agree
<1>3. QED
  BY <1>1, <1>2, InitKept, PTL DEF Spec

---------------------------------------------------------------------------
\* What the session does not know is not stored, unless flush() has just
\* inserted it.
Late == {"updates", "updatePre", "update"}

UnknownKept ==
  \A i \in Item \ doubt :
    ~known[i] => stored[i] = Absent \/ (flush.phase \in Late /\ i \in flush.inserts)

\* Steps that leave the entities' states and the database alone.
LEMMA UnknownCalm ==
  ASSUME UnknownKept, UNCHANGED <<known, stored>>, doubt \subseteq doubt',
         flush.phase \in Late =>
           \A i \in flush.inserts \ doubt' : flush'.phase \in Late /\ i \in flush'.inserts
  PROVE  UnknownKept'
BY DEF UnknownKept

\* Steps of flush() that take or leave a group, and those around them.
LEMMA UnknownFlush ==
  ASSUME IInv, UnknownKept,
         Flush \/ CommitPre \/ NextRound \/ NextDelete \/ DeletePre \/ NextGroup
           \/ InsertPre \/ Fail
  PROVE  UnknownKept'
<1>1. CASE Flush \/ CommitPre \/ NextRound \/ NextDelete \/ DeletePre \/ NextGroup
  <2>1. flush.phase \notin Late /\ UNCHANGED <<known, stored, doubt>>
    BY <1>1 DEF Flush, CommitPre, NextRound, NextDelete, DeletePre, NextGroup, Late
  <2>2. QED
    BY <2>1, UnknownCalm
<1>2. CASE InsertPre
  <2>1. flush.phase \notin Late /\ UNCHANGED <<known, stored>> /\ doubt \subseteq doubt'
    BY <1>2 DEF InsertPre, Late
  <2>2. QED
    BY <2>1, UnknownCalm
<1>3. CASE Fail
  <2>1. UNCHANGED <<known, stored>> /\ doubt \subseteq doubt'
    BY <1>3 DEF Fail
  <2>2. flush.phase \in Late => flush.inserts \subseteq doubt'
    BY <1>3 DEF Fail, Late, Awaiting
  <2>3. QED
    BY <2>1, <2>2, UnknownCalm
<1>4. QED
  BY <1>1, <1>2, <1>3

LEMMA UnknownGroupDone ==
  ASSUME IInv, UnknownKept, flush.phase \in Late, GroupDone, doubt \subseteq doubt',
         \A i \in Item : stored[i] = Absent => stored'[i] = Absent
  PROVE  UnknownKept'
<1>1. flush.inserts \subseteq Group
  BY DEF IInv, GroupKept, Late, Persisting
<1>2. known' = [i \in Item |-> known[i] \/ i \in Group]
  BY DEF GroupDone, StoreMany
<1>3. \A i \in Item : ~known'[i] => ~known[i] /\ i \notin flush.inserts
  BY <1>1, <1>2
<1>4. QED
  BY <1>3 DEF UnknownKept

LEMMA UnknownWrites ==
  ASSUME IInv, UnknownKept, Delete \/ Insert \/ NextUpdate \/ UpdatePre \/ Update
  PROVE  UnknownKept'
<1>1. CASE Delete
  <2> DEFINE items == {i \in rounds[flush.round].remove : TypeOf[i] = flush.type}
  <2>1. /\ stored' = [i \in Item |-> IF i \in items THEN Absent ELSE stored[i]]
        /\ known' = [i \in Item |-> known[i] /\ i \notin items \cap map]
        /\ doubt' = doubt \ items /\ flush.phase \notin Late
    BY <1>1 DEF Delete, Write, Forget, Late
  <2> HIDE DEF items
  <2>2. \A i \in Item : i \in items => stored'[i] = Absent
    BY <2>1
  <2>3. \A i \in Item : i \notin items => stored'[i] = stored[i] /\ known'[i] = known[i]
    BY <2>1 DEF IInv, TypeOK
  <2>4. QED
    BY <2>1, <2>2, <2>3 DEF UnknownKept
<1>2. CASE Insert
  <2>1. /\ stored' = [i \in Item |-> IF i \in flush.inserts THEN flush.sent[i] ELSE stored[i]]
        /\ UNCHANGED known /\ flush.phase \notin Late
    BY <1>2 DEF Insert, Write, Late
  <2>2. doubt' = doubt \cup flush.inserts
          \/ (UNCHANGED doubt /\ flush'.phase \in Late /\ flush'.inserts = flush.inserts)
    BY <1>2 DEF Insert, Late, IInv, TypeOK
  <2>3. QED
    BY <2>1, <2>2 DEF UnknownKept
<1>3. CASE NextUpdate
  <2>1. flush.phase \in Late /\ UNCHANGED <<stored, doubt>>
    BY <1>3 DEF NextUpdate, Late
  <2>2. CASE GroupDone
    BY <2>1, <2>2, UnknownGroupDone
  <2>3. CASE ~GroupDone
    <3>1. /\ flush' = [flush EXCEPT !.phase = "updatePre"]
          /\ UNCHANGED <<known, snapshot, map>>
      BY <1>3, <2>3 DEF NextUpdate
    <3>2. flush'.phase \in Late /\ flush'.inserts = flush.inserts
      BY <3>1 DEF Late, IInv, TypeOK
    <3>3. QED
      BY <2>1, <3>1, <3>2, UnknownCalm
  <2>4. QED
    BY <2>2, <2>3
<1>4. CASE UpdatePre
  <2>1. flush.phase \in Late /\ UNCHANGED stored /\ doubt \subseteq doubt'
    BY <1>4 DEF UpdatePre, Late
  <2>2. CASE GroupDone
    BY <2>1, <2>2, UnknownGroupDone
  <2>3. CASE ~GroupDone
    <3>1. flush' = [flush EXCEPT !.phase = "update"] /\ UNCHANGED known
      BY <1>4, <2>3 DEF UpdatePre
    <3>2. flush'.phase \in Late /\ flush'.inserts = flush.inserts
      BY <3>1 DEF Late, IInv, TypeOK
    <3>3. QED
      BY <2>1, <3>1, <3>2, UnknownCalm
  <2>4. QED
    BY <2>2, <2>3
<1>5. CASE Update
  <2>1. flush.phase \in Late /\ flush.phase \in Persisting /\ doubt \subseteq doubt'
    BY <1>5 DEF Update, Late, Persisting
  <2>2. \A i \in Item : stored[i] = Absent => stored'[i] = Absent
    BY <1>5 DEF Update, Write
  <2>3. CASE GroupDone
    BY <2>1, <2>2, <2>3, UnknownGroupDone
  <2>4. CASE ~GroupDone
    <3>1. doubt' = doubt \cup Group /\ UNCHANGED known
      BY <1>5, <2>4 DEF Update
    <3>2. flush.inserts \subseteq Group
      BY <2>1 DEF IInv, GroupKept
    <3>3. QED
      BY <2>2, <3>1, <3>2 DEF UnknownKept
  <2>5. QED
    BY <2>3, <2>4
<1>6. QED
  BY <1>1, <1>2, <1>3, <1>4, <1>5

LEMMA UnknownStep ==
  ASSUME IInv, UnknownKept, Next
  PROVE  UnknownKept'
<1>1. ASSUME NEW i \in Item, Add(i) \/ Remove(i) \/ Modify(i) PROVE UnknownKept'
  BY <1>1, UnknownCalm DEF Add, Remove, Modify
<1>2. CASE Flush \/ CommitPre \/ NextRound \/ NextDelete \/ DeletePre \/ NextGroup
             \/ InsertPre \/ Fail
  BY <1>2, UnknownFlush
<1>3. CASE Delete \/ Insert \/ NextUpdate \/ UpdatePre \/ Update
  BY <1>3, UnknownWrites
<1>4. CASE UseTransaction \/ CommitTransaction \/ Reset
  BY <1>4, UnknownCalm DEF UseTransaction, CommitTransaction, Reset
<1>5. CASE Rollback
  <2>1. /\ stored' = durable /\ UNCHANGED known /\ flush.phase \notin Late
        /\ doubt' = doubt \cup {i \in Item : stored[i] # durable[i]}
    BY <1>5 DEF Rollback, Late
  <2>2. QED
    BY <2>1 DEF UnknownKept
<1>6. QED
  BY <1>1, <1>2, <1>3, <1>4, <1>5 DEF Next, Step

\* An INSERT of a session names no entity that is stored already, unless a
\* listener or a failure has left the session in doubt about it, whatever the
\* application changes while the flush runs (DatabaseSessionRound.doPersist).
THEOREM NothingInsertedTwice == Spec => NoDoubleInsert
<1>1. Init => UnknownKept
  BY DEF Init, UnknownKept
<1>2. IInv /\ [Next]_vars => IInv'
  BY NextKept, StutterKept
<1>3. IInv /\ UnknownKept /\ [Next]_vars => UnknownKept'
  BY UnknownStep, UnknownCalm DEF vars
<1>4. IInv /\ UnknownKept /\ [Next]_vars =>
        [Insert => \A i \in flush.inserts \ doubt : stored[i] = Absent]_vars
  <2> SUFFICES ASSUME IInv, UnknownKept, Insert
               PROVE  \A i \in flush.inserts \ doubt : stored[i] = Absent
    OBVIOUS
  <2>1. flush.phase = "insert" /\ flush.phase \in Persisting /\ flush.phase \notin Late
    BY DEF Insert, Persisting, Late
  <2>2. \A i \in flush.inserts : i \in Item /\ ~known[i]
    BY <2>1, GroupIsItems DEF IInv, GroupKept
  <2>3. QED
    BY <2>1, <2>2 DEF UnknownKept
<1>5. QED
  BY <1>1, <1>2, <1>3, <1>4, InitKept, PTL DEF Spec, NoDoubleInsert

---------------------------------------------------------------------------
\* What was added and not removed since is stored, or a round that is still to
\* come inserts it.
Deleting == {"deletes", "deletePre", "delete"}

\* The round in work will still insert the entity, if it is not known.
Ahead(i) ==
  /\ flush.phase \in InRound
  /\ i \in rounds[flush.round].add
  /\ \/ flush.phase \in Deleting
     \/ TypeOf[i] \in flush.todo
     \/ flush.phase \in {"insertPre", "insert"} /\ TypeOf[i] = flush.type

\* A round after it holds the entity.
Queued(i) == \E r \in DOMAIN rounds : r > flush.round /\ i \in rounds[r].add

\* Between two flushes no round is in work.
Begins == flush.phase \in {"idle", "commitPre"} => flush.round = 0

\* A round does not add what it removes.
Disjoint == \A r \in DOMAIN rounds : rounds[r].add \cap rounds[r].remove = {}

\* What was added and not removed since, and not skipped by a round that
\* removes it.
Accepted == wanted \ skipped

\* What a round removes and is wanted all the same was added to a later one.
Requeued ==
  \A i \in Accepted : \A r \in DOMAIN rounds :
    i \in rounds[r].remove => \E q \in DOMAIN rounds : q > r /\ i \in rounds[q].add

WantedKept == \A i \in Accepted \ doubt : stored[i] # Absent \/ Ahead(i) \/ Queued(i)

LInv == Begins /\ Disjoint /\ Requeued /\ WantedKept

\* The rounds add(), remove() and flush() queue in: what was there, and
\* nothing in the new one.
Grown(rs) ==
  /\ rs \in Seq(Round) /\ rs # <<>>
  /\ Len(rs) > flush.round
  /\ \A r \in DOMAIN rounds : r \in DOMAIN rs /\ rs[r] = rounds[r]
  /\ \A r \in DOMAIN rs \ DOMAIN rounds : rs[r] = Open

LEMMA EnteredGrown ==
  ASSUME IInv, flush.round = 0
  PROVE  Grown(Entered(rounds))
<1>1. CASE rounds = <<>>
  <2>1. Entered(rounds) = <<Open>>
    BY <1>1 DEF Entered
  <2>2. /\ <<Open>> \in Seq(Round) /\ <<Open>> # <<>> /\ Len(<<Open>>) = 1
        /\ DOMAIN <<Open>> = {1} /\ <<Open>>[1] = Open
    BY OpenIsRound
  <2>3. QED
    BY <1>1, <2>1, <2>2 DEF Grown
<1>2. CASE rounds # <<>>
  BY <1>2 DEF Grown, Entered, IInv, TypeOK
<1>3. QED
  BY <1>1, <1>2

LEMMA CurrentGrown ==
  ASSUME IInv, Begins, Application
  PROVE  Grown(Current)
<1> DEFINE rs == Entered(rounds)
<1>1. CASE flush.phase \in {"idle", "commitPre"}
  <2>1. flush.round = 0 /\ Grown(rs)
    BY <1>1, EnteredGrown DEF Begins
  <2>2. Current = rs \/ Current = Append(rs, Open)
    BY DEF Current
  <2>3. CASE Current = Append(rs, Open)
    <3> HIDE DEF rs
    <3>1. /\ Append(rs, Open) \in Seq(Round) /\ Append(rs, Open) # <<>>
          /\ Len(Append(rs, Open)) = Len(rs) + 1
      BY <2>1, OpenIsRound DEF Grown
    <3>2. \A r \in DOMAIN rs : r \in DOMAIN Append(rs, Open) /\ Append(rs, Open)[r] = rs[r]
      BY <2>1, OpenIsRound DEF Grown
    <3>3. \A r \in DOMAIN Append(rs, Open) \ DOMAIN rs : Append(rs, Open)[r] = Open
      BY <2>1, OpenIsRound DEF Grown
    <3>4. QED
      BY <2>1, <2>3, <3>1, <3>2, <3>3 DEF Grown
  <2>4. QED
    BY <2>1, <2>2, <2>3
<1>2. CASE flush.phase \notin {"idle", "commitPre"}
  <2>1. flush.phase \in InRound
    BY <1>2 DEF Application, Awaiting, InRound, Persisting
  <2>2. rounds \in Seq(Round) /\ flush.round \in DOMAIN rounds /\ rounds # <<>> /\ rs = rounds
    BY <2>1 DEF IInv, TypeOK, RoundKept, Entered
  <2>3. Current \in Seq(Round) /\ Current # <<>> /\ flush.round \in DOMAIN Current
        /\ flush.round # Len(Current)
    BY <2>1, CurrentIsRounds
  <2>4. Len(Current) > flush.round
    BY <2>3
  <2>5. Current = rounds \/ Current = Append(rounds, Open)
    BY <2>2 DEF Current
  <2>6. /\ \A r \in DOMAIN rounds : r \in DOMAIN Current /\ Current[r] = rounds[r]
        /\ \A r \in DOMAIN Current \ DOMAIN rounds : Current[r] = Open
    BY <2>2, <2>5, OpenIsRound
  <2>7. QED
    BY <2>3, <2>4, <2>6 DEF Grown
<1>3. QED
  BY <1>1, <1>2

\* A round that takes entities in or out keeps what is wanted in it.
LEMMA QueueKept ==
  ASSUME IInv, LInv, NEW rs, Grown(rs), NEW round \in Round, rounds' = Changed(rs, round),
         round.add \cap round.remove = {},
         \A j \in Accepted \cap Accepted' : /\ j \in Last(rs).add => j \in round.add
                                            /\ j \in round.remove => j \in Last(rs).remove,
         \A j \in Accepted' \ Accepted : j \in round.add,
         UNCHANGED <<shape, stored, doubt>>, flush'.round = flush.round, Begins',
         flush' = flush \/ flush.phase = "idle"
  PROVE  LInv'
<1> DEFINE n == Len(rs)
<1>1. /\ rs \in Seq(Round) /\ n \in Nat /\ n \in DOMAIN rs /\ n > flush.round
      /\ DOMAIN rounds' = DOMAIN rs
      /\ rounds'[n] = round
      /\ \A r \in DOMAIN rs : r # n => rounds'[r] = rs[r]
      /\ DOMAIN rs = 1 .. n
      /\ rounds \in Seq(Round)
  BY DEF Grown, Changed, IInv, TypeOK
<1>2. /\ \A r \in DOMAIN rounds : r \in DOMAIN rs /\ rs[r] = rounds[r]
      /\ \A r \in DOMAIN rs : r \notin DOMAIN rounds => rs[r].add = {} /\ rs[r].remove = {}
      /\ Last(rs) = rs[n]
  BY DEF Grown, Open, Last
<1> HIDE DEF n
<1>3. \A r \in DOMAIN rs : rs[r].add \cap rs[r].remove = {}
  BY <1>2 DEF LInv, Disjoint
<1>4. Disjoint'
  BY <1>1, <1>3 DEF Disjoint
<1>5. \A j \in Accepted \cap Accepted', r \in DOMAIN rounds : j \in rounds[r].add => j \in rounds'[r].add
  BY <1>1, <1>2
<1>6. Requeued'
  <2> SUFFICES ASSUME NEW j \in Accepted', NEW r \in DOMAIN rounds', j \in rounds'[r].remove
               PROVE  \E q \in DOMAIN rounds' : q > r /\ j \in rounds'[q].add
    BY DEF Requeued
  <2>1. CASE j \notin Accepted
    <3>1. r # n
      BY <1>1, <2>1
    <3>2. QED
      BY <1>1, <2>1, <3>1
  <2>2. CASE j \in Accepted
    <3>1. j \in rs[r].remove
      BY <1>1, <1>2, <2>2
    <3>2. r \in DOMAIN rounds /\ j \in rounds[r].remove
      BY <1>1, <1>2, <3>1
    <3>3. PICK q \in DOMAIN rounds : q > r /\ j \in rounds[q].add
      BY <2>2, <3>2 DEF LInv, Requeued
    <3>4. q \in DOMAIN rounds' /\ j \in rounds'[q].add
      BY <1>1, <1>2, <1>5, <2>2, <3>3
    <3>5. QED
      BY <3>3, <3>4
  <2>3. QED
    BY <2>1, <2>2
<1>7. WantedKept'
  <2> SUFFICES ASSUME NEW j \in Accepted' \ doubt, stored[j] = Absent
               PROVE  Ahead(j)' \/ Queued(j)'
    BY DEF WantedKept
  <2>1. CASE j \notin Accepted
    BY <1>1, <2>1 DEF Queued
  <2>2. CASE j \in Accepted /\ Queued(j)
    <3>1. PICK r \in DOMAIN rounds : r > flush.round /\ j \in rounds[r].add
      BY <2>2 DEF Queued
    <3>2. r \in DOMAIN rounds' /\ j \in rounds'[r].add
      BY <1>1, <1>2, <1>5, <2>2, <3>1
    <3>3. QED
      BY <3>1, <3>2 DEF Queued
  <2>3. CASE j \in Accepted /\ Ahead(j)
    <3>1. flush' = flush /\ flush.round \in DOMAIN rounds
      BY <2>3 DEF Ahead, InRound, Persisting, IInv, RoundKept
    <3>2. j \in rounds'[flush.round].add
      BY <1>5, <2>3, <3>1 DEF Ahead
    <3>3. QED
      BY <2>3, <3>1, <3>2 DEF Ahead, TypeOf
  <2>4. QED
    BY <2>1, <2>2, <2>3 DEF LInv, WantedKept
<1>8. QED
  BY <1>4, <1>6, <1>7 DEF LInv

LEMMA RoundAddKeeps ==
  ASSUME NEW round \in Round, NEW items, round.add \cap round.remove = {}
  PROVE  /\ round.add \subseteq RoundAdd(round, items).add
         /\ RoundAdd(round, items).remove = round.remove
         /\ RoundAdd(round, items).add \cap RoundAdd(round, items).remove = {}
<1> DEFINE new == items \ (round.remove \cup round.add)
           all == round.add \cup new \cup ((UNION {Refs[i] : i \in new}) \ round.remove)
<1>1. RoundAdd(round, items) = [round EXCEPT !.add = all]
  BY DEF RoundAdd
<1>2. round.add \subseteq all /\ all \cap round.remove = {}
  OBVIOUS
<1> HIDE DEF all
<1>3. [round EXCEPT !.add = all].add = all /\ [round EXCEPT !.add = all].remove = round.remove
  BY DEF Round
<1>4. QED
  BY <1>1, <1>2, <1>3

LEMMA LastDisjoint ==
  ASSUME Disjoint, NEW rs, Grown(rs)
  PROVE  Last(rs) \in Round /\ Last(rs).add \cap Last(rs).remove = {}
BY DEF Disjoint, Grown, Last, Open

\* The steps of the application, and flush() with what it queues.
LEMMA LostQueue ==
  ASSUME IInv, LInv, shape' = shape,
         (\E i \in Item : Add(i) \/ Remove(i) \/ Modify(i)) \/ Flush
  PROVE  LInv'
<1>1. ASSUME NEW i \in Item, Add(i) PROVE LInv'
  <2> DEFINE round == RoundAdd(Last(Current), {i})
  <2>1. Grown(Current)
    BY <1>1, CurrentGrown DEF LInv, Add
  <2>2. Last(Current) \in Round /\ Last(Current).add \cap Last(Current).remove = {}
    BY <2>1, LastDisjoint DEF LInv
  <2>3. round \in Round
    BY <2>2, RoundAddIsRound DEF IInv
  <2>4. /\ Last(Current).add \subseteq round.add /\ round.remove = Last(Current).remove
        /\ round.add \cap round.remove = {}
    BY <2>2, RoundAddKeeps
  <2>5. /\ rounds' = Changed(Current, round) /\ Accepted' \subseteq Accepted \cup round.add
        /\ UNCHANGED <<shape, stored, doubt, flush>>
    BY <1>1 DEF Add, Accepted
  <2> HIDE DEF round
  <2>6. Begins'
    BY <2>5 DEF LInv, Begins
  <2>7. QED
    BY <2>1, <2>3, <2>4, <2>5, <2>6, QueueKept
<1>2. ASSUME NEW i \in Item, Remove(i) PROVE LInv'
  <2> DEFINE round == RoundRemove(Last(Current), i)
  <2>1. Grown(Current)
    BY <1>2, CurrentGrown DEF LInv, Remove
  <2>2. Last(Current) \in Round /\ Last(Current).add \cap Last(Current).remove = {}
    BY <2>1, LastDisjoint DEF LInv
  <2>3. round \in Round
    BY <2>2, RoundRemoveIsRound
  <2>4. round.add = Last(Current).add \ {i} /\ round.remove = Last(Current).remove \cup {i}
    BY <2>2 DEF RoundRemove, Round
  <2>5. /\ rounds' = Changed(Current, round) /\ Accepted' = Accepted \ {i}
        /\ UNCHANGED <<shape, stored, doubt, flush>>
    BY <1>2 DEF Remove, Accepted
  <2> HIDE DEF round
  <2>6. Begins'
    BY <2>5 DEF LInv, Begins
  <2>7. QED
    BY <2>1, <2>2, <2>3, <2>4, <2>5, <2>6, QueueKept
<1>3. ASSUME NEW i \in Item, Modify(i) PROVE LInv'
  BY <1>3 DEF Modify, Accepted, LInv, Begins, Disjoint, Requeued, WantedKept, Ahead, Queued, TypeOf
<1>4. CASE Flush
  <2> DEFINE rs == Entered(rounds)
             round == RoundAdd(Last(rs), map)
  <2>1. flush.phase = "idle" /\ flush.round = 0
    BY <1>4 DEF Flush, LInv, Begins
  <2>2. Grown(rs)
    BY <2>1, EnteredGrown
  <2>3. Last(rs) \in Round /\ Last(rs).add \cap Last(rs).remove = {}
    BY <2>2, LastDisjoint DEF LInv
  <2>4. round \in Round
    BY <2>3, RoundAddIsRound DEF IInv, TypeOK
  <2>5. /\ Last(rs).add \subseteq round.add /\ round.remove = Last(rs).remove
        /\ round.add \cap round.remove = {}
    BY <2>3, RoundAddKeeps
  <2>6. /\ rounds' = Changed(rs, round) /\ flush' = [flush EXCEPT !.phase = "commitPre"]
        /\ UNCHANGED <<shape, stored, doubt, Accepted>>
    BY <1>4 DEF Flush, Accepted
  <2> HIDE DEF round, rs
  <2>7. flush'.round = flush.round /\ Begins'
    BY <2>1, <2>6 DEF Begins, IInv, TypeOK
  <2>8. QED
    BY <2>1, <2>2, <2>4, <2>5, <2>6, <2>7, QueueKept
<1>5. QED
  BY <1>1, <1>2, <1>3, <1>4

---------------------------------------------------------------------------
\* A step of flush() that leaves the queues as they are and says what becomes
\* of an entity the round in work was about to insert.
LEMMA LostWithin ==
  ASSUME LInv, Begins', flush'.round = flush.round, Accepted' = Accepted,
         DOMAIN rounds' = DOMAIN rounds,
         \A r \in DOMAIN rounds :
           rounds'[r].add = rounds[r].add /\ rounds'[r].remove = rounds[r].remove,
         \A i \in Accepted \ doubt' :
           Queued(i) \/ (/\ i \notin doubt
                         /\ stored[i] # Absent \/ Ahead(i) => stored'[i] # Absent \/ Ahead(i)')
  PROVE  LInv'
<1>1. Disjoint' /\ Requeued'
  BY DEF LInv, Disjoint, Requeued
<1>2. \A i : Queued(i) => Queued(i)'
  BY DEF Queued
<1>3. WantedKept'
  BY <1>2 DEF LInv, WantedKept
<1>4. QED
  BY <1>1, <1>3 DEF LInv

\* flush() ends when nothing is queued any more, or gives all of it up.
LEMMA LostEnd ==
  ASSUME End, Accepted' = {} \/ \A i \in Accepted' \ doubt' : stored'[i] # Absent
  PROVE  LInv'
<1>1. rounds' = <<>> /\ flush'.round = 0
  BY DEF End, Idle
<1>2. QED
  BY <1>1 DEF LInv, Begins, Disjoint, Requeued, WantedKept

\* Replacing the state of a round leaves its queues alone.
LEMMA StateOnly ==
  ASSUME IInv, NEW n \in DOMAIN rounds, NEW st,
         rounds' = [rounds EXCEPT ![n].state = st]
  PROVE  /\ DOMAIN rounds' = DOMAIN rounds
         /\ \A r \in DOMAIN rounds :
              rounds'[r].add = rounds[r].add /\ rounds'[r].remove = rounds[r].remove
<1>1. rounds \in Seq(Round)
  BY DEF IInv, TypeOK
<1>2. \A r \in DOMAIN rounds : rounds[r] \in Round
  BY <1>1
<1>3. rounds' = [rounds EXCEPT ![n] = [rounds[n] EXCEPT !.state = st]]
  OBVIOUS
<1>4. /\ [rounds[n] EXCEPT !.state = st].add = rounds[n].add
      /\ [rounds[n] EXCEPT !.state = st].remove = rounds[n].remove
  BY <1>2 DEF Round
<1>5. DOMAIN rounds' = DOMAIN rounds
  BY <1>1, <1>3
<1>6. \A r \in DOMAIN rounds : rounds'[r] = IF r = n THEN [rounds[n] EXCEPT !.state = st] ELSE rounds[r]
  BY <1>1, <1>3
<1>7. QED
  BY <1>4, <1>5, <1>6

LEMMA LostNextRound ==
  ASSUME IInv, LInv, shape' = shape, NextRound
  PROVE  LInv'
<1>1. /\ flush.phase = "rounds" /\ UNCHANGED <<stored, doubt, Accepted>>
      /\ \A i : ~Ahead(i)
  BY DEF NextRound, Accepted, Ahead, InRound, Persisting
<1>2. CASE ~\E r \in DOMAIN rounds : Due(r)
  <2>1. \A i : ~Queued(i)
    BY <1>2 DEF Queued, Due
  <2>2. End
    BY <1>2 DEF NextRound
  <2>3. QED
    BY <1>1, <2>1, <2>2, LostEnd DEF LInv, WantedKept
<1>3. CASE \E r \in DOMAIN rounds : Due(r)
  <2>1. PICK n \in DOMAIN rounds :
          /\ Due(n) /\ \A q \in DOMAIN rounds : Due(q) => n <= q
          /\ rounds' = [rounds EXCEPT ![n].state = "commit"]
          /\ flush' = [flush EXCEPT !.phase = "deletes", !.round = n,
                                    !.todo = {TypeOf[i] : i \in rounds[n].remove}]
    BY <1>3 DEF NextRound
  <2>2. /\ DOMAIN rounds' = DOMAIN rounds
        /\ \A r \in DOMAIN rounds :
             rounds'[r].add = rounds[r].add /\ rounds'[r].remove = rounds[r].remove
    BY <2>1, StateOnly
  <2>3. flush'.phase = "deletes" /\ flush'.round = n
    BY <2>1 DEF IInv, TypeOK
  <2>4. DOMAIN rounds \subseteq Nat
    BY DEF IInv, TypeOK
  <2>5. ASSUME NEW i, Queued(i) PROVE Ahead(i)' \/ Queued(i)'
    <3>1. PICK r \in DOMAIN rounds : r > flush.round /\ i \in rounds[r].add
      BY <2>5 DEF Queued
    <3>2. Due(r) /\ n <= r
      BY <2>1, <3>1 DEF Due
    <3>3. CASE r = n
      BY <2>2, <2>3, <3>1, <3>3 DEF Ahead, InRound, Deleting
    <3>4. CASE r # n
      <4>1. r > n
        BY <2>4, <3>2, <3>4
      <4>2. QED
        BY <2>2, <2>3, <3>1, <4>1 DEF Queued
    <3>5. QED
      BY <3>3, <3>4
  <2>6. Disjoint' /\ Requeued'
    BY <1>1, <2>2 DEF LInv, Disjoint, Requeued
  <2>7. Begins' /\ WantedKept'
    BY <1>1, <2>3, <2>5 DEF LInv, Begins, WantedKept
  <2>8. QED
    BY <2>6, <2>7 DEF LInv
<1>4. QED
  BY <1>2, <1>3

\* What the round in work has removed and is wanted comes in a later one.
LEMMA RemovedQueued ==
  ASSUME LInv, NEW i \in Accepted, flush.round \in DOMAIN rounds, i \in rounds[flush.round].remove
  PROVE  Queued(i)
BY DEF LInv, Requeued, Queued

\* The listeners before the rounds, and the deletes.
LEMMA LostDeletes ==
  ASSUME IInv, LInv, shape' = shape, CommitPre \/ NextDelete \/ DeletePre \/ Delete
  PROVE  LInv'
<1>1. CASE GiveUp
  BY <1>1, LostEnd DEF GiveUp, Accepted
<1>2. CASE CommitPre /\ ~GiveUp
  <2>1. /\ flush.phase = "commitPre" /\ flush' = [flush EXCEPT !.phase = "rounds"]
        /\ UNCHANGED <<rounds, stored, doubt, Accepted>>
    BY <1>2 DEF CommitPre, Accepted
  <2>2. flush'.phase = "rounds" /\ flush'.round = flush.round
    BY <2>1 DEF IInv, TypeOK
  <2>3. \A i : ~Ahead(i)
    BY <2>1 DEF Ahead, InRound, Persisting
  <2>4. QED
    BY <2>1, <2>2, <2>3, LostWithin DEF Begins
<1>3. CASE NextDelete
  <2>1. flush.phase = "deletes" /\ flush \in FlushStates /\ UNCHANGED <<rounds, stored, doubt, Accepted>>
    BY <1>3 DEF NextDelete, Accepted, IInv, TypeOK, FlushStates
  <2>2. CASE flush' = [flush EXCEPT !.phase = "groups",
                                    !.todo = {TypeOf[i] : i \in rounds[flush.round].add}]
    <3>1. /\ flush'.phase = "groups" /\ flush'.round = flush.round
          /\ flush'.todo = {TypeOf[i] : i \in rounds[flush.round].add}
      BY <2>1, <2>2 DEF FlushStates
    <3>2. \A i : Ahead(i) => Ahead(i)'
      BY <2>1, <3>1 DEF Ahead, InRound, TypeOf
    <3>3. QED
      BY <2>1, <3>1, <3>2, LostWithin DEF Begins
  <2>3. CASE \E t \in flush.todo :
               flush' = [flush EXCEPT !.phase = "deletePre", !.type = t, !.todo = @ \ {t}]
    <3>1. flush'.phase = "deletePre" /\ flush'.round = flush.round
      BY <2>1, <2>3 DEF FlushStates
    <3>2. \A i : Ahead(i) => Ahead(i)'
      BY <2>1, <3>1 DEF Ahead, InRound, Deleting
    <3>3. QED
      BY <2>1, <3>1, <3>2, LostWithin DEF Begins
  <2>4. QED
    BY <1>3, <2>2, <2>3 DEF NextDelete
<1>4. CASE DeletePre
  <2>1. /\ flush.phase = "deletePre" /\ flush \in FlushStates
        /\ UNCHANGED <<rounds, stored, doubt, Accepted>>
    BY <1>4 DEF DeletePre, Accepted, IInv, TypeOK, FlushStates
  <2>2. flush'.phase \in {"delete", "deletes"} /\ flush'.round = flush.round
    BY <1>4, <2>1 DEF DeletePre, FlushStates
  <2>3. \A i : Ahead(i) => Ahead(i)'
    BY <2>1, <2>2 DEF Ahead, InRound, Deleting
  <2>4. QED
    BY <2>1, <2>2, <2>3, LostWithin DEF Begins
<1>5. CASE Delete /\ ~GiveUp
  <2> DEFINE items == {i \in rounds[flush.round].remove : TypeOf[i] = flush.type}
  <2>1. /\ flush.phase = "delete" /\ flush \in FlushStates
        /\ flush' = [flush EXCEPT !.phase = "deletes"] /\ UNCHANGED <<rounds, Accepted>>
        /\ doubt' = doubt \ items
        /\ stored' = [i \in Item |-> IF i \in items THEN Absent ELSE stored[i]]
    BY <1>5 DEF Delete, Accepted, Write, IInv, TypeOK, FlushStates
  <2>2. flush'.phase = "deletes" /\ flush'.round = flush.round
    BY <2>1 DEF FlushStates
  <2>3. \A i : Ahead(i) => Ahead(i)'
    BY <2>1, <2>2 DEF Ahead, InRound, Deleting
  <2>4. flush.round \in DOMAIN rounds /\ Accepted \subseteq Item
    BY <2>1 DEF Accepted, IInv, TypeOK, RoundKept, InRound
  <2>5. \A i \in Accepted : i \in items => Queued(i)
    BY <2>4, RemovedQueued
  <2> HIDE DEF items
  <2>6. \A i \in Accepted \ items : stored'[i] = stored[i]
    BY <2>1, <2>4
  <2>7. QED
    BY <2>1, <2>2, <2>3, <2>5, <2>6, LostWithin DEF Begins
<1>6. QED
  BY <1>1, <1>2, <1>3, <1>4, <1>5

\* A known entity is stored, unless the session is in doubt about it.
LEMMA KnownStored ==
  ASSUME IInv, NEW i \in Item \ doubt, known[i]
  PROVE  stored[i] # Absent
BY SessionAssumption DEF IInv, KnownKept, Agree

LEMMA LostNextGroup ==
  ASSUME IInv, LInv, shape' = shape, NextGroup
  PROVE  LInv'
<1>1. /\ flush.phase = "groups" /\ flush \in FlushStates
      /\ UNCHANGED <<stored, doubt, Accepted, known>> /\ Accepted \subseteq Item
      /\ flush.round \in DOMAIN rounds
  BY DEF NextGroup, Accepted, IInv, TypeOK, FlushStates, RoundKept, InRound
<1>2. \A i : Ahead(i) <=> i \in rounds[flush.round].add /\ TypeOf[i] \in flush.todo
  BY <1>1 DEF Ahead, InRound, Deleting
<1>3. CASE flush.todo = {}
  <2>1. /\ rounds' = [rounds EXCEPT ![flush.round].state = "done"]
        /\ flush' = [flush EXCEPT !.phase = "rounds"]
    BY <1>3 DEF NextGroup
  <2>2. /\ DOMAIN rounds' = DOMAIN rounds
        /\ \A r \in DOMAIN rounds :
             rounds'[r].add = rounds[r].add /\ rounds'[r].remove = rounds[r].remove
    BY <1>1, <2>1, StateOnly
  <2>3. flush'.phase = "rounds" /\ flush'.round = flush.round
    BY <1>1, <2>1 DEF FlushStates
  <2>4. QED
    BY <1>1, <1>2, <1>3, <2>2, <2>3, LostWithin DEF Begins
<1>4. CASE flush.todo # {}
  <2> DEFINE new(t) == {i \in {i \in rounds[flush.round].add : TypeOf[i] = t} : ~known[i]}
  <2>1. PICK t \in flush.todo :
          /\ flush'.phase = IF new(t) = {} THEN "updates" ELSE "insertPre"
          /\ flush'.round = flush.round /\ flush'.type = t /\ flush'.todo = flush.todo \ {t}
    BY <1>1, <1>4 DEF NextGroup, FlushStates
  <2>2. rounds' = rounds
    BY <1>4 DEF NextGroup
  <2>3. ASSUME NEW i \in Accepted \ doubt, Ahead(i) PROVE stored[i] # Absent \/ Ahead(i)'
    <3>1. CASE known[i]
      BY <1>1, <3>1, KnownStored
    <3>2. CASE ~known[i] /\ TypeOf[i] = t
      <4>1. i \in new(t)
        BY <1>2, <2>3, <3>2
      <4>2. flush'.phase = "insertPre"
        BY <2>1, <4>1
      <4>3. QED
        BY <1>2, <2>1, <2>2, <2>3, <3>2, <4>2 DEF Ahead, InRound, Persisting, TypeOf
    <3>3. CASE TypeOf[i] # t
      <4>1. TypeOf[i] \in flush'.todo /\ flush'.phase \in InRound
        BY <1>2, <2>1, <2>3, <3>3 DEF InRound, Persisting
      <4>2. QED
        BY <1>2, <2>1, <2>2, <2>3, <4>1 DEF Ahead, TypeOf
    <3>4. QED
      BY <3>1, <3>2, <3>3
  <2>4. Begins'
    BY <2>1 DEF Begins
  <2> HIDE DEF new
  <2>5. QED
    BY <1>1, <2>1, <2>2, <2>3, <2>4, LostWithin
<1>5. QED
  BY <1>3, <1>4

\* What the statements of a group leave to do: the groups after it.
LEMMA LostInGroup ==
  ASSUME IInv, LInv, shape' = shape,
         flush.phase \in {"updates", "updatePre", "update"},
         flush'.phase \in {"groups", "updatePre", "update"},
         flush'.round = flush.round, flush'.todo = flush.todo,
         UNCHANGED <<rounds, Accepted>>, doubt \subseteq doubt',
         \A i \in Item : stored[i] # Absent => stored'[i] # Absent
  PROVE  LInv'
<1>1. \A i : Ahead(i) => Ahead(i)'
  BY DEF Ahead, InRound, Persisting, Deleting, TypeOf
<1>2. Accepted \subseteq Item
  BY DEF Accepted, IInv, TypeOK
<1>3. QED
  BY <1>1, <1>2, LostWithin DEF Begins

LEMMA LostInserts ==
  ASSUME IInv, LInv, shape' = shape, InsertPre \/ Insert
  PROVE  LInv'
<1> DEFINE group == {i \in rounds[flush.round].add : TypeOf[i] = flush.type}
<1>1. /\ flush \in FlushStates /\ flush.phase \in {"insertPre", "insert"}
      /\ flush.phase \in InRound /\ flush.phase \in Persisting
      /\ Accepted \subseteq Item
  BY DEF InsertPre, Insert, Accepted, IInv, TypeOK, FlushStates, InRound, Persisting
<1>2. /\ Group = group /\ flush.inserts = {i \in Group : ~known[i]}
  BY <1>1 DEF Group, IInv, GroupKept
<1>3. \A i \in Accepted : Ahead(i) <=> i \in group \/ (i \in rounds[flush.round].add /\ TypeOf[i] \in flush.todo)
  BY <1>1 DEF Ahead, Deleting
<1>4. \A i \in Accepted \ doubt : i \in group => i \in flush.inserts \/ stored[i] # Absent
  BY <1>1, <1>2, KnownStored
<1> HIDE DEF group
<1>5. CASE /\ flush' = [flush EXCEPT !.phase = "insert",
                !.sent = [i \in Item |-> IF i \in flush.inserts THEN value[i] ELSE @[i]]]
           /\ UNCHANGED <<stored, doubt, rounds, Accepted>>
  <2>1. /\ flush'.phase = "insert" /\ flush'.round = flush.round
        /\ flush'.todo = flush.todo /\ flush'.type = flush.type
    BY <1>1, <1>5 DEF FlushStates
  <2>2. \A i : Ahead(i) => Ahead(i)'
    BY <1>1, <1>5, <2>1 DEF Ahead, InRound, Persisting, TypeOf, Deleting
  <2>3. QED
    BY <1>5, <2>1, <2>2, LostWithin DEF Begins
<1>6. CASE /\ flush' = [flush EXCEPT !.phase = "updates"] /\ UNCHANGED <<rounds, Accepted>>
           /\ doubt \subseteq doubt'
           /\ \A i \in Accepted \ doubt' :
                /\ stored[i] # Absent => stored'[i] # Absent
                /\ i \in flush.inserts => stored'[i] # Absent
  <2>1. flush'.phase = "updates" /\ flush'.round = flush.round /\ flush'.todo = flush.todo
    BY <1>1, <1>6 DEF FlushStates
  <2>2. ASSUME NEW i \in Accepted \ doubt', Ahead(i) PROVE stored'[i] # Absent \/ Ahead(i)'
    <3>1. CASE i \in group
      BY <1>4, <1>6, <3>1
    <3>2. CASE i \notin group
      BY <1>3, <1>6, <2>1, <2>2, <3>2 DEF Ahead, InRound, Persisting, TypeOf
    <3>3. QED
      BY <3>1, <3>2
  <2>3. Begins'
    BY <2>1 DEF Begins
  <2>4. QED
    BY <1>6, <2>1, <2>2, <2>3, LostWithin
<1>7. CASE InsertPre
  <2>1. CASE flush' = [flush EXCEPT !.phase = "updates"] /\ doubt' = doubt \cup flush.inserts
    <3>1. UNCHANGED <<stored, rounds, Accepted>>
      BY <1>7 DEF InsertPre, Accepted
    <3>2. QED
      BY <1>6, <2>1, <3>1
  <2>2. QED
    BY <1>5, <1>7, <2>1 DEF InsertPre, Accepted
<1>8. CASE Insert
  <2>1. /\ flush.phase = "insert"
        /\ stored' = [i \in Item |-> IF i \in flush.inserts THEN flush.sent[i] ELSE stored[i]]
    BY <1>8 DEF Insert, Write
  <2>2. \A i \in flush.inserts : flush.sent[i] # Absent
    BY <1>1, <2>1, SessionAssumption DEF IInv, GroupKept, Agree
  <2>3. \A i \in Accepted : /\ i \in flush.inserts => stored'[i] # Absent
                            /\ stored[i] # Absent => stored'[i] # Absent
    BY <1>1, <2>1, <2>2
  <2>4. CASE GiveUp
    BY <2>4, LostEnd DEF GiveUp, Accepted
  <2>5. CASE flush' = [flush EXCEPT !.phase = "updates"] /\ UNCHANGED <<rounds, doubt, Accepted>>
    BY <1>6, <2>3, <2>5
  <2>6. QED
    BY <1>8, <2>4, <2>5 DEF Insert, Accepted
<1>9. QED
  BY <1>7, <1>8

LEMMA LostUpdates ==
  ASSUME IInv, LInv, shape' = shape, NextUpdate \/ UpdatePre \/ Update
  PROVE  LInv'
<1>1. flush \in FlushStates /\ flush.phase \in {"updates", "updatePre", "update"}
  BY DEF NextUpdate, UpdatePre, Update, IInv, TypeOK, FlushStates
<1>2. CASE GiveUp
  BY <1>2, LostEnd DEF GiveUp, Accepted
<1>3. \A i \in Item : stored[i] # Absent => stored'[i] # Absent
  <2>1. CASE Update
    <3>1. flush.phase = "update" /\ flush.phase \in Persisting
      BY <2>1 DEF Update, Persisting
    <3>2. \A i \in flush.updates : flush.sent[i] # Absent
      BY <3>1, SessionAssumption DEF IInv, GroupKept, Agree
    <3>3. QED
      BY <2>1, <3>2 DEF Update, Write
  <2>2. QED
    BY <2>1 DEF NextUpdate, UpdatePre
<1>4. ~GiveUp => UNCHANGED <<rounds, Accepted>> /\ doubt \subseteq doubt'
  BY DEF NextUpdate, UpdatePre, Update, Accepted
<1>5. CASE GroupDone /\ ~GiveUp
  <2>1. flush' = [Idle EXCEPT !.phase = "groups", !.round = flush.round, !.todo = flush.todo]
    BY <1>5 DEF GroupDone
  <2>2. flush'.phase = "groups" /\ flush'.round = flush.round /\ flush'.todo = flush.todo
    BY <2>1, IdleType DEF FlushStates
  <2>3. QED
    BY <1>1, <1>3, <1>4, <1>5, <2>2, LostInGroup
<1>6. CASE ~GroupDone /\ ~GiveUp
  <2>1. PICK next \in {"updatePre", "update"} : flush' = [flush EXCEPT !.phase = next]
    BY <1>6 DEF NextUpdate, UpdatePre, Update
  <2>2. flush'.phase = next /\ flush'.round = flush.round /\ flush'.todo = flush.todo
    BY <1>1, <2>1 DEF FlushStates
  <2>3. QED
    BY <1>1, <1>3, <1>4, <1>6, <2>2, LostInGroup
<1>7. QED
  BY <1>2, <1>5, <1>6

LEMMA LostOutside ==
  ASSUME LInv, UseTransaction \/ CommitTransaction \/ Rollback \/ Reset \/ Fail, shape' = shape
  PROVE  LInv'
<1>1. CASE UseTransaction \/ CommitTransaction
  BY <1>1 DEF UseTransaction, CommitTransaction, Accepted, LInv, Begins, Disjoint, Requeued,
     WantedKept, Ahead, Queued, TypeOf
<1>2. CASE Rollback
  BY <1>2 DEF Rollback, Accepted, LInv, Begins, Disjoint, Requeued, WantedKept
<1>3. CASE Reset
  BY <1>3 DEF Reset, Accepted, LInv, Begins, Disjoint, Requeued, WantedKept
<1>4. CASE Fail
  BY <1>4, LostEnd DEF Fail, GiveUp, Accepted
<1>5. QED
  BY <1>1, <1>2, <1>3, <1>4

\* What the application adds, and does not remove again, is in the database
\* when flush() has ended without an error: also what is added while the flush
\* runs, as a reference of something else, or after an earlier round has
\* removed it.  Excepted is what DatabaseSessionRound.add() skips because the
\* round removes it, or what references it.
THEOREM NothingGetsLost == Spec => []NothingLost
<1>1. Init => LInv
  <2> SUFFICES ASSUME Init PROVE LInv
    OBVIOUS
  <2>1. rounds = <<>> /\ flush.round = 0 /\ Accepted = {}
    BY DEF Init, Idle, Accepted
  <2>2. QED
    BY <2>1 DEF LInv, Begins, Disjoint, Requeued, WantedKept
<1>2. IInv /\ [Next]_vars => IInv'
  BY NextKept, StutterKept
<1>3. IInv /\ LInv /\ [Next]_vars => LInv'
  <2> SUFFICES ASSUME IInv, LInv, [Next]_vars PROVE LInv'
    OBVIOUS
  <2>1. CASE UNCHANGED vars
    BY <2>1 DEF vars, Accepted, LInv, Begins, Disjoint, Requeued, WantedKept, Ahead, Queued, TypeOf
  <2>2. CASE Next
    BY <2>2, LostQueue, LostNextRound, LostDeletes, LostNextGroup, LostInserts, LostUpdates,
       LostOutside DEF Next, Step
  <2>3. QED
    BY <2>1, <2>2
<1>4. LInv => NothingLost
  <2> SUFFICES ASSUME LInv, flush.phase = "idle", rounds = <<>>, NEW i \in Accepted \ doubt
               PROVE  stored[i] # Absent
    BY DEF NothingLost, Accepted
  <2>1. ~Ahead(i) /\ ~Queued(i)
    BY DEF Ahead, Queued, InRound, Persisting
  <2>2. QED
    BY <2>1 DEF LInv, WantedKept
<1>5. QED
  BY <1>1, <1>2, <1>3, <1>4, InitKept, PTL DEF Spec
=============================================================================
