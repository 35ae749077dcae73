--------------------------- MODULE DatabaseSession ---------------------------
(***************************************************************************)
(* The unit of work of the ORM: DatabaseSession with its rounds            *)
(* (packages/orm/src/database-session.ts) and the instance states its      *)
(* identity map keeps (identity-map.ts).                                   *)
(*                                                                         *)
(* The application adds, removes and changes entities whenever flush()     *)
(* awaits a listener or a statement.  The phases in Awaiting are these     *)
(* awaits; the others are code between two awaits, which nothing           *)
(* interrupts.  (Code that runs in the microtasks between the end of a     *)
(* round and the next look at the rounds is left out.)  The application    *)
(* calls flush(), commit() and rollback() one after another, and keeps the *)
(* identity map on.                                                        *)
(*                                                                         *)
(* An entity is its last version; a type stands for a group of the         *)
(* topological sort and its number for its place in it.                    *)
(* Statements are atomic, but a flush is a sequence of them.               *)
(***************************************************************************)
EXTENDS Naturals, Sequences, FiniteSets

CONSTANTS Item,            \* the entities
          Shapes,          \* the possible types and references of the entities
          Version,         \* what the columns of an entity can hold
          Absent,          \* stored nowhere
          Quiet,           \* whether the application leaves the entities alone
                           \* that a flush is persisting
          MaxRound,        \* bound: rounds of a flush
          MaxFlush         \* bound: calls of flush()

\* References are one level deep.
ASSUME SessionAssumption ==
  /\ \A s \in Shapes :
       /\ s.type \in [Item -> Nat]
       /\ s.refs \in [Item -> SUBSET Item]
       /\ \A i \in Item : \A r \in s.refs[i] : s.type[r] < s.type[i] /\ s.refs[r] = {}
  /\ Absent \notin Version
  /\ Quiet \in BOOLEAN
  /\ MaxRound \in Nat /\ MaxFlush \in Nat

VARIABLES shape,           \* which of Shapes it is
          value,           \* the entities in memory
          known,           \* InstanceState.knownInDatabase
          snapshot,        \* InstanceState.snapshot
          map,             \* the entities in the identity map
          stored,          \* the database as the session sees it
          durable,         \* the database without the open transaction
          transaction,     \* assignedTransaction is set
          rounds,          \* the rounds: their queues, and how far they are
          flush,           \* where flush() is
          flushes,         \* bounded: how often it was called
          doubt,           \* history: entities whose state the session was told
                           \* wrong: prevented, rolled back or half done
          wanted,          \* history: added, or referenced by what was, and not
                           \* removed since
          skipped          \* history: the wanted whose add() did nothing, as the
                           \* round they would have gone to removes them

vars == <<shape, value, known, snapshot, map, stored, durable, transaction, rounds,
          flush, flushes, doubt, wanted, skipped>>

TypeOf == shape.type
Refs == shape.refs

Awaiting == {"idle", "commitPre", "deletePre", "delete", "insertPre", "insert",
             "updatePre", "update"}
Running == {"rounds", "deletes", "groups", "updates"}

Idle == [phase |-> "idle", round |-> 0, todo |-> {}, type |-> 0, inserts |-> {},
         updates |-> {}, sent |-> [i \in Item |-> Absent]]
Round == [add : SUBSET Item, remove : SUBSET Item, state : {"open", "commit", "done"}]
Open == [add |-> {}, remove |-> {}, state |-> "open"]

Init ==
  /\ shape \in Shapes
  /\ \E v \in Version : value = [i \in Item |-> v]
  /\ known = [i \in Item |-> FALSE]
  /\ snapshot = [i \in Item |-> Absent]
  /\ map = {}
  /\ stored = [i \in Item |-> Absent]
  /\ durable = stored
  /\ transaction = FALSE
  /\ rounds = <<>>
  /\ flush = Idle
  /\ flushes = 0
  /\ doubt = {} /\ wanted = {} /\ skipped = {}

---------------------------------------------------------------------------
\* Definitions that say "Faulty" are variants for the mutation runs.

\* DatabaseSessionRound.add(): what is queued already, or removed in this round,
\* is passed over in silence, and what it references with it.
RoundAdd(round, items) ==
  LET new == items \ (round.remove \cup round.add)
  IN  [round EXCEPT !.add = @ \cup new \cup ((UNION {Refs[i] : i \in new}) \ round.remove)]

\* DatabaseSessionRound.remove(): an added entity is taken out again.
RoundRemove(round, item) ==
  [round EXCEPT !.remove = @ \cup {item}, !.add = @ \ {item}]

\* getCurrentRound(), and enterNewRound() if there is none.
Entered(rs) == IF rs = <<>> THEN <<Open>> ELSE rs

\* Whether the last round's queues are still open.
\* Faulty: nobody looks.
NeverBusy(rs) == FALSE
Busy(rs) == rs[Len(rs)].state = "commit"

\* The rounds add() and remove() work on: a round in commit gets no more.
Current == LET rs == Entered(rounds) IN IF Busy(rs) THEN Append(rs, Open) ELSE rs

Changed(rs, round) == [rs EXCEPT ![Len(rs)] = round]
Last(rs) == rs[Len(rs)]

\* Code of the application runs while nothing of flush() does.
Application == flush.phase \in Awaiting

\* The application wants the entity and its references stored from now on.
Add(i) ==
  /\ Application
  /\ Len(Current) <= MaxRound
  /\ LET new == RoundAdd(Last(Current), {i})
         asked == {i} \cup Refs[i]
     IN  /\ rounds' = Changed(Current, new)
         /\ wanted' = wanted \cup asked
         /\ skipped' = (skipped \cup (asked \ wanted)) \ new.add
  /\ UNCHANGED <<value, known, snapshot, map, stored, durable, transaction, flush,
                 flushes, doubt>>

Remove(i) ==
  /\ Application
  /\ Len(Current) <= MaxRound
  /\ rounds' = Changed(Current, RoundRemove(Last(Current), i))
  /\ wanted' = wanted \ {i} /\ skipped' = skipped \ {i}
  /\ UNCHANGED <<value, known, snapshot, map, stored, durable, transaction, flush,
                 flushes, doubt>>

\* The entities of the group in work.
Group == IF flush.phase \in {"insertPre", "insert", "updates", "updatePre", "update"}
         THEN {i \in rounds[flush.round].add : TypeOf[i] = flush.type} ELSE {}

\* The application changes an entity.  An insert reads it after its listener.
Modify(i) ==
  /\ Application
  /\ Quiet => i \notin Group \/ (flush.phase = "insertPre" /\ i \in flush.inserts)
  /\ \E v \in Version \ {value[i]} : value' = [value EXCEPT ![i] = v]
  /\ UNCHANGED <<known, snapshot, map, stored, durable, transaction, rounds, flush,
                 flushes, doubt, wanted, skipped>>

---------------------------------------------------------------------------
\* flush()

\* What the identity map holds is added to the last round.
Flush ==
  /\ flush.phase = "idle" /\ flushes < MaxFlush
  /\ flushes' = flushes + 1
  /\ LET rs == Entered(rounds)
     IN  rounds' = Changed(rs, RoundAdd(Last(rs), map))
  /\ flush' = [flush EXCEPT !.phase = "commitPre"]
  /\ UNCHANGED <<value, known, snapshot, map, stored, durable, transaction,
                 doubt, wanted, skipped>>

\* The end of flush(), whatever happened: the rounds are gone.
End ==
  /\ rounds' = <<>>
  /\ flush' = Idle

\* flush() throws, or a listener prevented it: what was queued is given up.
GiveUp == End /\ wanted' = {} /\ skipped' = {}

\* The listeners of onCommitPre are through; they may prevent the flush.
CommitPre ==
  /\ flush.phase = "commitPre"
  /\ \/ GiveUp
     \/ flush' = [flush EXCEPT !.phase = "rounds"] /\ UNCHANGED <<rounds, wanted, skipped>>
  /\ UNCHANGED <<value, known, snapshot, map, stored, durable, transaction, flushes, doubt>>

\* A round that is not committed yet.  An empty one returns at once.
\* Faulty: the rounds that hooks have added are not looked at.
FirstOnly(r) == flush.round = 0 /\ r = 1 /\ rounds[r].add \cup rounds[r].remove # {}
Due(r) == r > flush.round /\ rounds[r].add \cup rounds[r].remove # {}

\* The loop over the rounds; DatabaseSessionRound.commit() begins.
NextRound ==
  /\ flush.phase = "rounds"
  /\ IF \E r \in DOMAIN rounds : Due(r)
     THEN \E r \in DOMAIN rounds :
            /\ Due(r) /\ \A q \in DOMAIN rounds : Due(q) => r <= q
            /\ rounds' = [rounds EXCEPT ![r].state = "commit"]
            /\ flush' = [flush EXCEPT !.phase = "deletes", !.round = r,
                                      !.todo = {TypeOf[i] : i \in rounds[r].remove}]
     ELSE End
  /\ UNCHANGED <<value, known, snapshot, map, stored, durable, transaction, flushes,
                 doubt, wanted, skipped>>

\* doDelete(): a type after the other, in the order they were removed in.
NextDelete ==
  /\ flush.phase = "deletes"
  /\ IF flush.todo = {}
     THEN flush' = [flush EXCEPT !.phase = "groups",
                                 !.todo = {TypeOf[i] : i \in rounds[flush.round].add}]
     ELSE \E t \in flush.todo :
            flush' = [flush EXCEPT !.phase = "deletePre", !.type = t, !.todo = @ \ {t}]
  /\ UNCHANGED <<value, known, snapshot, map, stored, durable, transaction, rounds,
                 flushes, doubt, wanted, skipped>>

\* A listener of onDeletePre may do the work itself, as soft delete does.
DeletePre ==
  /\ flush.phase = "deletePre"
  /\ \E next \in {"delete", "deletes"} : flush' = [flush EXCEPT !.phase = next]
  /\ UNCHANGED <<value, known, snapshot, map, stored, durable, transaction, rounds,
                 flushes, doubt, wanted, skipped>>

\* A statement of the session reaches the database.
Write(items, contents) ==
  /\ stored' = [i \in Item |-> IF i \in items THEN contents[i] ELSE stored[i]]
  /\ durable' = IF transaction THEN durable ELSE stored'

\* deleteMany(): what the identity map has of them is forgotten.
Forget(items) ==
  /\ known' = [i \in Item |-> known[i] /\ i \notin items \cap map]
  /\ map' = map \ items

\* The DELETE is done; a listener of onDeletePost may throw.
Delete ==
  LET items == {i \in rounds[flush.round].remove : TypeOf[i] = flush.type} IN
  /\ flush.phase = "delete"
  /\ Write(items, [i \in Item |-> Absent])
  /\ Forget(items)
  /\ \/ flush' = [flush EXCEPT !.phase = "deletes"] /\ UNCHANGED <<rounds, wanted, skipped>>
     \/ GiveUp
  /\ doubt' = doubt \ items
  /\ UNCHANGED <<value, snapshot, transaction, flushes>>

\* doPersist(): the next group of the sort is split into inserts and updates.
\* Changes are computed now; an insert reads its entities when it is run.
NextGroup ==
  /\ flush.phase = "groups"
  /\ IF flush.todo = {}
     THEN /\ rounds' = [rounds EXCEPT ![flush.round].state = "done"]
          /\ flush' = [flush EXCEPT !.phase = "rounds"]
     ELSE /\ rounds' = rounds
          /\ \E t \in flush.todo :
               /\ \A u \in flush.todo : t <= u
               /\ LET items == {i \in rounds[flush.round].add : TypeOf[i] = t}
                      new == {i \in items : ~known[i]}
                  IN  flush' = [flush EXCEPT
                        !.phase = IF new = {} THEN "updates" ELSE "insertPre",
                        !.todo = @ \ {t}, !.type = t, !.inserts = new,
                        !.updates = {i \in items \ new : snapshot[i] # value[i]},
                        !.sent = value]
  /\ UNCHANGED <<value, known, snapshot, map, stored, durable, transaction, flushes,
                 doubt, wanted, skipped>>

\* The listeners of onInsertPre are through; they may prevent the insert.
InsertPre ==
  /\ flush.phase = "insertPre"
  /\ \/ /\ flush' = [flush EXCEPT !.phase = "insert",
              !.sent = [i \in Item |-> IF i \in flush.inserts THEN value[i] ELSE @[i]]]
        /\ UNCHANGED doubt
     \/ /\ flush' = [flush EXCEPT !.phase = "updates"]
        /\ doubt' = doubt \cup flush.inserts
  /\ UNCHANGED <<value, known, snapshot, map, stored, durable, transaction, rounds,
                 flushes, wanted, skipped>>

\* The INSERT is done; a listener of onInsertPost may throw.
Insert ==
  /\ flush.phase = "insert"
  /\ Write(flush.inserts, flush.sent)
  /\ \/ flush' = [flush EXCEPT !.phase = "updates"] /\ UNCHANGED <<rounds, doubt, wanted, skipped>>
     \/ GiveUp /\ doubt' = doubt \cup flush.inserts
  /\ UNCHANGED <<value, known, snapshot, map, transaction, flushes>>

\* storeMany() of the whole group: all of it counts as known and unchanged.
\* Faulty: what was inserted is left out.
StoreKnown(items) ==
  /\ known' = known
  /\ snapshot' = [i \in Item |-> IF known[i] /\ i \in items THEN value[i] ELSE snapshot[i]]
  /\ map' = map
StoreMany(items) ==
  /\ known' = [i \in Item |-> known[i] \/ i \in items]
  /\ snapshot' = [i \in Item |-> IF i \in items THEN value[i] ELSE snapshot[i]]
  /\ map' = map \cup items

\* The group is done.
GroupDone ==
  /\ StoreMany(Group)
  /\ flush' = [Idle EXCEPT !.phase = "groups", !.round = flush.round, !.todo = flush.todo]

NextUpdate ==
  /\ flush.phase = "updates"
  /\ IF flush.updates = {}
     THEN GroupDone
     ELSE flush' = [flush EXCEPT !.phase = "updatePre"] /\ UNCHANGED <<known, snapshot, map>>
  /\ UNCHANGED <<value, stored, durable, transaction, rounds, flushes,
                 doubt, wanted, skipped>>

\* The listeners of onUpdatePre are through; they may prevent the update.
UpdatePre ==
  /\ flush.phase = "updatePre"
  /\ \/ /\ flush' = [flush EXCEPT !.phase = "update"]
        /\ UNCHANGED <<known, snapshot, map, doubt>>
     \/ /\ GroupDone
        /\ doubt' = doubt \cup flush.updates
  /\ UNCHANGED <<value, stored, durable, transaction, rounds, flushes, wanted, skipped>>

\* The UPDATE is done, and with it the group unless a listener throws.
Update ==
  /\ flush.phase = "update"
  /\ Write({i \in flush.updates : stored[i] # Absent}, flush.sent)
  /\ \/ GroupDone /\ UNCHANGED <<rounds, doubt, wanted, skipped>>
     \/ GiveUp /\ doubt' = doubt \cup Group /\ UNCHANGED <<known, snapshot, map>>
  /\ UNCHANGED <<value, transaction, flushes>>

\* A validation, a statement or a listener fails, and flush() with it.  What the
\* group has inserted by then is stored and not known.
Fail ==
  /\ flush.phase \in Awaiting \cup {"groups"} /\ flush.phase # "idle"
  /\ GiveUp
  /\ doubt' = IF flush.phase \in {"updatePre", "update"} THEN doubt \cup flush.inserts ELSE doubt
  /\ UNCHANGED <<value, known, snapshot, map, stored, durable, transaction, flushes>>

---------------------------------------------------------------------------
\* Transactions

UseTransaction ==
  /\ flush.phase = "idle" /\ ~transaction
  /\ transaction' = TRUE
  /\ UNCHANGED <<value, known, snapshot, map, stored, durable, rounds, flush, flushes,
                 doubt, wanted, skipped>>

\* commit() after its flush(), and commitTransaction().
CommitTransaction ==
  /\ flush.phase = "idle" /\ transaction
  /\ transaction' = FALSE
  /\ durable' = stored
  /\ UNCHANGED <<value, known, snapshot, map, stored, rounds, flush, flushes,
                 doubt, wanted, skipped>>

\* The database goes back, the objects in memory do not.
Rollback ==
  /\ flush.phase = "idle" /\ transaction
  /\ transaction' = FALSE
  /\ stored' = durable
  /\ doubt' = doubt \cup {i \in Item : stored[i] # durable[i]}
  /\ wanted' = {} /\ skipped' = {}
  /\ UNCHANGED <<value, known, snapshot, map, durable, rounds, flush, flushes>>

\* reset() between two flushes drops what is queued.
Reset ==
  /\ flush.phase = "idle" /\ rounds # <<>>
  /\ rounds' = <<>>
  /\ wanted' = {} /\ skipped' = {}
  /\ UNCHANGED <<value, known, snapshot, map, stored, durable, transaction, flush,
                 flushes, doubt>>

Step ==
  \/ \E i \in Item : Add(i) \/ Remove(i) \/ Modify(i)
  \/ Flush \/ CommitPre \/ NextRound \/ NextDelete \/ DeletePre \/ Delete
  \/ NextGroup \/ InsertPre \/ Insert \/ NextUpdate \/ UpdatePre \/ Update \/ Fail
  \/ UseTransaction \/ CommitTransaction \/ Rollback \/ Reset

Next == Step /\ shape' = shape

Spec == Init /\ [][Next]_vars

---------------------------------------------------------------------------
\* Properties

TypeOK ==
  /\ shape \in Shapes
  /\ value \in [Item -> Version]
  /\ known \in [Item -> BOOLEAN]
  /\ snapshot \in [Item -> Version \cup {Absent}]
  /\ map \subseteq Item
  /\ stored \in [Item -> Version \cup {Absent}]
  /\ durable \in [Item -> Version \cup {Absent}]
  /\ transaction \in BOOLEAN
  /\ rounds \in Seq(Round)
  /\ flush \in [phase : Awaiting \cup Running, round : Nat, todo : SUBSET Nat, type : Nat,
               inserts : SUBSET Item, updates : SUBSET Item,
               sent : [Item -> Version \cup {Absent}]]
  /\ flushes \in Nat
  /\ doubt \subseteq Item /\ wanted \subseteq Item /\ skipped \subseteq wanted

\* "the last known values known to be in the database" (InstanceState.snapshot):
\* an entity the session knows is stored with the values of its snapshot, so
\* that change detection misses no change, whatever happened in which order to
\* the entity and around it.
SnapshotIsStored ==
  /\ TypeOK
  /\ \A i \in Item \ doubt : known[i] => stored[i] = snapshot[i]

\* What was added and not removed since is in the database when flush() has
\* ended without an error, also when it was added during the flush or as a
\* reference of something else, or when an earlier round has removed it.  Only
\* an entity whose add() came when the round it would have gone to removed it,
\* or what references it, may be missing.
NothingLost ==
  flush.phase = "idle" /\ rounds = <<>> =>
    \A i \in wanted \ (doubt \cup skipped) : stored[i] # Absent

\* add(): "Adds a single or multiple items to the to add/update queue. Use
\* session.commit() to persist all queued items to the database." The code does not
\* do this for the skipped, so NothingLost, not this, is what holds.
AddedIsStored ==
  flush.phase = "idle" /\ rounds = <<>> => \A i \in wanted \ doubt : stored[i] # Absent

\* No entity is inserted that is stored already.
NoDoubleInsert ==
  [][Insert => \A i \in flush.inserts \ doubt : stored[i] = Absent]_vars
=============================================================================
