----------------------------- MODULE BrokerCache -----------------------------
(***************************************************************************)
(* One key of the cache of packages/broker: BrokerCacheItem.get() and      *)
(* invalidate() with the in-memory store of each process (broker-cache.ts, *)
(* "L1"), getCache(), setCache() and invalidateCache() of the adapter, and *)
(* the GetCache, SetCache and InvalidateCache handlers of the broker ("L2")*)
(*                                                                         *)
(* A value is the version of the data a builder has read and the time it   *)
(* was built; a builder reads when it starts, the worst case. An entry     *)
(* object is named by the get() that made it. Channels keep their order.   *)
(* Timers fire when they are due or later. Not modelled: set(), which only sends a SetCache, and *)
(* exists(), which only reads.                                             *)
(***************************************************************************)
EXTENDS Integers, Sequences, FiniteSets

CONSTANTS
    Process, Get, ProcessOf,  \* processes, calls of get() and who makes them
    Ttl, InMemoryTtl, \* options, in units of the clock
    MaxStales,        \* the values of the option maxStale
    MayThrow,    \* may a builder fail?
    MaxNow, MaxVersion, MaxInvalidate,  \* bounds: the clock, versions, invalidate() calls
    None

Start == Ttl + 1
Time == 0 .. (MaxNow + Ttl)
Value == [version : 0 .. MaxVersion, at : Time]
Entry == [value : Value \cup {None}, ttl : Time, built : Nat,
          building : {"no", "running", "failed"}]

ASSUME BrokerCacheAssumption ==
    /\ ProcessOf \in [Get -> Process]
    /\ {Ttl, InMemoryTtl, MaxNow, MaxVersion, MaxInvalidate} \cup MaxStales \subseteq Nat
    /\ Ttl < MaxNow
    /\ MayThrow \in BOOLEAN
    /\ None \notin Get \cup Entry

VARIABLES
    maxStale, \* the option, the same for every item of the key
    now,      \* Date.now(), later than any relative time
    data,     \* the version of the data the builders read
    l1,       \* BrokerCacheStore.cache of a process: the entry of the key, or None
    entry,    \* the entry objects
    timers,   \* armed timers of the stores
    l2,       \* BrokerState.cacheStore, None or what SetCache brought
    enabled,  \* invalidationCacheMessageConnections
    asked,    \* connection.subscribedToInvalidations of a process is set
    toBroker, toClient,
    pc, on, reading, result,  \* a get(): where it is, on which entry, what its builder read
    fresh,    \* per process: no older version may be returned any more
    need,     \* fresh when the get() was called
    invalidates

worldVars == <<maxStale, now, data>>
storeVars == <<l1, entry, timers>>
brokerVars == <<l2, enabled>>
netVars == <<toBroker, toClient>>
getVars == <<pc, on, reading, result, need>>
history == <<fresh, invalidates>>
vars == <<worldVars, storeVars, brokerVars, netVars, getVars, asked, history>>

TypeOK ==
    /\ maxStale \in MaxStales
    /\ now \in Start .. MaxNow /\ data \in 0 .. MaxVersion
    /\ l1 \in [Process -> Get \cup {None}]
    /\ entry \in [Get -> Entry \cup {None}]
    /\ l2 = None \/ l2 \in [value : Value, ttl : Time]
    /\ enabled \subseteq Process
    /\ asked \subseteq Process
    /\ pc \in [Get -> {"new", "enabling", "fetching", "waiting", "building", "storing", "done", "threw"}]
    /\ on \in [Get -> Get \cup {None}]
    /\ result \in [Get -> Value \cup {None}]

Init ==
    /\ maxStale \in MaxStales
    /\ now = Start /\ data = 0 /\ invalidates = 0
    /\ l1 = [p \in Process |-> None]
    /\ entry = [g \in Get |-> None]
    /\ timers = {}
    /\ l2 = None /\ enabled = {} /\ asked = {}
    /\ toBroker = [p \in Process |-> <<>>]
    /\ toClient = [p \in Process |-> <<>>]
    /\ pc = [g \in Get |-> "new"]
    /\ on = [g \in Get |-> None]
    /\ reading = [g \in Get |-> 0]
    /\ result = [g \in Get |-> None]
    /\ fresh = [p \in Process |-> 0]
    /\ need = [g \in Get |-> 0]

-----------------------------------------------------------------------------
(* Definitions that say "Faulty" are variants for the mutation runs.       *)

Expired(ents, e) == ents[e].ttl <= now

\* if (entry.building).                     Faulty: another build is started.
NeverBuilding(ents, e) == FALSE
IsBuilding(ents, e) == ents[e].building # "no"

\* entry.building = undefined
NoPromise == "no"

\* ttl: l2Entry.ttl, as the broker has it.  Faulty: taken as relative, so that the
\* time the value spent on the broker does not count.
TtlFromNow(stored) == now + stored.ttl
TtlOf(stored) == stored.ttl

Send(p, m) == toBroker' = [toBroker EXCEPT ![p] = Append(@, m)]

\* The end of a get().
Return(g, value) ==
    /\ pc' = [pc EXCEPT ![g] = "done"]
    /\ result' = [result EXCEPT ![g] = value]
    /\ UNCHANGED <<on, reading>>

StartBuild(g, e, ents) ==
    /\ entry' = [ents EXCEPT ![e].building = "running"]
    /\ pc' = [pc EXCEPT ![g] = "building"]
    /\ on' = [on EXCEPT ![g] = e]
    /\ reading' = [reading EXCEPT ![g] = data]
    /\ UNCHANGED result

\* "check ttl": what a get() does with the entry it has found.
Check(g, e, ents) ==
    \/ ~Expired(ents, e) /\ Return(g, ents[e].value) /\ entry' = ents
    \/ Expired(ents, e) /\ ~IsBuilding(ents, e) /\ StartBuild(g, e, ents)
    \/ /\ Expired(ents, e) /\ IsBuilding(ents, e)
       /\ entry' = ents
       /\ IF ents[e].built > 0 /\ ents[e].ttl - now < maxStale
          THEN Return(g, ents[e].value)
          ELSE /\ pc' = [pc EXCEPT ![g] =
                          IF ents[e].building = "failed" THEN "threw" ELSE "waiting"]
               /\ on' = [on EXCEPT ![g] = e]
               /\ UNCHANGED <<reading, result>>

\* store.set(key, entry): the timer remembers the in-memory ttl.
StoreSet(p, g) ==
    IF InMemoryTtl = 0
    THEN UNCHANGED <<l1, timers>>
    ELSE /\ l1' = [l1 EXCEPT ![p] = g]
         /\ timers' = timers \cup {[type |-> "memory", process |-> p, due |-> now + InMemoryTtl]}

\* getCache(): the first one of a process enables invalidation messages before.
Ask(g) ==
    LET p == ProcessOf[g]
        first == p \notin asked
    IN  /\ pc' = [pc EXCEPT ![g] = IF first THEN "enabling" ELSE "fetching"]
        /\ Send(p, [type |-> IF first THEN "Enable" ELSE "GetCache", of |-> g])

\* get() reads L1, and asks the broker if there is no entry.
get(g) ==
    LET p == ProcessOf[g]
    IN  /\ pc[g] = "new"
        /\ need' = [need EXCEPT ![g] = fresh[p]]
        /\ \/ /\ l1[p] # None
              /\ Check(g, l1[p], entry)
              /\ UNCHANGED toBroker
           \/ /\ l1[p] = None
              /\ Ask(g)
              /\ UNCHANGED <<entry, on, reading, result>>
        /\ asked' = IF l1[p] = None THEN asked \cup {p} ELSE asked
        /\ UNCHANGED <<worldVars, l1, timers, brokerVars, toClient, history>>

Arrives(p, type) ==
    /\ toClient[p] # <<>> /\ Head(toClient[p]).type = type
    /\ toClient' = [toClient EXCEPT ![p] = Tail(@)]

\* The messages are enabled, getCache() goes on.
enabledAck(p) ==
    LET g == Head(toClient[p]).of
    IN  /\ Arrives(p, "Enabled")
        /\ pc' = [pc EXCEPT ![g] = "fetching"]
        /\ Send(p, [type |-> "GetCache", of |-> g])
        /\ UNCHANGED <<worldVars, storeVars, brokerVars, on, reading, result, need, asked, history>>

\* The broker has answered: its value becomes an entry, or an empty one is made.
fetched(p) ==
    LET g == Head(toClient[p]).of
        stored == Head(toClient[p]).stored
        made(value, ttl) ==
            [entry EXCEPT ![g] = [value |-> value, ttl |-> ttl, built |-> 0, building |-> "no"]]
    IN  /\ Arrives(p, "Value")
        /\ StoreSet(p, g)
        /\ IF stored = None
           THEN StartBuild(g, g, made(None, now + Ttl))
           ELSE Check(g, g, made(stored.value, TtlOf(stored)))
        /\ UNCHANGED <<worldVars, brokerVars, toBroker, need, asked, history>>

\* The builder returns; who waits for the build returns with it.
built(g) ==
    LET e == on[g]
        value == [version |-> reading[g], at |-> now]
        waiting == { w \in Get : pc[w] = "waiting" /\ on[w] = e }
    IN  /\ pc[g] = "building"
        /\ entry' = [entry EXCEPT ![e] =
             [value |-> value, ttl |-> now + Ttl, built |-> @.built + 1, building |-> NoPromise]]
        /\ pc' = [w \in Get |-> CASE w = g -> "storing"
                                   [] w \in waiting -> "done"
                                   [] OTHER -> pc[w]]
        /\ result' = [w \in Get |-> IF w \in waiting THEN value ELSE result[w]]
        /\ Send(ProcessOf[g], [type |-> "SetCache", of |-> g, value |-> value])
        /\ UNCHANGED <<worldVars, l1, timers, brokerVars, toClient, on, reading, need, asked,
                       history>>

\* The builder throws: entry.building stays, a rejected promise.
failed(g) ==
    /\ MayThrow /\ pc[g] = "building"
    /\ entry' = [entry EXCEPT ![on[g]].building = "failed"]
    /\ pc' = [w \in Get |-> IF w = g \/ (pc[w] = "waiting" /\ on[w] = on[g])
                             THEN "threw" ELSE pc[w]]
    /\ UNCHANGED <<worldVars, l1, timers, brokerVars, netVars, on, reading, result, need, asked,
                   history>>

\* setCache() is acknowledged.
stored(p) ==
    LET g == Head(toClient[p]).of
    IN  /\ Arrives(p, "Ack")
        /\ Return(g, entry[on[g]].value)
        /\ UNCHANGED <<worldVars, storeVars, brokerVars, toBroker, need, asked, history>>

\* Faulty: without maxStale the entry is expired instead of deleted.
ExpireOnly(p) ==
    /\ entry' = IF l1[p] = None THEN entry ELSE [entry EXCEPT ![l1[p]].ttl = now]
    /\ UNCHANGED l1
\* this.cache.delete(key)
DeleteNow(p) == l1' = [l1 EXCEPT ![p] = None] /\ UNCHANGED entry

\* store.invalidate(key): the entry is deleted, or expires now and is deleted after
\* maxStale. From then on the version of this moment is due.
StoreInvalidate(p) ==
    \/ /\ maxStale = 0
       /\ DeleteNow(p)
       /\ fresh' = [fresh EXCEPT ![p] = data]
       /\ UNCHANGED timers
    \/ /\ maxStale > 0 /\ l1[p] = None
       /\ fresh' = [fresh EXCEPT ![p] = data]
       /\ UNCHANGED storeVars
    \/ /\ maxStale > 0 /\ l1[p] # None
       /\ entry' = [entry EXCEPT ![l1[p]].ttl = now]
       /\ timers' = timers \cup {[type |-> "stale", process |-> p, due |-> now + maxStale,
                                  of |-> l1[p], version |-> data]}
       /\ UNCHANGED <<l1, fresh>>

\* invalidate(): here, and on the broker.
invalidate(p) ==
    /\ invalidates < MaxInvalidate
    /\ invalidates' = invalidates + 1
    /\ StoreInvalidate(p)
    /\ Send(p, [type |-> "InvalidateCache"])
    /\ UNCHANGED <<worldVars, brokerVars, toClient, getVars, asked>>

\* An invalidation message of the broker.
invalidated(p) ==
    /\ Arrives(p, "Invalidation")
    /\ StoreInvalidate(p)
    /\ UNCHANGED <<worldVars, brokerVars, toBroker, getVars, asked, invalidates>>

\* The timer of store.set() deletes the entry if its ttl equals the in-memory ttl.
memoryTimer(t) ==
    /\ t.type = "memory" /\ t.due <= now
    /\ timers' = timers \ {t}
    /\ l1' = IF l1[t.process] # None /\ entry[l1[t.process]].ttl = t.due
             THEN [l1 EXCEPT ![t.process] = None] ELSE l1
    /\ UNCHANGED <<worldVars, entry, brokerVars, netVars, getVars, asked, history>>

\* The entry is deleted, unless it was replaced since.
DropStale(t) == IF l1[t.process] = t.of THEN [l1 EXCEPT ![t.process] = None] ELSE l1

\* The timer of store.invalidate().
staleTimer(t) ==
    /\ t.type = "stale" /\ t.due <= now
    /\ timers' = timers \ {t}
    /\ l1' = DropStale(t)
    /\ fresh' = [fresh EXCEPT ![t.process] = IF @ > t.version THEN @ ELSE t.version]
    /\ UNCHANGED <<worldVars, entry, brokerVars, netVars, getVars, asked, invalidates>>

-----------------------------------------------------------------------------
(* The broker, and the world.                                              *)

Handles(p, type) ==
    /\ toBroker[p] # <<>> /\ Head(toBroker[p]).type = type
    /\ toBroker' = [toBroker EXCEPT ![p] = Tail(@)]

Reply(p, m) == toClient' = [toClient EXCEPT ![p] = Append(@, m)]

handleEnable(p) ==
    /\ Handles(p, "Enable")
    /\ enabled' = enabled \cup {p}
    /\ Reply(p, [type |-> "Enabled", of |-> Head(toBroker[p]).of])
    /\ UNCHANGED <<worldVars, storeVars, l2, getVars, asked, history>>

handleGetCache(p) ==
    /\ Handles(p, "GetCache")
    /\ Reply(p, [type |-> "Value", of |-> Head(toBroker[p]).of, stored |-> l2])
    /\ UNCHANGED <<worldVars, storeVars, brokerVars, getVars, asked, history>>

\* The ttl is stored as it came: relative.
handleSetCache(p) ==
    /\ Handles(p, "SetCache")
    /\ l2' = [value |-> Head(toBroker[p]).value, ttl |-> Ttl]
    /\ Reply(p, [type |-> "Ack", of |-> Head(toBroker[p]).of])
    /\ UNCHANGED <<worldVars, storeVars, enabled, getVars, asked, history>>

\* Nothing happens if the broker has no entry, or nobody enabled the messages.
handleInvalidateCache(p) ==
    /\ Handles(p, "InvalidateCache")
    /\ IF l2 # None /\ enabled # {}
       THEN /\ l2' = None
            /\ toClient' = [q \in Process |->
                 IF q \in enabled THEN Append(toClient[q], [type |-> "Invalidation"])
                 ELSE toClient[q]]
       ELSE UNCHANGED <<l2, toClient>>
    /\ UNCHANGED <<worldVars, storeVars, enabled, getVars, asked, history>>

tick == now < MaxNow /\ now' = now + 1
        /\ UNCHANGED <<maxStale, data, storeVars, brokerVars, netVars, getVars, asked, history>>

write == data < MaxVersion /\ data' = data + 1
         /\ UNCHANGED <<maxStale, now, storeVars, brokerVars, netVars, getVars, asked, history>>

Client(p) == enabledAck(p) \/ fetched(p) \/ stored(p) \/ invalidated(p)
Broker(p) == handleEnable(p) \/ handleGetCache(p) \/ handleSetCache(p) \/ handleInvalidateCache(p)

Next ==
    \/ \E g \in Get : get(g) \/ built(g) \/ failed(g)
    \/ \E p \in Process : Client(p) \/ Broker(p) \/ invalidate(p)
    \/ \E t \in timers : memoryTimer(t) \/ staleTimer(t)
    \/ tick \/ write

Spec == Init /\ [][Next]_vars

-----------------------------------------------------------------------------
\* After an invalidation has reached a process, and maxStale has passed, a get()
\* called there never returns a version older than the invalidation, whatever was
\* fetched, built or stored meanwhile, here or elsewhere.
FreshAfterInvalidate ==
    \A g \in Get : pc[g] = "done" /\ result[g] # None => result[g].version >= need[g]

\* A valid entry holds a value that was built less than ttl ago, also if it came from
\* the broker.
FreshWhileValid ==
    \A p \in Process : l1[p] # None /\ entry[l1[p]].value # None /\ ~Expired(entry, l1[p]) =>
        now < entry[l1[p]].value.at + Ttl

\* An entry is never built twice at the same time.
SingleFlight ==
    \A g, h \in Get : pc[g] = "building" /\ pc[h] = "building" /\ on[g] = on[h] => g = h

\* A get() that waits for the build of its entry waits for a builder that still
\* runs, and will return or throw with it.
WaitersAreServed ==
    \A g \in Get : pc[g] = "waiting" =>
        \E h \in Get : pc[h] = "building" /\ on[h] = on[g]

\* One build at a time per entry serves all that came for it.
BuildsShared == TypeOK /\ SingleFlight /\ WaitersAreServed

=============================================================================
