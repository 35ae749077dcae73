------------------------------ MODULE BusSubject ------------------------------
(***************************************************************************)
(* The bus subjects of packages/broker/src/broker.ts: BrokerBus.subject()  *)
(* and activateSubject(), BrokerBusSubject with its count of observers,    *)
(* and BrokerBusSubjectHandle, which shares one subscription of a channel  *)
(* among the subjects of a path, buffers and replays.                      *)
(*                                                                         *)
(* One BrokerBus, one path, one connection that stands. Below the handles  *)
(* is the channel of deepkit-adapter.ts, as BrokerBus models it: its count *)
(* of listeners, and whether the broker forwards messages. A promise       *)
(* reaction that can run does so before the next message or answer comes,  *)
(* but after the code that is running: what user code does in between is   *)
(* an action of its own. Finalizers are no part of user code: the engine   *)
(* runs them whenever it likes, in tasks of one or several.                *)
(***************************************************************************)
EXTENDS Integers, Sequences, FiniteSets, Arrays

CONSTANTS
    Subject, Handle, None,
    MaxObservers,  \* bound: observers of a subject at a time
    MaxPublish,    \* bound: messages that arrive
    Patient,       \* does code let the reactions of its releases run before it goes on?
    MayFail,       \* may the broker refuse a subscription?
    OneShot        \* may an observer unsubscribe while it is called?

ASSUME BusSubjectAssumption ==
    /\ None \notin Handle
    /\ MaxObservers \in Nat /\ MaxPublish \in Nat
    /\ {Patient, MayFail, OneShot} \subseteq BOOLEAN

VARIABLES
    current,    \* BrokerBus.subjectHandles.get(path)
    handle,     \* BrokerBusSubject.handle, None before the subject is made
    gone,       \* subjects that were garbage collected
    refCount,   \* BrokerBusSubject.refCount
    got,        \* what the observers of a subject were called with
    activation, \* activateSubject() of a subject: "no", "waiting", "done" or "failed"
    subjects,   \* BrokerBusSubjectHandle.subjects
    buffer,     \* BrokerBusSubjectHandle.buffer
    channel,    \* releaseChannel: "none", or the state of the promise
    closing,    \* how many reactions that call release wait for releaseChannel
    listeners,  \* channel.listeners of the adapter
    asker,      \* the handle that waits for the answer to Subscribe
    forwarding, \* does the broker forward the messages of the channel?
    log,        \* how many messages came
    passed,     \* subjects a message passed over (history)
    since, base, \* log when a handle became live, and from where a subject is due
    finalizing, \* is the engine in a task of finalizers, with reactions waiting for its end?
    leaving,    \* handles user code released, whose reactions did not run (history)
    hasty       \* did a finalizer release a handle before it was open, or once more
                \* before the reactions of a release had run? (history)

subjectVars == <<handle, gone, refCount, got, activation, base, passed>>
adapterVars == <<listeners, asker, forwarding>>
vars == <<current, subjectVars, subjects, buffer, channel, closing, adapterVars, log, since,
          finalizing, leaving, hasty>>

TypeOK ==
    /\ current \in Handle \cup {None} /\ asker \in Handle \cup {None}
    /\ handle \in [Subject -> Handle \cup {None}]
    /\ gone \subseteq Subject
    /\ refCount \in [Subject -> 0 .. MaxObservers]
    /\ \A s \in Subject : Items(got[s]) \subseteq 1 .. MaxPublish
    /\ activation \in [Subject -> {"no", "waiting", "done", "failed"}]
    /\ \A h \in Handle : /\ Items(subjects[h]) \subseteq Subject
                         /\ Items(buffer[h]) \subseteq 1 .. MaxPublish
    /\ channel \in [Handle -> {"none", "pending", "open", "rejected"}]
    /\ closing \in [Handle -> Nat]
    /\ listeners \in Int /\ forwarding \in BOOLEAN
    /\ log \in 0 .. MaxPublish
    /\ passed \subseteq Subject
    /\ since \in [Handle -> 0 .. MaxPublish] /\ base \in [Subject -> 0 .. MaxPublish]
    /\ leaving \subseteq Handle /\ {finalizing, hasty} \subseteq BOOLEAN

Init ==
    /\ current = None /\ asker = None /\ gone = {}
    /\ handle = [s \in Subject |-> None]
    /\ refCount = [s \in Subject |-> 0]
    /\ got = [s \in Subject |-> <<>>]
    /\ activation = [s \in Subject |-> "no"]
    /\ subjects = [h \in Handle |-> <<>>]
    /\ buffer = [h \in Handle |-> <<>>]
    /\ channel = [h \in Handle |-> "none"]
    /\ closing = [h \in Handle |-> 0]
    /\ listeners = 0 /\ forwarding = FALSE
    /\ log = 0 /\ passed = {}
    /\ since = [h \in Handle |-> 0]
    /\ base = [s \in Subject |-> 0]
    /\ leaving = {} /\ finalizing = FALSE /\ hasty = FALSE

-----------------------------------------------------------------------------
\* A subject nobody collected.
Alive(s) == handle[s] # None /\ s \notin gone

\* A subject user code may use now: patient code knows of its own releases, but not of
\* those of a finalizer, and it does not run before a reaction that can.
Usable(s) ==
    LET h == handle[s]
    IN  Alive(s) /\ (Patient => h \notin leaving /\ (closing[h] = 0 \/ channel[h] = "pending"))

\* Messages of the channel reach the handle.
Live(h) == channel[h] = "open" /\ closing[h] = 0 /\ forwarding

\* A promise reaction can run.
Pending == \E h \in Handle : channel[h] = "open" /\ closing[h] > 0

\* bus.subject(path): the handle of the path, or a new one.
subject(s) ==
    /\ handle[s] = None
    /\ \E h \in Handle :
         /\ IF current # None THEN h = current ELSE \A t \in Subject : handle[t] # h
         /\ current' = h
         /\ handle' = [handle EXCEPT ![s] = h]
    /\ UNCHANGED <<gone, refCount, got, activation, base, passed, subjects, buffer, channel,
                   closing, adapterVars, log>>

\* ensureSubscribed(): nothing if releaseChannel is set. The first listener of the
\* adapter's channel sends Subscribe.
EnsureSubscribed(h) ==
    IF channel[h] # "none"
    THEN UNCHANGED <<channel, listeners, asker>>
    ELSE /\ channel' = [channel EXCEPT ![h] = "pending"]
         /\ listeners' = listeners + 1
         /\ asker' = IF listeners = 0 THEN h ELSE asker

\* Definitions that say "Faulty" are variants for the mutation runs.

\* The buffer is replayed to the first observer.       Faulty: it is discarded.
Discard(s) == got[s]
Replay(s) == got[s] \o buffer[handle[s]]

\* this.buffer = [] afterwards.                         Faulty: it stays.
StaysFull(h) == buffer
Emptied(h) == [buffer EXCEPT ![h] = <<>>]

\* arrayRemoveItem(this.subjects, subject).            Faulty: it stays.
StaysListed(s) == subjects[handle[s]]
Unlisted(s) == arrayRemoveItem(subjects[handle[s]], s)

\* this.releaseChannel = undefined.                    Faulty: it stays set.
StaysSet(h) == channel
Unset(h) == [channel EXCEPT ![h] = "none"]

\* release?.() of the channel.                         Faulty: it is not called.
NotReleased(h) == listeners
ChannelReleases(h) == listeners - closing[h]

\* subject.subscribe(observer)
observe(s) ==
    LET h == handle[s]
    IN  /\ Usable(s) /\ refCount[s] < MaxObservers
        /\ refCount' = [refCount EXCEPT ![s] = @ + 1]
        /\ IF refCount[s] > 0
           THEN UNCHANGED <<subjects, got, buffer, base, channel, listeners, asker>>
           ELSE /\ subjects' = [subjects EXCEPT ![h] = Append(@, s)]
                /\ got' = [got EXCEPT ![s] = Replay(s)]
                /\ buffer' = Emptied(h)
                /\ base' = [base EXCEPT ![s] = IF subjects[h] = <<>> /\ Live(h)
                                               THEN since[h] ELSE log]
                /\ EnsureSubscribed(h)
        /\ UNCHANGED <<current, handle, gone, activation, passed, closing, forwarding, log>>

\* releaseSubject(): the last one releases the channel as soon as the promise is
\* resolved, and takes the handle, whichever it is, out of BrokerBus.
ReleaseSubject(s) ==
    LET h == handle[s]
    IN  /\ subjects' = [subjects EXCEPT ![h] = Unlisted(s)]
        /\ IF Unlisted(s) # <<>>
           THEN UNCHANGED <<closing, current>>
           ELSE /\ current' = None
                /\ closing' = IF channel[h] \in {"pending", "open"}
                              THEN [closing EXCEPT ![h] = @ + 1] ELSE closing

\* subscription.unsubscribe()
unobserve(s) ==
    /\ Usable(s) /\ refCount[s] > 0
    /\ refCount' = [refCount EXCEPT ![s] = @ - 1]
    /\ IF refCount[s] = 1 THEN ReleaseSubject(s) ELSE UNCHANGED <<subjects, closing, current>>
    /\ UNCHANGED <<handle, gone, got, activation, base, passed, buffer, channel, adapterVars, log>>

\* The subjectFinalizer of a subject nobody refers to: whatever the promise of the
\* channel is, and after reactions that can run, unless these wait for the end of the
\* task it runs in itself. (A call of activateSubject() refers to its subject.)
collect(s) ==
    /\ Alive(s) /\ activation[s] # "waiting"
    /\ Pending => finalizing
    /\ gone' = gone \cup {s}
    /\ refCount' = [refCount EXCEPT ![s] = 0]
    /\ ReleaseSubject(s)
    /\ UNCHANGED <<handle, got, activation, base, passed, buffer, channel, adapterVars, log>>

\* bus.activateSubject(subject)
activateSubject(s) ==
    /\ Usable(s) /\ activation[s] = "no"
    /\ EnsureSubscribed(handle[s])
    /\ activation' = [activation EXCEPT ![s] =
                        IF channel[handle[s]] = "none" THEN "waiting" ELSE "done"]
    /\ UNCHANGED <<current, handle, gone, refCount, got, base, passed, subjects, buffer, closing,
                   forwarding, log>>

\* The promise of channel.subscribe() settles.
Settle(h, state, outcome) ==
    /\ ~Pending
    /\ channel[h] = "pending"
    /\ channel' = [channel EXCEPT ![h] = state]
    /\ activation' = [s \in Subject |-> IF handle[s] = h /\ activation[s] = "waiting"
                                        THEN outcome ELSE activation[s]]
    /\ asker' = IF asker = h THEN None ELSE asker
    /\ UNCHANGED <<current, handle, gone, refCount, got, base, passed, subjects, buffer,
                   listeners, log>>

opened(h) ==
    /\ Settle(h, "open", "done")
    /\ forwarding' = (forwarding \/ asker = h)
    /\ UNCHANGED closing

\* Only the listener that asked the broker can be refused. The listener remains, and
\* the reactions that would call release never run.
refused(h) ==
    /\ MayFail /\ asker = h
    /\ Settle(h, "rejected", "failed")
    /\ closing' = [closing EXCEPT ![h] = 0]
    /\ UNCHANGED forwarding

\* The reactions to releaseChannel run: each calls release. At zero listeners the
\* channel is unsubscribed.
closeChannel(h) ==
    /\ channel[h] = "open" /\ closing[h] > 0
    /\ channel' = Unset(h)
    /\ closing' = [closing EXCEPT ![h] = 0]
    /\ listeners' = ChannelReleases(h)
    /\ forwarding' = (forwarding /\ 0 \notin listeners' .. (listeners - 1))
    /\ UNCHANGED <<current, subjectVars, subjects, buffer, asker, log>>

\* A message comes: every handle that listens buffers it or passes it to its
\* subjects.
Passed(skipped) ==
    LET listening == { h \in Handle : channel[h] # "none" }
    IN  /\ forwarding /\ ~Pending /\ log < MaxPublish
        /\ log' = log + 1
        /\ buffer' = [h \in Handle |-> IF h \in listening /\ subjects[h] = <<>>
                                       THEN Append(buffer[h], log + 1) ELSE buffer[h]]
        /\ got' = [s \in Subject |->
             IF \E h \in listening : s \in Items(subjects[h]) \ skipped
             THEN Append(got[s], log + 1) ELSE got[s]]
        /\ passed' = passed \cup skipped
        /\ UNCHANGED <<handle, gone, activation, base, channel, adapterVars>>

message == Passed({}) /\ UNCHANGED <<current, refCount, subjects, closing>>

\* The only observer of a subject unsubscribes when it is called: the array shrinks
\* under the loop and the next subject is passed over.
messageOneShot(h, i) ==
    LET s == subjects[h][i]
    IN  /\ OneShot /\ refCount[s] = 1
        /\ refCount' = [refCount EXCEPT ![s] = 0]
        /\ Passed({ subjects[h][j] : j \in {i + 1} \cap DOMAIN subjects[h] })
        /\ ReleaseSubject(s)

Step ==
    \/ \E s \in Subject : \/ subject(s) \/ observe(s) \/ unobserve(s)
                          \/ collect(s) \/ activateSubject(s)
    \/ \E h \in Handle : \/ opened(h) \/ refused(h) \/ closeChannel(h)
                         \/ \E i \in DOMAIN subjects[h] : messageOneShot(h, i)
    \/ message

\* What a step leaves: a task of finalizers may go on with the next one. The rest is
\* remembered: since, as long as the handle stays live, and who released it, and when.
\* (Only a finalizer makes a subject gone.)
Afterwards ==
    /\ finalizing' = (gone' # gone /\ Pending')
    /\ since' = [h \in Handle |-> IF Live(h) /\ Live(h)' THEN since[h] ELSE log']
    /\ leaving' = { h \in Handle : /\ closing'[h] > 0
                                   /\ h \in leaving \/ (closing'[h] > closing[h] /\ gone' = gone) }
    /\ hasty' = (hasty \/ \E h \in Handle : /\ closing'[h] > closing[h] /\ gone' # gone
                                            /\ channel[h] = "pending" \/ closing[h] > 0)

Next == Step /\ Afterwards

Spec == Init /\ [][Next]_vars

\* Promises settle, however often reactions that can run go first, and these run.
Fairness == \A h \in Handle :
    SF_vars((opened(h) \/ refused(h)) /\ Next) /\ WF_vars(closeChannel(h) /\ Next)

FairSpec == Spec /\ Fairness

-----------------------------------------------------------------------------
\* From the larger of base[s] and since[h] on, a subject of a live handle has got
\* every message, in order and once: what was buffered before its first observer
\* came and what came after: unless a message passed it over, because the subject
\* before it lost its observer meanwhile.
AllHeard ==
    \A s \in Subject : refCount[s] > 0 /\ Live(handle[s]) /\ s \notin passed =>
        LET from == IF base[s] > since[handle[s]] THEN base[s] ELSE since[handle[s]]
            due == log - from
        IN  /\ Len(got[s]) >= due
            /\ SubSeq(got[s], Len(got[s]) - due + 1, Len(got[s])) = [ i \in 1 .. due |-> from + i ]

\* The observers of a subject get messages in the order they came and none twice, over
\* its whole life: also when the buffer replayed to it was filled while it had no
\* observer, or is left from a subscription that ended before the channel opened.
NothingTwice ==
    \A s \in Subject : \A i, j \in DOMAIN got[s] : i < j => got[s][i] < got[s][j]

\* What observers get: all that is due to them, in order, and never anything twice.
AllOnceInOrder == AllHeard /\ NothingTwice

\* A subject stands in the list of its handle exactly while it has observers, once.
ListedIffObserved ==
    /\ TypeOK
    /\ \A h \in Handle : Once(subjects[h])
    /\ \A s \in Subject : handle[s] # None =>
         (s \in Items(subjects[handle[s]]) <=> refCount[s] > 0)

\* The adapter never counts more listeners than there are handles that hold a channel,
\* and it counts exactly these if code lets the reactions of its releases run, unless
\* a finalizer was hasty. (One release too many would silence every other listener of
\* the path, and later ones; a hasty finalizer does that.)
ListenersBalanced ==
    LET holding == Cardinality({ h \in Handle : channel[h] # "none" })
    IN  listeners <= holding /\ (Patient /\ ~hasty => listeners = holding)

\* A subject with observers is connected to the broker in the end: also when it is
\* subscribed again, or its handle is shared with a subject that was collected. (Two
\* things make every later subscription of the path deaf: one that was refused stays
\* counted, and a hasty finalizer.)
ObserversHear ==
    \A s \in Subject : refCount[s] > 0 ~>
        (refCount[s] = 0 \/ Live(handle[s]) \/ hasty
           \/ \E h \in Handle : channel[h] = "rejected")

\* createSubject(): "The subject starts broker subscription on first observer". With a
\* broker that refuses nothing a subject with observers would be connected to it in the
\* end, whatever the engine collects. The code does not do this: what a hasty finalizer
\* queues closes the channel under a subject observed meanwhile. So ObserversHear, not
\* this, is what holds.
FirstObserverSubscribes ==
    \A s \in Subject : refCount[s] > 0 ~> (refCount[s] = 0 \/ Live(handle[s]))

=============================================================================
