------------------------------ MODULE RpcClient ------------------------------
(***************************************************************************)
(* The client side of the RPC protocol: RpcClientTransporter, which holds  *)
(* at most one transport connection and opens it on demand, and            *)
(* RpcBaseClient, whose table of replies maps a message id to the subject  *)
(* that waits for its answer (packages/rpc/src/client).                    *)
(*                                                                         *)
(* Every message is a call of sendMessage(), every connection attempt is a *)
(* call of doConnect() and is named by the socket it opens.  A step is one *)
(* task of the event loop with the microtasks it queues: no other event    *)
(* comes between them.  A socket opens or fails some time after connect(); *)
(* what it reports after close() comes at once (the in-process transports) *)
(* or as a task of its own (WebSocket, TCP).  The handshake stands for the *)
(* client id request and the authentication after it.  Listeners that call *)
(* the client from within an event, peers and statistics are left out.     *)
(***************************************************************************)
EXTENDS Naturals, FiniteSets

CONSTANTS Msg,             \* the messages that are sent
          None,            \* no socket
          Late,            \* whether a socket reports after it was given up:
                           \* FALSE in process, TRUE for WebSocket and TCP
          MaxSocket,       \* bound: the sockets the client opens
          MaxDisconnect    \* bound: the calls of disconnect()

Socket == 1 .. MaxSocket

\* Every message opens a socket at most; a bound below that would stop it.
ASSUME RpcAssumption ==
  /\ MaxSocket \in Nat /\ MaxDisconnect \in Nat
  /\ None \notin Socket
  /\ Late \subseteq BOOLEAN

VARIABLES sock,            \* what the operating system says of a socket
          conn,            \* transportConnection
          writer,          \* the socket "writer" writes to
          promise,         \* connectionPromise: the attempt it belongs to
          connected,       \* connected
          connectionId,    \* connectionId
          replies,         \* the messages in "replies"
          handshakes,      \* the sockets whose handshake is in "replies"
          attempt,         \* the promise doConnect() returned
          caller,          \* where sendMessage() and its connect() are
          of,              \* the attempt it waits for, or the socket it used
          born,            \* connectionId when the message was created
          outcome,         \* what the subject of the message was told
          follows,         \* history: <<message, socket>> of a later send()
          leaving,         \* disconnect(): idle, waiting for an attempt or resuming
          calls,           \* bounded: how often disconnect() was called
          late             \* the transport closes a socket after close() returns

vars == <<sock, conn, writer, promise, connected, connectionId, replies,
          handshakes, attempt, caller, of, born, outcome, follows, leaving, calls, late>>

Init ==
  /\ late \in Late
  /\ sock = [s \in Socket |-> "unused"]
  /\ conn = None /\ writer = None /\ promise = None
  /\ connected = FALSE
  /\ connectionId = 0
  /\ replies = {} /\ handshakes = {}
  /\ attempt = [s \in Socket |-> "none"]
  /\ caller = [m \in Msg |-> "idle"]
  /\ of = [m \in Msg |-> None]
  /\ born = [m \in Msg |-> 0]
  /\ outcome = [m \in Msg |-> "none"]
  /\ follows = {}
  /\ leaving = [at |-> "idle", on |-> None] /\ calls = 0

---------------------------------------------------------------------------
\* connect() and sendMessage()

\* Definitions that say "Faulty" are variants for the mutation runs.

\* What close() makes of a socket.
Abandoned == IF late THEN "closing" ELSE "closed"

\* The caller is in a connect() that awaits the attempt.
Awaits(m, s) == caller[m] \in {"waits", "attempts"} /\ of[m] = s

\* The next socket to be opened.
Fresh(s) == sock[s] = "unused" /\ \A t \in Socket : t < s => sock[t] # "unused"

\* doConnect() closes the connection it finds and opens a socket.
Attempt(m, s) ==
  /\ Fresh(s)
  /\ sock' = [t \in Socket |-> IF t = s THEN "connecting"
                               ELSE IF t = conn THEN Abandoned ELSE sock[t]]
  /\ conn' = None
  /\ promise' = s
  /\ attempt' = [attempt EXCEPT ![s] = "transport"]
  /\ caller' = [caller EXCEPT ![m] = "attempts"]
  /\ of' = [of EXCEPT ![m] = s]

\* connect(): wait for the attempt of another, or return, or attempt.
Connect(m) ==
  \/ /\ promise # None
     /\ caller' = [caller EXCEPT ![m] = "waits"]
     /\ of' = [of EXCEPT ![m] = promise]
     /\ UNCHANGED <<sock, conn, promise, attempt>>
  \/ /\ promise = None /\ connected
     /\ caller' = [caller EXCEPT ![m] = "sent"]
     /\ of' = [of EXCEPT ![m] = writer]
     /\ UNCHANGED <<sock, conn, promise, attempt>>
  \/ promise = None /\ ~connected /\ \E s \in Socket : Attempt(m, s)

\* sendMessage(): the subject is in "replies" before the connection is there.
SendMessage(m) ==
  /\ caller[m] = "idle"
  /\ replies' = replies \cup {m}
  /\ born' = [born EXCEPT ![m] = connectionId]
  /\ IF connected
     THEN /\ caller' = [caller EXCEPT ![m] = "sent"]
          /\ of' = [of EXCEPT ![m] = writer]
          /\ UNCHANGED <<sock, conn, promise, attempt>>
     ELSE Connect(m)
  /\ UNCHANGED <<writer, connected, connectionId, handshakes, outcome, follows, leaving, calls>>

\* The pause of connect() after an attempt it waited for is over.
Wake(m) ==
  /\ caller[m] = "sleeps"
  /\ Connect(m)
  /\ UNCHANGED <<writer, connected, connectionId, replies, handshakes, born, outcome,
                 follows, leaving, calls>>

\* The connection is the one the subject was created for.
\* Faulty: any will do.
AnyConnection(m) == TRUE
SameConnection(m) == born[m] = connectionId

\* send() of a subject: the same message again, unless the connection changed.
Follow(m) ==
  /\ caller[m] = "sent"
  /\ SameConnection(m)
  /\ follows' = follows \cup {<<m, writer>>}
  /\ UNCHANGED <<sock, conn, writer, promise, connected, connectionId, replies,
                 handshakes, attempt, caller, of, born, outcome, leaving, calls>>

---------------------------------------------------------------------------
\* The effects of a disconnect and of a settled attempt

\* onDisconnect() finds no connection and leaves the replies alone.
NothingToDrop == UNCHANGED <<conn, connected, connectionId, replies, handshakes, outcome>>

\* Faulty: a subject whose message is not sent yet is dropped without a word.
DropSent ==
  /\ conn' = None
  /\ connected' = FALSE
  /\ connectionId' = connectionId + 1
  /\ replies' = {}
  /\ handshakes' = {}
  /\ outcome' = [m \in Msg |-> IF m \in replies /\ caller[m] = "sent"
                               THEN "rejected" ELSE outcome[m]]

\* onDisconnect(): the connection is forgotten and every reply rejected.
Drop ==
  /\ conn' = None
  /\ connected' = FALSE
  /\ connectionId' = connectionId + 1
  /\ replies' = {}
  /\ handshakes' = {}
  /\ outcome' = [m \in Msg |-> IF m \in replies THEN "rejected" ELSE outcome[m]]

\* The attempts fail: the connect() of their callers rejects.
Reject(failed) ==
  LET fails == {s \in failed : attempt[s] \in {"transport", "handshake"}} IN
  /\ attempt' = [s \in Socket |-> IF s \in fails THEN "rejected" ELSE attempt[s]]
  /\ caller' = [m \in Msg |-> IF \E s \in fails : Awaits(m, s) THEN "failed" ELSE caller[m]]

\* disconnect() throws what the attempt it waits for was rejected with.
LeaveFails ==
  leaving' = IF leaving.at = "waits" /\ attempt'[leaving.on] = "rejected"
             THEN [at |-> "idle", on |-> None] ELSE leaving

\* The rejected handshakes make their attempts fail.
\* Faulty: their subjects are cleared only.
OnlyFailed(failed) == failed
Failing(failed) == failed \cup handshakes

\* onDisconnect() with the attempts it makes fail: the rejected handshakes.
OnDisconnect(failed) ==
  /\ promise' = None
  /\ IF conn = None THEN NothingToDrop /\ Reject(failed)
                    ELSE Drop /\ Reject(Failing(failed))
  /\ UNCHANGED <<writer, of, born, follows>>

---------------------------------------------------------------------------
\* The transport's callbacks

\* onConnected(): the socket replaces the connection; the handshake is sent.
Opens(s) ==
  /\ sock[s] = "connecting"
  /\ sock' = [sock EXCEPT ![s] = "open"]
  /\ conn' = s /\ writer' = s
  /\ connected' = FALSE
  /\ handshakes' = handshakes \cup {s}
  /\ attempt' = [attempt EXCEPT ![s] = "handshake"]
  /\ UNCHANGED <<promise, connectionId, replies, caller, of, born, outcome, follows, leaving, calls>>

\* The handshake is answered: the callers go on, disconnect() too.
Connected(s) ==
  /\ s \in handshakes /\ sock[s] \in {"open", "closing"}
  /\ handshakes' = handshakes \ {s}
  /\ connected' = TRUE
  /\ IF attempt[s] = "handshake"
     THEN /\ attempt' = [attempt EXCEPT ![s] = "resolved"]
          /\ promise' = None
          /\ caller' = [m \in Msg |-> IF ~Awaits(m, s) THEN caller[m]
                                      ELSE IF caller[m] = "attempts" THEN "sent" ELSE "sleeps"]
          /\ of' = [m \in Msg |-> IF Awaits(m, s) THEN writer ELSE of[m]]
          /\ leaving' = IF leaving.at = "waits" /\ leaving.on = s
                        THEN [at |-> "resumes", on |-> None] ELSE leaving
     ELSE UNCHANGED <<attempt, promise, caller, of, leaving>>
  /\ UNCHANGED <<sock, conn, writer, connectionId, replies, born, outcome, follows, calls>>

\* The handshake is refused: the connection is dropped, its socket stays open.
Refused(s) ==
  /\ s \in handshakes /\ sock[s] \in {"open", "closing"}
  /\ promise' = None
  /\ IF conn = None
     THEN /\ handshakes' = handshakes \ {s}
          /\ connected' = FALSE
          /\ Reject({s})
          /\ UNCHANGED <<conn, connectionId, replies, outcome>>
     ELSE Drop /\ Reject(Failing({}))
  /\ LeaveFails
  /\ UNCHANGED <<sock, writer, of, born, follows, calls>>

\* onError() of a socket that cannot connect.
ConnectFails(s) ==
  /\ sock[s] = "connecting"
  /\ sock' = [sock EXCEPT ![s] = "closed"]
  /\ OnDisconnect({s}) /\ LeaveFails /\ UNCHANGED calls

\* Whether the socket still calls back.
Reports(s) == sock[s] \in {"open", "closing"} /\ (s = conn \/ late)

\* onError() of an open socket: the attempt it may be in is rejected as well.
SocketFails(s) ==
  /\ Reports(s)
  /\ sock' = [sock EXCEPT ![s] = "closed"]
  /\ OnDisconnect({s}) /\ LeaveFails /\ UNCHANGED calls

\* onClose() of a socket, whichever the connection is by now.
SocketCloses(s) ==
  /\ Reports(s)
  /\ sock' = [sock EXCEPT ![s] = "closed"]
  /\ OnDisconnect({}) /\ LeaveFails /\ UNCHANGED calls

\* The answer of the server settles the message and releases its subject.
Reply(m) ==
  /\ caller[m] = "sent" /\ sock[of[m]] \in {"open", "closing"}
  /\ m \in replies
  /\ replies' = replies \ {m}
  /\ outcome' = [outcome EXCEPT ![m] = "answered"]
  /\ UNCHANGED <<sock, conn, writer, promise, connected, connectionId, handshakes,
                 attempt, caller, of, born, follows, leaving, calls>>

---------------------------------------------------------------------------
\* disconnect()

\* It waits for the attempt, or closes the connection and drops it.
Leave ==
  \/ /\ promise # None
     /\ leaving' = [at |-> "waits", on |-> promise]
     /\ UNCHANGED <<sock, conn, writer, promise, connected, connectionId, replies,
                    handshakes, attempt, caller, of, born, outcome, follows>>
  \/ /\ promise = None /\ conn # None
     /\ leaving' = [at |-> "idle", on |-> None]
     /\ sock' = [sock EXCEPT ![conn] = Abandoned]
     /\ OnDisconnect({})
  \/ /\ promise = None /\ conn = None
     /\ leaving' = [at |-> "idle", on |-> None]
     /\ UNCHANGED <<sock, conn, writer, promise, connected, connectionId, replies,
                    handshakes, attempt, caller, of, born, outcome, follows>>

Disconnect ==
  /\ leaving.at = "idle" /\ calls < MaxDisconnect
  /\ calls' = calls + 1
  /\ Leave

\* The attempt it waited for is there: it goes on before any other event.
Resume == leaving.at = "resumes" /\ Leave /\ calls' = calls

\* A task of the event loop, which waits for what is resumed.
Turn(A) == A /\ leaving.at # "resumes" /\ UNCHANGED late

OfMessage(m) == SendMessage(m) \/ Wake(m) \/ Follow(m) \/ Reply(m)
OfSocket(s) == \/ Opens(s) \/ Connected(s) \/ Refused(s)
               \/ ConnectFails(s) \/ SocketFails(s) \/ SocketCloses(s)

Next ==
  \/ \E m \in Msg : Turn(OfMessage(m))
  \/ \E s \in Socket : Turn(OfSocket(s))
  \/ Turn(Disconnect)
  \/ Resume /\ late' = late

Spec == Init /\ [][Next]_vars

\* A transport opens or fails, a handshake is answered or its socket ends, and
\* the timer of a pause and a promise that is resolved are run.
Fairness ==
  /\ \A s \in Socket : WF_vars(Turn(Opens(s) \/ ConnectFails(s)))
  /\ \A s \in Socket : WF_vars(Turn(Connected(s) \/ Refused(s) \/ SocketFails(s) \/ SocketCloses(s)))
  /\ \A m \in Msg : WF_vars(Turn(Wake(m)))
  /\ WF_vars(Resume /\ late' = late)

FairSpec == Spec /\ Fairness

---------------------------------------------------------------------------
\* Properties

TypeOK ==
  /\ late \in Late
  /\ sock \in [Socket -> {"unused", "connecting", "open", "closing", "closed"}]
  /\ conn \in Socket \cup {None} /\ writer \in Socket \cup {None}
  /\ promise \in Socket \cup {None}
  /\ connected \in BOOLEAN
  /\ connectionId \in Nat
  /\ replies \subseteq Msg /\ handshakes \subseteq Socket
  /\ attempt \in [Socket -> {"none", "transport", "handshake", "resolved", "rejected"}]
  /\ caller \in [Msg -> {"idle", "waits", "sleeps", "attempts", "failed", "sent"}]
  /\ of \in [Msg -> Socket \cup {None}]
  /\ born \in [Msg -> Nat]
  /\ outcome \in [Msg -> {"none", "answered", "rejected"}]
  /\ follows \subseteq Msg \X (Socket \cup {None})
  /\ leaving \in [at : {"idle", "waits", "resumes"}, on : Socket \cup {None}]
  /\ calls \in Nat

\* The table of replies loses nobody: a message leaves it by its answer or by
\* a disconnect that rejects it, and by nothing else (RpcBaseClient.replies,
\* filled before the connection exists and cleared when any connection drops).
RepliesAccounted ==
  /\ TypeOK
  /\ \A m \in replies : caller[m] # "idle" /\ outcome[m] = "none"
  /\ \A m \in Msg \ replies : outcome[m] = "none" <=> caller[m] = "idle"

\* As long as no socket reports after it was given up, the state the client
\* shows is that of one live connection: "connected" means the connection it
\* writes to is open, no sent message waits for an answer on a socket that is
\* closed, and what a subject sends later goes where its message went
\* (onDisconnect() and doConnect(), which keep this in four variables).
ConnectionUsable ==
  late \/ /\ connected => conn # None /\ conn = writer /\ sock[conn] = "open"
          /\ \A m \in replies : caller[m] = "sent" => sock[of[m]] # "closed"
          /\ \A f \in follows : f[2] = of[f[1]]

\* Under the same condition every connect() and every disconnect() that waits
\* for an attempt returns or throws (connect() loops while connectionPromise
\* is set; onDisconnect() clears it under the feet of those that wait).
ConnectSettles ==
  /\ \A m \in Msg : (~late /\ caller[m] \in {"waits", "attempts", "sleeps"})
                       ~> caller[m] \in {"sent", "failed"}
  /\ (~late /\ leaving.at # "idle") ~> leaving.at = "idle"

\* "we ignore errors here since created RpcMessageSubject receive them"
\* (client.ts): the subject of a message whose connect() failed was told so.
FailedConnectIsTold == \A m \in Msg : caller[m] = "failed" => m \notin replies
=============================================================================
