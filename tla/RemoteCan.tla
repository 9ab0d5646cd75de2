------------------------------ MODULE RemoteCan ------------------------------
(***************************************************************************)
(* RemoteCanTransport (android/.../transport/RemoteCanTransport.kt): the   *)
(* phone's connection to the remote diagnostics hub, with its reconnection *)
(* and its channel of incoming frames.                                     *)
(*                                                                         *)
(* Three kinds of thread meet in it: whoever calls connect() and close(),  *)
(* OkHttp's threads, which run the callbacks of each WebSocket, and the    *)
(* coroutines the callbacks launch in `scope`.  newWebSocket returns at    *)
(* once, so a callback may run before connect() has assigned the field     *)
(* `socket` (`current` below).  OkHttp is external: every WebSocket ends   *)
(* in exactly one of onClosed and onFailure, except that a close frame of  *)
(* the server calls onClosing alone, which the listener does not override, *)
(* until the client closes too or fails to write.  A hub that can be       *)
(* reached refuses the handshake of a token that has expired               *)
(* (websocket_remote.py 72-74), which is onFailure too.                    *)
(***************************************************************************)
EXTENDS Integers, FiniteSets, Sequences, SequencesExt

CONSTANTS
  Socket,       \* WebSocket objects, reused once nothing refers to them
  NoSocket,     \* null
  MaxConnect,   \* bound: calls of connect() by the application
  MaxClose,     \* bound: calls of close(), and closes by the server
  MaxDrop,      \* bound: losses of the network
  MaxAttempt,   \* bound: failed connections in a row
  MaxFrame,     \* bound: frames received
  Capacity      \* capacity of the channel `incoming`

ASSUME RemoteCanConstantsOK ==
  /\ NoSocket \notin Socket
  /\ {MaxConnect, MaxClose, MaxDrop, MaxAttempt, MaxFrame} \subseteq Nat
  /\ Capacity \in Nat \ {0}

VARIABLES
  up,          \* the hub can be reached
  valid,       \* the hub still accepts accessToken, which is a val
  alive,       \* `scope` is active
  socketState, \* where each WebSocket is in its life
  current,     \* the field `socket`
  assigning,   \* sockets whose connect() has not assigned the field yet
  asked,       \* open_gateway commands each WebSocket took
  attempt,     \* reconnectAttempt
  launched,    \* connectWithRetry coroutines launched and not started
  computing,   \* those that incremented the counter and not yet read it
  waiting,     \* the delays, in seconds, of those in delay()
  senders,     \* frames whose coroutine has not delivered them
  incoming,    \* the channel
  consumed,    \* frames its consumer has taken
  received,    \* frames handed to onMessage so far (bounded, history)
  connects, closes, drops, \* bounded counts of what the environment did
  overtaken    \* sockets that opened before they were assigned (history)

retryVars == <<attempt, launched, computing, waiting>>
frameVars == <<senders, incoming, consumed, received>>
canBounds == <<connects, closes, drops>>
canVars == <<up, valid, alive, socketState, current, assigning, asked, retryVars, frameVars,
             canBounds, overtaken>>

\* "closing": the client's close frame is queued or sent; "hung": the
\* server's close frame came first and onClosing was ignored.
SocketStates == {"free", "connecting", "connecting-closing", "open", "closing", "hung"}

RemoteCanInit ==
  /\ up = TRUE /\ valid = TRUE /\ alive = TRUE
  /\ socketState = [s \in Socket |-> "free"]
  /\ current = NoSocket /\ assigning = {}
  /\ asked = [s \in Socket |-> 0]
  /\ attempt = 0 /\ launched = 0 /\ computing = 0 /\ waiting = <<>>
  /\ senders = {} /\ incoming = <<>> /\ consumed = <<>> /\ received = 0
  /\ connects = 0 /\ closes = 0 /\ drops = 0 /\ overtaken = {}

-----------------------------------------------------------------------------
\* min(1000L * (1 shl (n - 1)), 30_000L) in seconds: the shift count is taken
\* modulo 32, 1 shl 31 is negative, and delay() of that returns at once.
BackoffDelay(n) ==
  LET shift == (n - 1) % 32
  IN  CASE shift = 31 -> 0
        [] shift \in 5..30 -> 30
        [] OTHER -> 2 ^ shift

\* send: socket?.send(...), which a WebSocket that has ended or that has been
\* asked to close refuses; one that is still connecting queues it.
Takes(s) == s # NoSocket /\ socketState[s] \in {"connecting", "open", "hung"}

\* A WebSocket that ended is forgotten once the field names another one.
Reusable(s) == socketState[s] = "free" /\ s # current /\ s \notin assigning

\* client.newWebSocket(...): the first half of connect().
NewWebSocket(s) ==
  /\ Reusable(s)
  /\ socketState' = [socketState EXCEPT ![s] = "connecting"]
  /\ assigning' = assigning \cup {s}

AppConnect(s) ==
  /\ connects < MaxConnect
  /\ NewWebSocket(s)
  /\ connects' = connects + 1
  /\ UNCHANGED <<up, valid, alive, current, asked, retryVars, frameVars, closes, drops, overtaken>>

\* socket = ...: the second half of connect().
AssignSocket(s) ==
  /\ s \in assigning
  /\ current' = s
  /\ assigning' = assigning \ {s}
  /\ UNCHANGED <<up, valid, alive, socketState, asked, retryVars, frameVars, canBounds, overtaken>>

\* Faulty variant of OnOpen: a reconnection does not ask for the gateway again.
OnOpenFirstOnly(s) ==
  /\ up /\ valid
  /\ socketState[s] \in {"connecting", "connecting-closing"}
  /\ socketState' = [socketState EXCEPT
       ![s] = IF @ = "connecting" THEN "open" ELSE "closing"]
  /\ attempt' = 0
  /\ asked' = IF Takes(current) /\ attempt = 0
              THEN [asked EXCEPT ![current] = @ + 1] ELSE asked
  /\ overtaken' = IF current # s THEN overtaken \cup {s} ELSE overtaken
  /\ UNCHANGED <<up, valid, alive, current, assigning, launched, computing, waiting, frameVars,
                 canBounds>>

\* onOpen, for a socket whose handshake the hub answered.
OnOpen(s) ==
  /\ up /\ valid
  /\ socketState[s] \in {"connecting", "connecting-closing"}
  /\ socketState' = [socketState EXCEPT
       ![s] = IF @ = "connecting" THEN "open" ELSE "closing"]
  /\ attempt' = 0
  /\ asked' = IF Takes(current) THEN [asked EXCEPT ![current] = @ + 1] ELSE asked
  /\ overtaken' = IF current # s THEN overtaken \cup {s} ELSE overtaken
  /\ UNCHANGED <<up, valid, alive, current, assigning, launched, computing, waiting, frameVars,
                 canBounds>>

\* scope.launch { ... } does nothing once the scope is cancelled.
Relaunch == launched' = IF alive THEN launched + 1 ELSE launched

Ended(s) ==
  /\ socketState' = [socketState EXCEPT ![s] = "free"]
  /\ asked' = [asked EXCEPT ![s] = 0]
  /\ overtaken' = overtaken \ {s}

\* What has ended, or will: a handshake that no hub answers or that the hub
\* refuses, a connection that is lost, a close frame the server leaves
\* unanswered.
Failing(s) ==
  \/ socketState[s] \in {"connecting", "connecting-closing"} /\ ~(up /\ valid)
  \/ socketState[s] = "open" /\ ~up
  \/ socketState[s] = "closing"

\* Faulty variant of OnFailure: only a connection that had opened is retried.
OnFailureOfOpenOnly(s) ==
  /\ Failing(s)
  /\ attempt + launched + computing < MaxAttempt
  /\ Ended(s)
  /\ IF socketState[s] = "connecting" THEN UNCHANGED launched ELSE Relaunch
  /\ UNCHANGED <<up, valid, alive, current, assigning, attempt, computing, waiting, frameVars,
                 canBounds>>

OnFailure(s) ==
  /\ Failing(s)
  /\ attempt + launched + computing < MaxAttempt
  /\ Ended(s) /\ Relaunch
  /\ UNCHANGED <<up, valid, alive, current, assigning, attempt, computing, waiting, frameVars,
                 canBounds>>

\* send() on a connection the server has closed: the write fails, and that is
\* onFailure.  It takes an application that sends, and a viewer may not.
SendFails ==
  /\ current # NoSocket /\ socketState[current] = "hung"
  /\ attempt + launched + computing < MaxAttempt
  /\ Ended(current) /\ Relaunch
  /\ UNCHANGED <<up, valid, alive, current, assigning, attempt, computing, waiting, frameVars,
                 canBounds>>

\* Faulty variant of OnClosed: it reconnects itself besides launching a retry.
OnClosedTwice(s) ==
  /\ up /\ socketState[s] = "closing"
  /\ Ended(s) /\ launched' = IF alive THEN launched + 2 ELSE launched
  /\ UNCHANGED <<up, valid, alive, current, assigning, attempt, computing, waiting, frameVars,
                 canBounds>>

\* onClosed: both sides have sent their close frame.
OnClosed(s) ==
  /\ up /\ socketState[s] = "closing"
  /\ Ended(s) /\ Relaunch
  /\ UNCHANGED <<up, valid, alive, current, assigning, attempt, computing, waiting, frameVars,
                 canBounds>>

\* The server closes first.
ServerCloses(s) ==
  /\ up /\ closes < MaxClose
  /\ socketState[s] = "open"
  /\ socketState' = [socketState EXCEPT ![s] = "hung"]
  /\ closes' = closes + 1
  /\ UNCHANGED <<up, valid, alive, current, assigning, asked, retryVars, frameVars, connects, drops,
                 overtaken>>

\* close(): on a socket the server has closed already, onClosed follows.
TransportClose ==
  /\ closes < MaxClose
  /\ Takes(current)
  /\ socketState' = [socketState EXCEPT
       ![current] = IF @ = "connecting" THEN "connecting-closing" ELSE "closing"]
  /\ closes' = closes + 1
  /\ UNCHANGED <<up, valid, alive, current, assigning, asked, retryVars, frameVars, connects, drops,
                 overtaken>>
-----------------------------------------------------------------------------
\* Faulty variant of CountAttempt: a retry starts without having been launched.
CountAttemptUnlaunched ==
  /\ alive /\ computing < MaxAttempt
  /\ launched' = launched - 1 /\ computing' = computing + 1
  /\ attempt' = attempt + 1
  /\ UNCHANGED <<up, valid, alive, socketState, current, assigning, asked, waiting, frameVars,
                 canBounds, overtaken>>

\* connectWithRetry up to reconnectAttempt++.
CountAttempt ==
  /\ alive /\ launched > 0
  /\ launched' = launched - 1 /\ computing' = computing + 1
  /\ attempt' = attempt + 1
  /\ UNCHANGED <<up, valid, alive, socketState, current, assigning, asked, waiting, frameVars,
                 canBounds, overtaken>>

\* It reads the counter again for the delay, and an onOpen of another socket
\* may have reset it in between.
StartDelay ==
  /\ alive /\ computing > 0
  /\ computing' = computing - 1
  /\ waiting' = Append(waiting, BackoffDelay(attempt))
  /\ UNCHANGED <<up, valid, alive, socketState, current, assigning, asked, attempt, launched,
                 frameVars, canBounds, overtaken>>

\* The delay is over: connect() again.
Reconnect(s) ==
  /\ alive
  /\ \E i \in DOMAIN waiting : waiting' = RemoveAt(waiting, i)
  /\ NewWebSocket(s)
  /\ UNCHANGED <<up, valid, alive, current, attempt, asked, launched, computing, frameVars,
                 canBounds, overtaken>>
-----------------------------------------------------------------------------
\* onMessage: the frame is handed to a coroutine of its own.
OnMessage(s) ==
  /\ up /\ socketState[s] = "open"
  /\ received < MaxFrame
  /\ received' = received + 1
  /\ senders' = IF alive THEN senders \cup {received'} ELSE senders
  /\ UNCHANGED <<up, valid, alive, socketState, current, assigning, asked, retryVars, incoming,
                 consumed, canBounds, overtaken>>

\* Faulty variant of SendIncoming: trySend, which drops what does not fit.
SendIncomingOrDrop(f) ==
  /\ alive /\ f \in senders
  /\ incoming' = IF Len(incoming) < Capacity THEN Append(incoming, f) ELSE incoming
  /\ senders' = senders \ {f}
  /\ UNCHANGED <<up, valid, alive, socketState, current, assigning, asked, retryVars, consumed,
                 received, canBounds, overtaken>>

\* incoming.send suspends while the channel is full; the coroutines run in
\* any order.
SendIncoming(f) ==
  /\ alive /\ f \in senders
  /\ Len(incoming) < Capacity
  /\ incoming' = Append(incoming, f)
  /\ senders' = senders \ {f}
  /\ UNCHANGED <<up, valid, alive, socketState, current, assigning, asked, retryVars, consumed,
                 received, canBounds, overtaken>>

Consume ==
  /\ incoming # <<>>
  /\ consumed' = Append(consumed, Head(incoming))
  /\ incoming' = Tail(incoming)
  /\ UNCHANGED <<up, valid, alive, socketState, current, assigning, asked, retryVars, senders,
                 received, canBounds, overtaken>>
-----------------------------------------------------------------------------
NetworkDown ==
  /\ up /\ drops < MaxDrop
  /\ up' = FALSE /\ drops' = drops + 1
  /\ UNCHANGED <<valid, alive, socketState, current, assigning, asked, retryVars, frameVars,
                 connects, closes, overtaken>>

NetworkUp ==
  /\ ~up /\ up' = TRUE
  /\ UNCHANGED <<valid, alive, socketState, current, assigning, asked, retryVars, frameVars,
                 canBounds, overtaken>>

TokenExpires ==
  /\ valid /\ valid' = FALSE
  /\ UNCHANGED <<up, alive, socketState, current, assigning, asked, retryVars, frameVars,
                 canBounds, overtaken>>

\* The owner of the scope cancels it, and every coroutine in it.
CancelScope ==
  /\ alive /\ connects = MaxConnect
  /\ alive' = FALSE
  /\ launched' = 0 /\ computing' = 0 /\ waiting' = <<>> /\ senders' = {}
  /\ UNCHANGED <<up, valid, socketState, current, assigning, asked, attempt, incoming, consumed,
                 received, canBounds, overtaken>>

RemoteCanNext ==
  \/ \E s \in Socket :
       \/ AppConnect(s) \/ AssignSocket(s) \/ OnOpen(s) \/ OnFailure(s) \/ OnClosed(s)
       \/ ServerCloses(s) \/ Reconnect(s) \/ OnMessage(s)
  \/ \E f \in senders : SendIncoming(f)
  \/ TransportClose \/ SendFails \/ CountAttempt \/ StartDelay \/ Consume
  \/ NetworkDown \/ NetworkUp \/ TokenExpires \/ CancelScope

RemoteCanSpec == RemoteCanInit /\ [][RemoteCanNext]_canVars

\* Threads, coroutines and OkHttp's callbacks run; whether the network comes
\* back, and what the application and the server do, is left open.
RemoteCanFairness ==
  /\ WF_canVars(CountAttempt) /\ WF_canVars(StartDelay)
  /\ WF_canVars(\E s \in Socket : AssignSocket(s))
  /\ WF_canVars(\E s \in Socket : Reconnect(s))
  /\ \A s \in Socket : WF_canVars(OnOpen(s)) /\ WF_canVars(OnFailure(s) \/ OnClosed(s))

RemoteCanFairSpec == RemoteCanSpec /\ RemoteCanFairness
-----------------------------------------------------------------------------
RemoteCanTypeOK ==
  /\ up \in BOOLEAN /\ valid \in BOOLEAN /\ alive \in BOOLEAN
  /\ socketState \in [Socket -> SocketStates]
  /\ current \in Socket \cup {NoSocket} /\ assigning \subseteq Socket
  /\ asked \in [Socket -> Nat]
  /\ attempt \in Nat /\ launched \in Nat /\ computing \in Nat
  /\ waiting \in Seq(0..30)
  /\ senders \subseteq 1..received
  /\ incoming \in Seq(1..received) /\ consumed \in Seq(1..received)
  /\ received \in 0..MaxFrame
  /\ connects \in 0..MaxConnect /\ closes \in 0..MaxClose /\ drops \in 0..MaxDrop
  /\ overtaken \subseteq Socket

LiveSockets == {s \in Socket : socketState[s] # "free"}

(* No reconnection storm and no lost reconnection: while the scope is        *)
(* active, WebSockets that have not ended and retries under way are together *)
(* as many as the application's calls of connect(), however failures, closes *)
(* of either side and threads interleave.                                    *)
ConnectionsConserved ==
  alive => Cardinality(LiveSockets) + launched + computing + Len(waiting) = connects

(* A frame given to onMessage is in exactly one place: in its coroutine,     *)
(* in the channel, which holds at most its capacity, or taken by the         *)
(* consumer; a full channel delays frames and drops none.                    *)
FramesConserved ==
  /\ Len(incoming) <= Capacity
  /\ IsInjective(incoming \o consumed)
  /\ senders \cap ToSet(incoming \o consumed) = {}
  /\ alive => senders \cup ToSet(incoming \o consumed) = 1..received

(* With one call of connect(), a connection that is open has been asked to   *)
(* open the gateway exactly once, unless its onOpen overtook the assignment  *)
(* of the field it sends through.                                            *)
GatewayReissued ==
  connects = 1 =>
    \A s \in Socket : socketState[s] = "open" =>
      /\ asked[s] <= 1
      /\ asked[s] = 0 => s \in overtaken

(* Once the network stays, the token is valid, the scope active and no       *)
(* connection is left that the server closed, the phone is connected again   *)
(* and again: no callback and no delay of a retry loses the chain.           *)
Reconnects ==
  <>[](/\ up /\ valid /\ alive /\ connects > 0
       /\ \A s \in Socket : socketState[s] # "hung") =>
    []<>(\E s \in Socket : socketState[s] = "open")

(* What the protocol asks of clients, "retry a dropped connection"           *)
(* (RemoteCanProtocol.md 49): one that the server has closed is given up     *)
(* for a retry, as long as the scope is active and the token valid.          *)
DroppedIsRetried ==
  \A s \in Socket : socketState[s] = "hung" ~> (alive /\ valid => socketState[s] # "hung")

(* Each retry waits between the base and the cap the protocol document       *)
(* gives: 1 s and 30 s.                                                      *)
BackoffWaits == \A i \in DOMAIN waiting : waiting[i] \in 1..30
=============================================================================
