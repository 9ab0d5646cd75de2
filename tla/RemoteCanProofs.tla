---------------------------- MODULE RemoteCanProofs ----------------------------
(***************************************************************************)
(* What holds of the phone's connection to the hub for any number of       *)
(* sockets, connects, closes, failures and frames, and any capacity of the *)
(* channel.                                                                *)
(***************************************************************************)
EXTENDS RemoteCan, FiniteSetTheorems, SequenceTheorems, TLAPS

(* Sockets that live and retries under way never exceed the calls of       *)
(* connect(), and are as many while the scope is active.                   *)
Retries == launched + computing + Len(waiting)

LiveCounted ==
  /\ IsFiniteSet(LiveSockets)
  /\ Cardinality(LiveSockets) + Retries <= connects
  /\ ConnectionsConserved

(* A socket takes no command of its own before onOpen.                     *)
AskedOnce ==
  connects <= 1 => \A s \in Socket :
    /\ socketState[s] \in {"free", "connecting", "connecting-closing"} => asked[s] = 0
    /\ socketState[s] = "open" => asked[s] <= 1 /\ (asked[s] = 0 => s \in overtaken)

RemoteCanInv == RemoteCanTypeOK /\ LiveCounted /\ FramesConserved /\ AskedOnce

-----------------------------------------------------------------------------
(* A delay is at most 30 seconds.                                          *)
LEMMA BackoffDelayBounded == \A n \in Nat : BackoffDelay(n) \in 0..30
<1> TAKE n \in Nat
<1> DEFINE shift == (n - 1) % 32
<1>1. shift \in 0..31
  OBVIOUS
<1> HIDE DEF shift
<1>2. 2 ^ 0 = 1 /\ 2 ^ 1 = 2 /\ 2 ^ 2 = 4 /\ 2 ^ 3 = 8 /\ 2 ^ 4 = 16
  OBVIOUS
<1>3. shift \in 0..4 => 2 ^ shift \in 0..30
  <2> SUFFICES ASSUME shift \in 0..4 PROVE 2 ^ shift \in 0..30
    OBVIOUS
  <2>1. shift = 0 \/ shift = 1 \/ shift = 2 \/ shift = 3 \/ shift = 4
    OBVIOUS
  <2>2. 2 ^ shift \in {1, 2, 4, 8, 16}
    BY <1>2, <2>1, Zenon
  <2> QED BY <2>2
<1>4. BackoffDelay(n) =
        CASE shift = 31 -> 0 [] shift \in 5..30 -> 30 [] OTHER -> 2 ^ shift
  BY DEF BackoffDelay, shift
<1> QED BY <1>1, <1>3, <1>4

(* RemoveAt takes one element out.                                         *)
LEMMA RemoveAtShortens ==
  ASSUME NEW S, NEW s \in Seq(S), NEW i \in 1..Len(s)
  PROVE  RemoveAt(s, i) \in Seq(S) /\ Len(RemoveAt(s, i)) = Len(s) - 1
<1> DEFINE a == SubSeq(s, 1, i - 1)
           b == SubSeq(s, i + 1, Len(s))
<1>1. a \in Seq(S) /\ Len(a) = i - 1
  OBVIOUS
<1>2. b \in Seq(S) /\ Len(b) = Len(s) - i
  OBVIOUS
<1>3. RemoveAt(s, i) = a \o b
  BY DEF RemoveAt
<1> HIDE DEF a, b
<1> QED BY <1>1, <1>2, <1>3

(* Nothing has happened at first.                                          *)
LEMMA InitRemoteCanInv == RemoteCanInit => RemoteCanInv
<1> SUFFICES ASSUME RemoteCanInit PROVE RemoteCanInv
  OBVIOUS
<1> USE RemoteCanConstantsOK DEF RemoteCanInit
<1>1. RemoteCanTypeOK
  BY DEF RemoteCanTypeOK, SocketStates
<1>2. LiveCounted
  <2>1. LiveSockets = {} /\ Len(waiting) = 0
    BY DEF LiveSockets
  <2> QED BY <2>1, FS_EmptySet DEF LiveCounted, ConnectionsConserved, Retries
<1>3. FramesConserved
  <2>1. incoming \o consumed = <<>> /\ Len(incoming) = 0
    OBVIOUS
  <2> QED BY <2>1 DEF FramesConserved, IsInjective, ToSet
<1>4. AskedOnce
  BY DEF AskedOnce
<1> QED BY <1>1, <1>2, <1>3, <1>4 DEF RemoteCanInv

-----------------------------------------------------------------------------
(* Sockets and the application keep the types.                             *)
LEMMA SocketStepTypeOK ==
  ASSUME RemoteCanTypeOK, NEW s \in Socket,
         \/ AppConnect(s) \/ AssignSocket(s) \/ OnOpen(s) \/ OnFailure(s) \/ OnClosed(s)
         \/ ServerCloses(s) \/ Reconnect(s)
  PROVE  RemoteCanTypeOK'
<1> USE RemoteCanConstantsOK DEF RemoteCanTypeOK, SocketStates, retryVars, frameVars, canBounds
<1>1. CASE AppConnect(s)
  BY <1>1 DEF AppConnect, NewWebSocket
<1>2. CASE AssignSocket(s)
  BY <1>2 DEF AssignSocket
<1>3. CASE OnOpen(s)
  <2>1. current \in Socket => asked[current] + 1 \in Nat
    OBVIOUS
  <2>2. asked' \in [Socket -> Nat]
    BY <1>3, <2>1 DEF OnOpen, Takes
  <2> QED BY <1>3, <2>2 DEF OnOpen
<1>4. CASE OnFailure(s)
  BY <1>4 DEF OnFailure, Ended, Relaunch
<1>5. CASE OnClosed(s)
  BY <1>5 DEF OnClosed, Ended, Relaunch
<1>6. CASE ServerCloses(s)
  BY <1>6 DEF ServerCloses
<1>7. CASE Reconnect(s)
  <2>1. waiting' \in Seq(0..30)
    BY <1>7, RemoveAtShortens DEF Reconnect
  <2> QED BY <1>7, <2>1 DEF Reconnect, NewWebSocket
<1> QED BY <1>1, <1>2, <1>3, <1>4, <1>5, <1>6, <1>7

(* Retries, frames and the network keep the types.                         *)
LEMMA OtherStepTypeOK ==
  ASSUME RemoteCanTypeOK,
         \/ \E s \in Socket : OnMessage(s)
         \/ \E f \in senders : SendIncoming(f)
         \/ TransportClose \/ SendFails \/ CountAttempt \/ StartDelay \/ Consume
         \/ NetworkDown \/ NetworkUp \/ TokenExpires \/ CancelScope
  PROVE  RemoteCanTypeOK'
<1> USE RemoteCanConstantsOK DEF RemoteCanTypeOK, SocketStates, retryVars, frameVars, canBounds
<1>1. CASE \E s \in Socket : OnMessage(s)
  <2>1. received' = received + 1 /\ received' \in 0..MaxFrame
    BY <1>1 DEF OnMessage
  <2>2. 1..received \subseteq 1..received' /\ received' \in 1..received'
    BY <2>1
  <2>3. Seq(1..received) \subseteq Seq(1..received')
    BY <2>2, SeqMonotonic
  <2>4. senders' \subseteq 1..received'
    BY <1>1, <2>2 DEF OnMessage
  <2> QED BY <1>1, <2>1, <2>3, <2>4 DEF OnMessage
<1>2. CASE \E f \in senders : SendIncoming(f)
  <2>1. PICK f \in senders : SendIncoming(f)
    BY <1>2
  <2>2. /\ incoming' = Append(incoming, f) /\ senders' = senders \ {f}
        /\ UNCHANGED <<up, valid, alive, socketState, current, assigning, asked, retryVars, consumed,
                       received, canBounds, overtaken>>
    BY <2>1 DEF SendIncoming
  <2>3. f \in 1..received /\ incoming \in Seq(1..received)
    OBVIOUS
  <2>4. incoming' \in Seq(1..received)
    BY <2>2, <2>3
  <2> QED BY <2>2, <2>4
<1>3. CASE TransportClose
  BY <1>3 DEF TransportClose, Takes
<1>4. CASE CountAttempt
  BY <1>4 DEF CountAttempt
<1>5. CASE StartDelay
  <2>1. /\ computing > 0 /\ computing' = computing - 1
        /\ waiting' = Append(waiting, BackoffDelay(attempt))
        /\ UNCHANGED <<up, valid, alive, socketState, current, assigning, asked, attempt, launched,
                       frameVars, canBounds, overtaken>>
    BY <1>5 DEF StartDelay
  <2>2. BackoffDelay(attempt) \in 0..30 /\ waiting \in Seq(0..30)
    BY BackoffDelayBounded
  <2>3. waiting' \in Seq(0..30)
    BY <2>1, <2>2
  <2>4. computing' \in Nat
    BY <2>1
  <2> QED BY <2>1, <2>3, <2>4
<1>6. CASE Consume
  <2>1. /\ incoming # <<>> /\ incoming \in Seq(1..received) /\ consumed \in Seq(1..received)
        /\ incoming' = Tail(incoming) /\ consumed' = Append(consumed, Head(incoming))
        /\ UNCHANGED <<up, valid, alive, socketState, current, assigning, asked, retryVars, senders,
                       received, canBounds, overtaken>>
    BY <1>6 DEF Consume
  <2>2. incoming' \in Seq(1..received) /\ consumed' \in Seq(1..received)
    <3> HIDE DEF RemoteCanTypeOK
    <3>1. Head(incoming) \in 1..received /\ Tail(incoming) \in Seq(1..received)
      BY <2>1, HeadTailProperties
    <3> QED BY <2>1, <3>1
  <2> QED BY <2>1, <2>2
<1>7. CASE NetworkDown \/ NetworkUp
  <2>0. up' \in BOOLEAN
    BY <1>7, Zenon DEF NetworkDown, NetworkUp
  <2>1. drops' \in 0..MaxDrop
    <3>1. (drops < MaxDrop /\ drops' = drops + 1) \/ UNCHANGED drops
      BY <1>7 DEF NetworkDown, NetworkUp
    <3>2. drops \in 0..MaxDrop
      OBVIOUS
    <3> HIDE DEF RemoteCanTypeOK
    <3> QED BY <3>1, <3>2
  <2>2. UNCHANGED <<valid, alive, socketState, current, assigning, asked, retryVars, frameVars,
                    connects, closes, overtaken>>
    BY <1>7 DEF NetworkDown, NetworkUp
  <2> QED BY <2>0, <2>1, <2>2
<1>8. CASE CancelScope
  <2>0. alive' \in BOOLEAN
    BY <1>8, Zenon DEF CancelScope
  <2>1. /\ launched' \in Nat /\ computing' \in Nat
        /\ waiting' \in Seq(0..30) /\ senders' \subseteq 1..received
    BY <1>8 DEF CancelScope
  <2>2. UNCHANGED <<up, valid, socketState, current, assigning, asked, attempt, incoming, consumed,
                    received, canBounds, overtaken>>
    BY <1>8 DEF CancelScope
  <2> QED BY <2>0, <2>1, <2>2
<1>9. CASE SendFails
  BY <1>9 DEF SendFails, Ended, Relaunch
<1>10. CASE TokenExpires
  <2>1. valid' \in BOOLEAN
    BY <1>10, Zenon DEF TokenExpires
  <2>2. UNCHANGED <<up, alive, socketState, current, assigning, asked, retryVars, frameVars,
                    canBounds, overtaken>>
    BY <1>10 DEF TokenExpires
  <2> QED BY <2>1, <2>2
<1> QED BY <1>1, <1>2, <1>3, <1>4, <1>5, <1>6, <1>7, <1>8, <1>9, <1>10

(* Every step keeps the types.                                             *)
LEMMA NextRemoteCanTypeOK == RemoteCanTypeOK /\ [RemoteCanNext]_canVars => RemoteCanTypeOK'
<1>1. RemoteCanTypeOK /\ UNCHANGED canVars => RemoteCanTypeOK'
  BY DEF RemoteCanTypeOK, canVars, retryVars, frameVars, canBounds
<1> QED BY <1>1, SocketStepTypeOK, OtherStepTypeOK DEF RemoteCanNext

-----------------------------------------------------------------------------
(* newWebSocket adds one socket to those that live.                        *)
LEMMA NewSocketLives ==
  ASSUME RemoteCanTypeOK, IsFiniteSet(LiveSockets), NEW s \in Socket, NewWebSocket(s)
  PROVE  IsFiniteSet(LiveSockets') /\ Cardinality(LiveSockets') = Cardinality(LiveSockets) + 1
<1>1. LiveSockets' = LiveSockets \cup {s} /\ s \notin LiveSockets
  BY DEF RemoteCanTypeOK, LiveSockets, NewWebSocket, Reusable
<1> QED BY <1>1, FS_AddElement

(* onFailure and onClosed take one away.                                   *)
LEMMA EndedSocketGoes ==
  ASSUME RemoteCanTypeOK, IsFiniteSet(LiveSockets), NEW s \in Socket, socketState[s] # "free",
         Ended(s)
  PROVE  IsFiniteSet(LiveSockets') /\ Cardinality(LiveSockets') = Cardinality(LiveSockets) - 1
<1>1. LiveSockets' = LiveSockets \ {s} /\ s \in LiveSockets
  BY DEF RemoteCanTypeOK, LiveSockets, Ended
<1> QED BY <1>1, FS_RemoveElement

(* What no socket begins or ends with, and launches no retry.              *)
LEMMA SameLive ==
  ASSUME RemoteCanTypeOK, LiveCounted, LiveSockets' = LiveSockets,
         UNCHANGED <<launched, computing, waiting, connects, alive>>
  PROVE  LiveCounted'
  BY DEF LiveCounted, Retries, ConnectionsConserved

(* Every step that ends a socket launches one retry, every retry that is   *)
(* over begins a socket, and each call of connect() begins one.            *)
LEMMA NextLiveCounted ==
  RemoteCanTypeOK /\ LiveCounted /\ [RemoteCanNext]_canVars => LiveCounted'
<1> SUFFICES ASSUME RemoteCanTypeOK, LiveCounted, [RemoteCanNext]_canVars PROVE LiveCounted'
  OBVIOUS
<1>0. /\ IsFiniteSet(LiveSockets) /\ Cardinality(LiveSockets) \in Nat
      /\ Cardinality(LiveSockets) + launched + computing + Len(waiting) <= connects
      /\ alive => Cardinality(LiveSockets) + launched + computing + Len(waiting) = connects
      /\ alive \in BOOLEAN /\ launched \in Nat /\ computing \in Nat /\ connects \in Nat
      /\ waiting \in Seq(0..30) /\ Len(waiting) \in Nat
  BY FS_CardinalityType DEF LiveCounted, Retries, ConnectionsConserved, RemoteCanTypeOK
<1> USE DEF LiveCounted, Retries, ConnectionsConserved, retryVars, frameVars, canBounds
<1>1. ASSUME NEW s \in Socket, AppConnect(s) PROVE LiveCounted'
  <2>1. /\ IsFiniteSet(LiveSockets') /\ Cardinality(LiveSockets') = Cardinality(LiveSockets) + 1
        /\ connects' = connects + 1 /\ UNCHANGED <<launched, computing, waiting, alive>>
    BY <1>0, <1>1, NewSocketLives DEF AppConnect
  <2> QED BY <1>0, <2>1
<1>2. ASSUME NEW s \in Socket, Reconnect(s) PROVE LiveCounted'
  <2>1. /\ IsFiniteSet(LiveSockets') /\ Cardinality(LiveSockets') = Cardinality(LiveSockets) + 1
        /\ UNCHANGED <<launched, computing, connects, alive>>
    BY <1>0, <1>2, NewSocketLives DEF Reconnect
  <2>2. Len(waiting') = Len(waiting) - 1
    BY <1>0, <1>2, RemoveAtShortens DEF Reconnect
  <2>3. /\ IsFiniteSet(LiveSockets')
        /\ Cardinality(LiveSockets') + Retries' <= connects'
    BY <1>0, <2>1, <2>2
  <2>4. ConnectionsConserved'
    BY <1>0, <2>1, <2>2
  <2> HIDE DEF ConnectionsConserved, Retries
  <2> QED BY <2>3, <2>4
<1>3. ASSUME NEW s \in Socket, OnFailure(s) \/ OnClosed(s) \/ (SendFails /\ s = current)
      PROVE  LiveCounted'
  <2>1. socketState[s] # "free" /\ Ended(s)
    BY <1>3 DEF OnFailure, Failing, OnClosed, SendFails
  <2>2. /\ IsFiniteSet(LiveSockets') /\ Cardinality(LiveSockets') = Cardinality(LiveSockets) - 1
        /\ UNCHANGED <<computing, waiting, connects, alive>>
        /\ launched' = IF alive THEN launched + 1 ELSE launched
    BY <1>0, <1>3, <2>1, EndedSocketGoes DEF OnFailure, OnClosed, SendFails, Relaunch
  <2> QED BY <1>0, <2>2
<1>4. ASSUME NEW s \in Socket, OnOpen(s) \/ ServerCloses(s) PROVE LiveCounted'
  <2>1. LiveSockets' = LiveSockets
    BY <1>4 DEF OnOpen, ServerCloses, LiveSockets, RemoteCanTypeOK
  <2> QED BY <1>4, <2>1, SameLive DEF OnOpen, ServerCloses
<1>5. CASE TransportClose
  <2>1. LiveSockets' = LiveSockets
    BY <1>5 DEF TransportClose, Takes, LiveSockets, RemoteCanTypeOK
  <2> QED BY <1>5, <2>1, SameLive DEF TransportClose
<1>6. CASE CountAttempt
  <2>1. LiveSockets' = LiveSockets
    BY <1>6 DEF CountAttempt, LiveSockets
  <2>2. /\ launched' = launched - 1 /\ computing' = computing + 1
        /\ UNCHANGED <<waiting, connects, alive>>
    BY <1>6 DEF CountAttempt
  <2> QED BY <1>0, <2>1, <2>2
<1>7. CASE StartDelay
  <2>1. LiveSockets' = LiveSockets
    BY <1>7 DEF StartDelay, LiveSockets
  <2>2. Len(waiting') = Len(waiting) + 1
    BY <1>0, <1>7, BackoffDelayBounded DEF StartDelay, RemoteCanTypeOK
  <2>3. computing' = computing - 1 /\ UNCHANGED <<launched, connects, alive>>
    BY <1>7 DEF StartDelay
  <2> QED BY <1>0, <2>1, <2>2, <2>3
<1>8. CASE CancelScope
  <2>1. LiveSockets' = LiveSockets
    BY <1>8 DEF CancelScope, LiveSockets
  <2>2. launched' = 0 /\ computing' = 0 /\ Len(waiting') = 0 /\ ~alive' /\ connects' = connects
    BY <1>8 DEF CancelScope
  <2> QED BY <1>0, <2>1, <2>2
<1>9. CASE \/ \E s \in Socket : AssignSocket(s) \/ OnMessage(s)
           \/ \E f \in senders : SendIncoming(f)
           \/ Consume \/ NetworkDown \/ NetworkUp \/ TokenExpires \/ UNCHANGED canVars
  <2>1. UNCHANGED <<socketState, launched, computing, waiting, connects, alive>>
    BY <1>9 DEF AssignSocket, OnMessage, SendIncoming, Consume, NetworkDown, NetworkUp,
                TokenExpires, canVars
  <2> QED BY <2>1, SameLive DEF LiveSockets
<1>10. CASE SendFails
  <2>1. current \in Socket
    BY <1>10 DEF SendFails, RemoteCanTypeOK
  <2> QED BY <1>3, <1>10, <2>1
<1> QED
  BY <1>1, <1>2, <1>3, <1>4, <1>5, <1>6, <1>7, <1>8, <1>9, <1>10 DEF RemoteCanNext
-----------------------------------------------------------------------------
(* Two sequences joined repeat nothing when neither does and they share    *)
(* nothing.                                                                *)
LEMMA JoinedOnce ==
  ASSUME NEW S, NEW s \in Seq(S), NEW t \in Seq(S)
  PROVE  /\ ToSet(s \o t) = ToSet(s) \cup ToSet(t)
         /\ IsInjective(s \o t)
              <=> IsInjective(s) /\ IsInjective(t) /\ ToSet(s) \cap ToSet(t) = {}
<1> DEFINE j == s \o t
<1>1. /\ DOMAIN s = 1..Len(s) /\ DOMAIN t = 1..Len(t) /\ DOMAIN j = 1..(Len(s) + Len(t))
      /\ Len(s) \in Nat /\ Len(t) \in Nat
  OBVIOUS
<1>2. \A i \in 1..Len(s) : i \in DOMAIN j /\ j[i] = s[i]
  OBVIOUS
<1>3. \A i \in 1..Len(t) : i + Len(s) \in DOMAIN j /\ j[i + Len(s)] = t[i]
  OBVIOUS
<1>4. \A k \in DOMAIN j : k \in 1..Len(s) \/ \E i \in 1..Len(t) : k = i + Len(s)
  <2> TAKE k \in DOMAIN j
  <2>1. k \in Int /\ k >= 1 /\ k <= Len(s) + Len(t)
    BY <1>1
  <2>2. CASE k <= Len(s)
    BY <1>1, <2>1, <2>2
  <2>3. CASE ~(k <= Len(s))
    <3>1. k - Len(s) \in 1..Len(t) /\ k = (k - Len(s)) + Len(s)
      BY <1>1, <2>1, <2>3
    <3> QED BY <3>1
  <2> QED BY <2>2, <2>3
<1> HIDE DEF j
<1>5. ToSet(j) = ToSet(s) \cup ToSet(t)
  <2>1. \A k \in DOMAIN j : j[k] \in ToSet(s) \cup ToSet(t)
    BY <1>1, <1>2, <1>3, <1>4 DEF ToSet
  <2>2. \A i \in 1..Len(s) : s[i] \in ToSet(j)
    BY <1>2 DEF ToSet
  <2>3. \A i \in 1..Len(t) : t[i] \in ToSet(j)
    BY <1>3 DEF ToSet
  <2> QED BY <1>1, <2>1, <2>2, <2>3 DEF ToSet
<1>6. ASSUME IsInjective(j)
      PROVE  IsInjective(s) /\ IsInjective(t) /\ ToSet(s) \cap ToSet(t) = {}
  <2>1. IsInjective(s)
    BY <1>1, <1>2, <1>6 DEF IsInjective
  <2>2. ASSUME NEW a \in 1..Len(t), NEW b \in 1..Len(t), t[a] = t[b] PROVE a = b
    <3>1. j[a + Len(s)] = j[b + Len(s)]
      BY <1>3, <2>2
    <3>2. a + Len(s) = b + Len(s)
      BY <1>3, <1>6, <3>1 DEF IsInjective
    <3> QED BY <1>1, <3>2
  <2>3. ASSUME NEW a \in 1..Len(s), NEW b \in 1..Len(t), s[a] = t[b] PROVE FALSE
    <3>1. a = b + Len(s)
      BY <1>2, <1>3, <1>6, <2>3 DEF IsInjective
    <3> QED BY <1>1, <3>1
  <2> QED BY <1>1, <2>1, <2>2, <2>3 DEF IsInjective, ToSet
<1>7. ASSUME IsInjective(s), IsInjective(t), ToSet(s) \cap ToSet(t) = {}
      PROVE  IsInjective(j)
  <2> SUFFICES ASSUME NEW a \in DOMAIN j, NEW b \in DOMAIN j, j[a] = j[b] PROVE a = b
    BY DEF IsInjective
  <2>1. \A x \in 1..Len(s), y \in 1..Len(t) : s[x] # t[y]
    BY <1>1, <1>7 DEF ToSet
  <2>2. CASE a \in 1..Len(s) /\ b \in 1..Len(s)
    BY <1>1, <1>2, <1>7, <2>2 DEF IsInjective
  <2>3. CASE a \in 1..Len(s) /\ b \notin 1..Len(s)
    BY <1>2, <1>3, <1>4, <2>1, <2>3
  <2>4. CASE a \notin 1..Len(s) /\ b \in 1..Len(s)
    BY <1>2, <1>3, <1>4, <2>1, <2>4
  <2>5. CASE a \notin 1..Len(s) /\ b \notin 1..Len(s)
    <3>1. PICK x \in 1..Len(t) : a = x + Len(s)
      BY <1>4, <2>5
    <3>2. PICK y \in 1..Len(t) : b = y + Len(s)
      BY <1>4, <2>5
    <3>3. t[x] = t[y]
      BY <1>3, <3>1, <3>2
    <3> QED BY <1>1, <1>7, <3>1, <3>2, <3>3 DEF IsInjective
  <2> QED BY <2>2, <2>3, <2>4, <2>5
<1> QED BY <1>5, <1>6, <1>7 DEF j

(* A new element at the end.                                               *)
LEMMA AppendedOnce ==
  ASSUME NEW S, NEW s \in Seq(S), NEW e \in S
  PROVE  /\ ToSet(Append(s, e)) = ToSet(s) \cup {e}
         /\ IsInjective(s) /\ e \notin ToSet(s) => IsInjective(Append(s, e))
<1> DEFINE j == Append(s, e)
<1>1. /\ DOMAIN s = 1..Len(s) /\ DOMAIN j = 1..(Len(s) + 1) /\ Len(s) \in Nat
      /\ \A i \in 1..Len(s) : j[i] = s[i]
      /\ j[Len(s) + 1] = e
  OBVIOUS
<1> HIDE DEF j
<1>2. DOMAIN j = DOMAIN s \cup {Len(s) + 1} /\ Len(s) + 1 \notin DOMAIN s
  BY <1>1
<1> QED BY <1>1, <1>2 DEF j, IsInjective, ToSet

(* The first element taken off.                                            *)
LEMMA TailOnce ==
  ASSUME NEW S, NEW s \in Seq(S), s # <<>>, IsInjective(s)
  PROVE  /\ Head(s) \in ToSet(s) /\ ToSet(Tail(s)) = ToSet(s) \ {Head(s)}
         /\ IsInjective(Tail(s)) /\ Len(Tail(s)) = Len(s) - 1
<1> DEFINE r == Tail(s)
<1>1. /\ DOMAIN s = 1..Len(s) /\ DOMAIN r = 1..(Len(s) - 1) /\ Len(s) \in Nat /\ Len(s) >= 1
      /\ \A i \in 1..(Len(s) - 1) : r[i] = s[i + 1]
      /\ s[1] = Head(s) /\ Len(r) = Len(s) - 1
  OBVIOUS
<1> HIDE DEF r
<1>2. \A i \in DOMAIN r : i + 1 \in DOMAIN s /\ i + 1 # 1 /\ r[i] = s[i + 1]
  BY <1>1
<1>3. \A k \in DOMAIN s : k = 1 \/ \E i \in DOMAIN r : k = i + 1
  <2> TAKE k \in DOMAIN s
  <2>1. k = 1 \/ (k - 1 \in DOMAIN r /\ k = (k - 1) + 1)
    BY <1>1
  <2> QED BY <2>1
<1>4. 1 \in DOMAIN s
  BY <1>1
<1>5. ToSet(r) = ToSet(s) \ {s[1]}
  <2>1. \A i \in DOMAIN r : r[i] \in ToSet(s) \ {s[1]}
    BY <1>2, <1>4 DEF ToSet, IsInjective
  <2>2. \A k \in DOMAIN s : s[k] = s[1] \/ s[k] \in ToSet(r)
    BY <1>2, <1>3 DEF ToSet
  <2> QED BY <2>1, <2>2 DEF ToSet
<1>6. IsInjective(r)
  <2> SUFFICES ASSUME NEW a \in DOMAIN r, NEW b \in DOMAIN r, r[a] = r[b] PROVE a = b
    BY DEF IsInjective
  <2>1. a + 1 = b + 1
    BY <1>2 DEF IsInjective
  <2> QED BY <1>1, <2>1
<1> QED BY <1>1, <1>4, <1>5, <1>6 DEF r, ToSet

(* What FramesConserved says, one sequence at a time.                      *)
FramesApart ==
  /\ Len(incoming) <= Capacity
  /\ IsInjective(incoming) /\ IsInjective(consumed)
  /\ ToSet(incoming) \cap ToSet(consumed) = {}
  /\ senders \cap (ToSet(incoming) \cup ToSet(consumed)) = {}
  /\ alive => senders \cup ToSet(incoming) \cup ToSet(consumed) = 1..received

(* No two sequences share a frame exactly if one after the other they repeat *)
(* none.                                                                     *)
LEMMA FramesApartIsConserved == RemoteCanTypeOK => (FramesConserved <=> FramesApart)
<1> SUFFICES ASSUME RemoteCanTypeOK PROVE FramesConserved <=> FramesApart
  OBVIOUS
<1>1. incoming \in Seq(1..received) /\ consumed \in Seq(1..received)
  BY DEF RemoteCanTypeOK
<1>2. /\ ToSet(incoming \o consumed) = ToSet(incoming) \cup ToSet(consumed)
      /\ IsInjective(incoming \o consumed)
           <=> /\ IsInjective(incoming) /\ IsInjective(consumed)
               /\ ToSet(incoming) \cap ToSet(consumed) = {}
  BY <1>1, JoinedOnce
<1> QED BY <1>2, Zenon DEF FramesConserved, FramesApart

(* Only frames handed to onMessage are anywhere.                           *)
LEMMA FramesReceived ==
  RemoteCanTypeOK => ToSet(incoming) \subseteq 1..received /\ ToSet(consumed) \subseteq 1..received
BY DEF RemoteCanTypeOK, ToSet

(* A frame moves on from its coroutine to the channel and to the consumer, *)
(* and leaves where it was; a new one is in no place yet.                  *)
LEMMA NextFramesApart == RemoteCanTypeOK /\ FramesApart /\ [RemoteCanNext]_canVars => FramesApart'
<1> SUFFICES ASSUME RemoteCanTypeOK, FramesApart, [RemoteCanNext]_canVars PROVE FramesApart'
  OBVIOUS
<1>0. /\ incoming \in Seq(1..received) /\ consumed \in Seq(1..received)
      /\ senders \subseteq 1..received /\ received \in Nat /\ alive \in BOOLEAN
      /\ Capacity \in Nat /\ Len(incoming) \in Nat
      /\ ToSet(incoming) \subseteq 1..received /\ ToSet(consumed) \subseteq 1..received
  BY RemoteCanConstantsOK, FramesReceived DEF RemoteCanTypeOK
<1> USE DEF FramesApart
<1>1. ASSUME NEW s \in Socket, OnMessage(s) PROVE FramesApart'
  <2>1. /\ received' = received + 1 /\ UNCHANGED <<incoming, consumed, alive>>
        /\ senders' = IF alive THEN senders \cup {received + 1} ELSE senders
    BY <1>1 DEF OnMessage
  <2>2. received + 1 \notin 1..received /\ 1..(received + 1) = 1..received \cup {received + 1}
    BY <1>0
  <2>3. senders' \cap (ToSet(incoming) \cup ToSet(consumed)) = {}
    BY <1>0, <2>1, <2>2
  <2>4. alive => senders' \cup ToSet(incoming) \cup ToSet(consumed) = 1..(received + 1)
    BY <1>0, <2>1, <2>2
  <2> QED BY <2>1, <2>3, <2>4
<1>2. ASSUME NEW f \in senders, SendIncoming(f) PROVE FramesApart'
  <2>1. /\ incoming' = Append(incoming, f) /\ senders' = senders \ {f}
        /\ Len(incoming) < Capacity /\ UNCHANGED <<received, consumed, alive>>
    BY <1>2 DEF SendIncoming
  <2>2. ToSet(incoming') = ToSet(incoming) \cup {f} /\ IsInjective(incoming')
    BY <1>0, <2>1, AppendedOnce
  <2>3. Len(incoming') <= Capacity
    BY <1>0, <2>1
  <2>4. ToSet(incoming') \cap ToSet(consumed) = {}
    BY <2>2
  <2>5. senders' \cap (ToSet(incoming') \cup ToSet(consumed)) = {}
    BY <2>1, <2>2
  <2>6. alive => senders' \cup ToSet(incoming') \cup ToSet(consumed) = 1..received
    BY <2>1, <2>2
  <2> QED BY <2>1, <2>2, <2>3, <2>4, <2>5, <2>6
<1>3. CASE Consume
  <2> DEFINE f == Head(incoming)
  <2>1. /\ incoming # <<>> /\ incoming' = Tail(incoming) /\ consumed' = Append(consumed, f)
        /\ UNCHANGED <<received, senders, alive>>
    BY <1>3 DEF Consume
  <2> HIDE DEF f
  <2>2. /\ f \in ToSet(incoming) /\ ToSet(incoming') = ToSet(incoming) \ {f}
        /\ IsInjective(incoming') /\ Len(incoming') = Len(incoming) - 1
    BY <1>0, <2>1, TailOnce DEF f
  <2>3. ToSet(consumed') = ToSet(consumed) \cup {f} /\ IsInjective(consumed')
    <3>1. f \in 1..received /\ f \notin ToSet(consumed)
      BY <1>0, <2>2
    <3> QED BY <1>0, <2>1, <3>1, AppendedOnce
  <2>4. Len(incoming') <= Capacity
    BY <1>0, <2>2
  <2>5. ToSet(incoming') \cap ToSet(consumed') = {}
    BY <2>2, <2>3
  <2>6. ToSet(incoming') \cup ToSet(consumed') = ToSet(incoming) \cup ToSet(consumed)
    BY <2>2, <2>3
  <2>7. alive' => senders' \cup ToSet(incoming') \cup ToSet(consumed') = 1..received'
    BY <2>1, <2>6
  <2> QED BY <2>1, <2>2, <2>3, <2>4, <2>5, <2>6, <2>7
<1>4. CASE CancelScope
  <2>1. senders' = {} /\ ~alive' /\ UNCHANGED <<incoming, consumed, received>>
    BY <1>4 DEF CancelScope
  <2> QED BY <2>1
<1>5. CASE \/ \E s \in Socket : \/ AppConnect(s) \/ AssignSocket(s) \/ OnOpen(s) \/ OnFailure(s)
                                \/ OnClosed(s) \/ ServerCloses(s) \/ Reconnect(s)
           \/ TransportClose \/ SendFails \/ CountAttempt \/ StartDelay
           \/ NetworkDown \/ NetworkUp \/ TokenExpires \/ UNCHANGED canVars
  <2>1. UNCHANGED <<frameVars, alive>>
    BY <1>5 DEF AppConnect, AssignSocket, OnOpen, OnFailure, OnClosed, ServerCloses, Reconnect,
                TransportClose, SendFails, CountAttempt, StartDelay, NetworkDown, NetworkUp,
                TokenExpires, canVars
  <2> QED BY <2>1 DEF frameVars
<1> QED BY <1>1, <1>2, <1>3, <1>4, <1>5 DEF RemoteCanNext

-----------------------------------------------------------------------------
(* With one call of connect() no two sockets live at a time.               *)
LEMMA OneSocketLives ==
  ASSUME RemoteCanTypeOK, LiveCounted, connects <= 1,
         NEW s \in Socket, NEW t \in Socket, socketState[s] # "free", socketState[t] # "free"
  PROVE  s = t
<1>1. Cardinality(LiveSockets) \in Nat /\ Cardinality(LiveSockets) <= 1
  BY FS_CardinalityType DEF LiveCounted, Retries, RemoteCanTypeOK
<1>2. SUFFICES ASSUME s # t PROVE FALSE
  OBVIOUS
<1>3. {s, t} \subseteq LiveSockets
  BY DEF LiveSockets
<1>4. Cardinality({s, t}) = 2
  <2>1. IsFiniteSet({s}) /\ Cardinality({s}) = 1
    BY FS_Singleton
  <2>2. {s, t} = {s} \cup {t} /\ t \notin {s}
    BY <1>2
  <2> QED BY <2>1, <2>2, FS_AddElement
<1> QED BY <1>1, <1>3, <1>4, FS_Subset DEF LiveCounted

(* Only onOpen sends the command, and through the field: when that names   *)
(* another socket than the one that opened, that socket lives no more, and *)
(* nothing is sent.                                                        *)
LEMMA NextAskedOnce ==
  RemoteCanTypeOK /\ LiveCounted /\ AskedOnce /\ [RemoteCanNext]_canVars => AskedOnce'
<1> SUFFICES ASSUME RemoteCanTypeOK, LiveCounted, AskedOnce, [RemoteCanNext]_canVars,
                    connects' <= 1
             PROVE  AskedOnce'
  BY DEF AskedOnce
<1>0. connects \in Nat /\ connects <= 1
  BY DEF RemoteCanNext, AppConnect, AssignSocket, OnOpen, OnFailure, OnClosed, ServerCloses,
         Reconnect, OnMessage, SendIncoming, TransportClose, SendFails, CountAttempt, StartDelay,
         Consume, NetworkDown, NetworkUp, TokenExpires, CancelScope, canVars, canBounds,
         RemoteCanTypeOK
<1>1. ASSUME NEW s \in Socket, OnOpen(s) PROVE AskedOnce'
  <2>1. /\ socketState[s] \in {"connecting", "connecting-closing"} /\ asked[s] = 0
        /\ socketState' = [socketState EXCEPT
             ![s] = IF @ = "connecting" THEN "open" ELSE "closing"]
        /\ overtaken' = IF current # s THEN overtaken \cup {s} ELSE overtaken
    BY <1>0, <1>1 DEF OnOpen, AskedOnce
  <2>2. CASE Takes(current)
    <3>1. current = s
      BY <1>0, <2>1, <2>2, OneSocketLives DEF Takes, RemoteCanTypeOK
    <3>2. asked' = [asked EXCEPT ![s] = @ + 1]
      BY <1>1, <2>2, <3>1 DEF OnOpen
    <3> QED BY <1>0, <2>1, <2>2, <3>1, <3>2 DEF Takes, AskedOnce, RemoteCanTypeOK
  <2>3. CASE ~Takes(current)
    <3>1. asked' = asked
      BY <1>1, <2>3 DEF OnOpen
    <3>2. socketState[s] = "connecting" => current # s
      BY <2>3, RemoteCanConstantsOK DEF Takes
    <3> QED BY <1>0, <2>1, <3>1, <3>2 DEF AskedOnce, RemoteCanTypeOK
  <2> QED BY <2>2, <2>3
<1>2. ASSUME NEW s \in Socket, OnFailure(s) \/ OnClosed(s) \/ (SendFails /\ s = current)
      PROVE  AskedOnce'
  <2>1. Ended(s)
    BY <1>2 DEF OnFailure, OnClosed, SendFails
  <2> QED BY <1>0, <2>1 DEF Ended, AskedOnce, RemoteCanTypeOK
<1>3. ASSUME NEW s \in Socket, AppConnect(s) \/ Reconnect(s) PROVE AskedOnce'
  <2>1. NewWebSocket(s) /\ UNCHANGED <<asked, overtaken>>
    BY <1>3 DEF AppConnect, Reconnect
  <2> QED BY <1>0, <2>1 DEF NewWebSocket, Reusable, AskedOnce, RemoteCanTypeOK
<1>4. ASSUME NEW s \in Socket, ServerCloses(s) PROVE AskedOnce'
  BY <1>0, <1>4 DEF ServerCloses, AskedOnce, RemoteCanTypeOK
<1>5. CASE TransportClose
  BY <1>0, <1>5 DEF TransportClose, Takes, AskedOnce, RemoteCanTypeOK
<1>6. CASE \/ \E s \in Socket : AssignSocket(s) \/ OnMessage(s)
           \/ \E f \in senders : SendIncoming(f)
           \/ CountAttempt \/ StartDelay \/ Consume
           \/ NetworkDown \/ NetworkUp \/ TokenExpires \/ CancelScope \/ UNCHANGED canVars
  <2>1. UNCHANGED <<socketState, asked, overtaken>>
    BY <1>6 DEF AssignSocket, OnMessage, SendIncoming, CountAttempt, StartDelay, Consume,
                NetworkDown, NetworkUp, TokenExpires, CancelScope, canVars
  <2> QED BY <1>0, <2>1 DEF AskedOnce
<1>7. CASE SendFails
  <2>1. current \in Socket
    BY <1>7 DEF SendFails, RemoteCanTypeOK
  <2> QED BY <1>2, <1>7, <2>1
<1> QED BY <1>1, <1>2, <1>3, <1>4, <1>5, <1>6, <1>7 DEF RemoteCanNext

-----------------------------------------------------------------------------
(* The invariant holds in every reachable state.                           *)
THEOREM RemoteCanInvariant == RemoteCanSpec => []RemoteCanInv
<1>1. RemoteCanInv /\ [RemoteCanNext]_canVars => RemoteCanInv'
  <2> SUFFICES ASSUME RemoteCanInv, [RemoteCanNext]_canVars PROVE RemoteCanInv'
    OBVIOUS
  <2>1. RemoteCanTypeOK'
    BY NextRemoteCanTypeOK DEF RemoteCanInv
  <2>2. LiveCounted'
    BY NextLiveCounted DEF RemoteCanInv
  <2>3. FramesConserved'
    <3>1. FramesApart'
      BY NextFramesApart, FramesApartIsConserved DEF RemoteCanInv
    <3>2. (RemoteCanTypeOK => (FramesConserved <=> FramesApart))'
      BY FramesApartIsConserved, PTL
    <3> QED BY <2>1, <3>1, <3>2
  <2>4. AskedOnce'
    BY NextAskedOnce DEF RemoteCanInv
  <2> QED BY <2>1, <2>2, <2>3, <2>4 DEF RemoteCanInv
<1> QED BY InitRemoteCanInv, <1>1, PTL DEF RemoteCanSpec

(* Neither a storm of reconnections nor a lost one, for any number of      *)
(* sockets: while the scope is active each call of connect() has one       *)
(* WebSocket that lives, or one retry on its way.                          *)
THEOREM ConnectionsTheorem == RemoteCanSpec => []ConnectionsConserved
<1>1. RemoteCanInv => ConnectionsConserved
  BY DEF RemoteCanInv, LiveCounted
<1> QED BY RemoteCanInvariant, <1>1, PTL

(* No frame is dropped, doubled or kept beyond the channel's capacity,     *)
(* whatever that is.                                                       *)
THEOREM FramesTheorem == RemoteCanSpec => []FramesConserved
<1>1. RemoteCanInv => FramesConserved
  BY DEF RemoteCanInv
<1> QED BY RemoteCanInvariant, <1>1, PTL

(* An open connection asked for the gateway once, or its onOpen overtook   *)
(* the assignment of the field.                                            *)
THEOREM GatewayTheorem == RemoteCanSpec => []GatewayReissued
<1>1. RemoteCanInv => GatewayReissued
  BY DEF RemoteCanInv, AskedOnce, GatewayReissued, RemoteCanTypeOK
<1> QED BY RemoteCanInvariant, <1>1, PTL

================================================================================
