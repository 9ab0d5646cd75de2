--------------------------- MODULE SessionHubProofs ---------------------------
(***************************************************************************)
(* What holds of the hub for any number of sockets, frames and broadcasts  *)
(* under way at once.                                                      *)
(***************************************************************************)
EXTENDS SessionHub, FiniteSetTheorems, TLAPS

Distinct(s) == \A i, j \in DOMAIN s : s[i] = s[j] => i = j

(* A deleted list was emptied by a socket that has left since.             *)
Ended == {w \in Socket : pc[w] \in {"parting", "done", "dead"}}

TypesHold ==
  /\ TypeOK
  /\ task = [w \in Socket |-> task[w]]
  /\ list <= Cardinality(Ended) + 1

(* A socket is on the list at most once, after it joined and until it      *)
(* leaves.                                                                 *)
PeersJoined ==
  /\ Distinct(peers)
  /\ \A w \in ToSet(peers) : pc[w] \notin {"new", "parting", "done"}

(* A socket that has not joined has heard nothing, and nobody owes it      *)
(* anything.                                                               *)
NewIsUnknown ==
  \A w \in Socket : pc[w] = "new" =>
    /\ conn[w] = "absent" /\ delivered[w] = <<>> /\ heard[w] = 0
    /\ \A x \in Socket : w \notin task[x].audience

(* Every frame is recorded once, and a socket's next frame has a greater   *)
(* number than those recorded.  Whoever said farewell is off the list.     *)
LogNumbered ==
  /\ Distinct(log)
  /\ \A i \in DOMAIN log : LET w == log[i].from IN
       /\ pc[w] # "new"
       /\ pc[w] \in {"greeting", "receiving", "relaying"} => log[i].n <= heard[w]
       /\ log[i] = Left(w) => w \notin ToSet(peers)

DeliveredIsLogged == \A p \in Socket : ToSet(delivered[p]) \subseteq ToSet(log)

(* A broadcast is of the last frame of its socket.                         *)
TaskIsLast ==
  \A w \in Socket : pc[w] \in Broadcasting =>
    /\ task[w].frame.from = w /\ task[w].frame \in ToSet(log)
    /\ task[w].on <= list
    /\ \A i \in DOMAIN log : log[i].from = w => log[i].n <= task[w].frame.n

(* The peers a walk has yet to come to have not heard its frame.           *)
AheadIsDeaf ==
  \A w \in Socket : pc[w] \in Broadcasting /\ task[w].on = list =>
    \A k \in DOMAIN peers :
      k >= task[w].pos => task[w].frame \notin ToSet(delivered[peers[k]])

(* An undisturbed walk has yet to come to whoever it still owes its frame. *)
OwedIsAhead ==
  \A w \in Socket : pc[w] \in Broadcasting /\ ~task[w].disturbed =>
    \A p \in Owed(w) \ Reached(w) :
      task[w].on = list /\ \E k \in DOMAIN peers : k >= task[w].pos /\ peers[k] = p

HubInv ==
  /\ TypesHold /\ PeersJoined /\ NewIsUnknown /\ LogNumbered /\ DeliveredIsLogged
  /\ TaskIsLast /\ AheadIsDeaf /\ OwedIsAhead
  /\ OrderedOnce /\ SilentAfterFarewell

-----------------------------------------------------------------------------
(* list.remove: what follows the peer moves up by one.                     *)
LEMMA RemoveFirstIsShift ==
  ASSUME NEW S, NEW s \in Seq(S), NEW e \in S, Distinct(s)
  PROVE  LET r == RemoveFirst(s, e) IN
         /\ r \in Seq(S)
         /\ Distinct(r)
         /\ e \notin ToSet(r)
         /\ \A x \in ToSet(s) : x # e => x \in ToSet(r)
         /\ \A k \in DOMAIN r : \E l \in DOMAIN s : l >= k /\ s[l] = r[k]
<1> DEFINE r == RemoveFirst(s, e)
<1>1. CASE ~ \E i \in 1..Len(s) : s[i] = e
  BY <1>1 DEF RemoveFirst, ToSet
<1>2. CASE \E i \in 1..Len(s) : s[i] = e
  <2>0. PICK i \in 1..Len(s) : s[i] = e
    BY <1>2
  <2>1. SelectInSeq(s, LAMBDA v : v = e) = i
    <3> DEFINE I == {k \in 1..Len(s) : s[k] = e}
    <3>1. I = {i}
      BY <2>0 DEF Distinct
    <3>2. Min(I) = i
      BY <3>1, <2>0 DEF Min
    <3> HIDE DEF I
    <3>3. I # {}
      BY <3>1
    <3> QED BY <3>2, <3>3 DEF SelectInSeq, I
  <2>2. r = SubSeq(s, 1, i - 1) \o SubSeq(s, i + 1, Len(s))
    BY <1>2, <2>1 DEF RemoveFirst, RemoveAt
  <2>3. /\ r \in Seq(S) /\ Len(r) = Len(s) - 1
        /\ \A k \in 1..Len(r) : r[k] = IF k < i THEN s[k] ELSE s[k + 1]
    <3> DEFINE a == SubSeq(s, 1, i - 1)
               b == SubSeq(s, i + 1, Len(s))
    <3>1. a \in Seq(S) /\ Len(a) = i - 1 /\ \A k \in 1..(i - 1) : a[k] = s[k]
      BY <2>0
    <3>2. b \in Seq(S) /\ Len(b) = Len(s) - i /\ \A k \in 1..(Len(s) - i) : b[k] = s[i + k]
      BY <2>0
    <3> HIDE DEF a, b
    <3>3. r = a \o b
      BY <2>2 DEF a, b
    <3> HIDE DEF r
    <3>4. r \in Seq(S) /\ Len(r) = Len(s) - 1
      BY <2>0, <3>1, <3>2, <3>3
    <3>5. ASSUME NEW k \in 1..Len(r) PROVE r[k] = IF k < i THEN s[k] ELSE s[k + 1]
      <4>1. CASE k < i
        BY <2>0, <3>1, <3>2, <3>3, <3>4, <4>1
      <4>2. CASE k >= i
        <5>1. r[k] = b[k - (i - 1)]
          BY <2>0, <3>1, <3>2, <3>3, <3>4, <4>2
        <5>2. b[k - (i - 1)] = s[k + 1]
          <6> DEFINE j == k - (i - 1)
          <6>1. j \in 1..(Len(s) - i) /\ i + j = k + 1
            BY <2>0, <3>4, <4>2
          <6> HIDE DEF j
          <6>2. b[j] = s[i + j]
            BY <3>2, <6>1
          <6> QED BY <6>1, <6>2 DEF j
        <5> QED BY <5>1, <5>2, <4>2
      <4> QED BY <4>1, <4>2, <2>0
    <3> QED BY <3>4, <3>5
  <2> HIDE DEF r
  <2>4. DOMAIN r = 1..Len(r) /\ DOMAIN s = 1..Len(s)
    BY <2>3
  <2>5. Distinct(r)
    BY <2>0, <2>3, <2>4 DEF Distinct
  <2>6. e \notin ToSet(r)
    BY <2>0, <2>3, <2>4 DEF Distinct, ToSet
  <2>7. \A x \in ToSet(s) : x # e => x \in ToSet(r)
    <3> SUFFICES ASSUME NEW k \in 1..Len(s), s[k] # e PROVE s[k] \in ToSet(r)
      BY <2>4 DEF ToSet
    <3>1. IF k < i THEN k \in 1..Len(r) /\ r[k] = s[k]
                   ELSE k - 1 \in 1..Len(r) /\ r[k - 1] = s[k]
      BY <2>0, <2>3
    <3> QED BY <3>1, <2>4 DEF ToSet
  <2>8. ASSUME NEW k \in DOMAIN r PROVE \E l \in DOMAIN s : l >= k /\ s[l] = r[k]
    <3>1. IF k < i THEN k \in DOMAIN s /\ r[k] = s[k]
                   ELSE k + 1 \in DOMAIN s /\ r[k] = s[k + 1]
      BY <2>3, <2>4
    <3> QED BY <3>1, <2>4
  <2> QED BY <2>3, <2>5, <2>6, <2>7, <2>8 DEF r
<1> QED BY <1>1, <1>2

-----------------------------------------------------------------------------
(* The steps, by what they do to the walks.                                *)

(* The coroutine of w returns to its loop, ends, or loses its client.      *)
Rests(w) ==
  /\ UNCHANGED <<peers, list, log, delivered>>
  /\ pc' = [pc EXCEPT ![w] = pc'[w]] /\ conn' = [conn EXCEPT ![w] = conn'[w]]
  /\ task' = [task EXCEPT ![w] = task'[w]] /\ heard' = [heard EXCEPT ![w] = heard'[w]]
  /\ conn'[w] \in {conn[w], "closed"} /\ heard'[w] \in heard[w]..MaxMsg
  /\ \/ pc'[w] = pc[w] /\ task'[w] = task[w] /\ heard'[w] = heard[w] /\ pc[w] # "new"
     \/ /\ pc'[w] \in {"receiving", "done", "dead"} /\ task'[w] = NoTask
        /\ pc'[w] = "receiving" => pc[w] \in {"greeting", "relaying"}
        /\ pc'[w] = "done" => pc[w] \in {"new", "parting"}
        /\ pc'[w] = "dead" => pc[w] # "new"

(* The walk of w passes a peer it does not owe, or one that is gone.       *)
Passes(w) ==
  /\ Skip(w) \/ \E p \in Socket : SendIntoVoid(w, p)

(* w leaves the list, seeing its own departure or taking a peer's for it.  *)
Leaves(w) ==
  /\ pc[w] \in {"receiving", "relaying"}
  /\ Leave(w)
  /\ UNCHANGED conn

(* Every step is one of these.                                             *)
LEMMA StepsByShape ==
  ASSUME TypesHold, NewIsUnknown, NEW w \in Socket,
         \/ Join(w) \/ Reject(w) \/ Disconnect(w)
         \/ Relay(w) \/ BadFrame(w) \/ SeeDisconnect(w)
         \/ BroadcastStep(w)
  PROVE  \/ Rests(w) \/ Passes(w) \/ (\E p \in Socket : Send(w, p))
         \/ Join(w) \/ Relay(w) \/ Leaves(w)
<1>0. /\ DOMAIN pc = Socket /\ DOMAIN conn = Socket /\ DOMAIN heard = Socket
      /\ DOMAIN task = Socket /\ heard[w] \in Nat
      /\ pc[w] \notin Broadcasting => task[w] = NoTask
      /\ pc = [x \in Socket |-> pc[x]] /\ conn = [x \in Socket |-> conn[x]]
      /\ heard = [x \in Socket |-> heard[x]] /\ task = [x \in Socket |-> task[x]]
      /\ heard[w] <= MaxMsg /\ MaxMsg \in Nat
  BY BoundsOK DEF TypesHold, TypeOK
<1>a. /\ pc = [pc EXCEPT ![w] = pc[w]] /\ conn = [conn EXCEPT ![w] = conn[w]]
      /\ heard = [heard EXCEPT ![w] = heard[w]] /\ task = [task EXCEPT ![w] = task[w]]
  BY <1>0
<1> USE <1>0, <1>a DEF Broadcasting, Rests
<1>1. Reject(w) => Rests(w)
  <2> SUFFICES ASSUME Reject(w) PROVE Rests(w)
    OBVIOUS
  <2>1. /\ pc[w] = "new" /\ pc' = [pc EXCEPT ![w] = "done"] /\ pc'[w] = "done"
        /\ conn' = [conn EXCEPT ![w] = "closed"] /\ conn'[w] = "closed"
        /\ UNCHANGED <<peers, list, task, heard, log, delivered>>
    BY DEF Reject
  <2>2. task'[w] = NoTask /\ heard'[w] \in heard[w]..MaxMsg
    BY <2>1
  <2>3. /\ task' = [task EXCEPT ![w] = task'[w]] /\ heard' = [heard EXCEPT ![w] = heard'[w]]
        /\ pc' = [pc EXCEPT ![w] = pc'[w]] /\ conn' = [conn EXCEPT ![w] = conn'[w]]
    BY <2>1
  <2> QED BY <2>1, <2>2, <2>3
<1>2. Disconnect(w) => Rests(w)
  <2> SUFFICES ASSUME Disconnect(w) PROVE Rests(w)
    OBVIOUS
  <2>1. /\ conn[w] = "open" /\ pc[w] # "new"
        /\ conn' = [conn EXCEPT ![w] = "closed"] /\ conn'[w] = "closed"
        /\ UNCHANGED <<pc, peers, list, task, heard, log, delivered>>
    BY DEF Disconnect, NewIsUnknown
  <2>2. heard'[w] \in heard[w]..MaxMsg
    BY <2>1
  <2>3. /\ task' = [task EXCEPT ![w] = task'[w]] /\ heard' = [heard EXCEPT ![w] = heard'[w]]
        /\ pc' = [pc EXCEPT ![w] = pc'[w]] /\ conn' = [conn EXCEPT ![w] = conn'[w]]
    BY <2>1
  <2> QED BY <2>1, <2>2, <2>3
<1>3. BadFrame(w) => Rests(w)
  BY DEF BadFrame, Die, MayHear
<1>4. SeeDisconnect(w) => Leaves(w)
  BY DEF SeeDisconnect, Leaves
<1>5. ASSUME NEW p \in Socket, SendDisconnects(w, p) PROVE Rests(w) \/ Leaves(w)
  <2>1. CASE pc[w] = "relaying"
    BY <1>5, <2>1 DEF SendDisconnects, Leaves
  <2>2. CASE pc[w] # "relaying"
    BY <1>5, <2>2 DEF SendDisconnects, Sending, Die
  <2> QED BY <2>1, <2>2
<1>6. ASSUME NEW p \in Socket, SendRaises(w, p) PROVE Rests(w)
  BY <1>6 DEF SendRaises, Sending, Die
<1>7. Finish(w) => Rests(w)
  BY DEF Finish
<1> HIDE DEF Rests
<1> QED BY <1>1, <1>2, <1>3, <1>4, <1>5, <1>6, <1>7 DEF BroadcastStep, Passes

-----------------------------------------------------------------------------
(* A list object for every socket that ended, and one more.                *)
LEMMA ListsOfEnded ==
  ASSUME TypesHold
  PROVE  /\ IsFiniteSet(Ended) /\ Cardinality(Ended) \in Nat
         /\ list \in Nat /\ Cardinality(Socket) \in Nat
         /\ \A w \in Socket : w \notin Ended =>
              /\ list <= Cardinality(Socket)
              /\ Cardinality(Ended \cup {w}) = Cardinality(Ended) + 1
<1>1. Ended \subseteq Socket
  BY DEF Ended
<1>2. /\ IsFiniteSet(Ended) /\ Cardinality(Ended) \in Nat
      /\ Cardinality(Socket) \in Nat
  BY <1>1, BoundsOK, FS_Subset, FS_CardinalityType
<1>3. list \in Nat /\ list <= Cardinality(Ended) + 1
  BY <1>2 DEF TypesHold, TypeOK
<1>4. ASSUME NEW w \in Socket, w \notin Ended
      PROVE  /\ list <= Cardinality(Socket)
             /\ Cardinality(Ended \cup {w}) = Cardinality(Ended) + 1
  <2>1. Cardinality(Ended \cup {w}) = Cardinality(Ended) + 1
    BY <1>2, <1>4, FS_AddElement
  <2>2. Cardinality(Ended \cup {w}) <= Cardinality(Socket)
    BY <1>1, BoundsOK, FS_Subset
  <2> QED BY <1>2, <1>3, <2>1, <2>2
<1> QED BY <1>2, <1>3, <1>4

(* A broadcast that begins is of a frame, on a list that still has use.    *)
LEMMA BeginTypes ==
  ASSUME TypesHold, NEW w \in Socket, NEW f \in Frame, NEW others, NEW members \in Seq(Socket),
         members # <<>> => list <= Cardinality(Socket),
         others = [x \in Socket |-> others[x]],
         \A x \in Socket : IF pc[x] \in Broadcasting THEN others[x] \in Task
                                                     ELSE others[x] = NoTask,
         Begin(w, f, members, others)
  PROVE  /\ task' = [x \in Socket |-> task'[x]]
         /\ task'[w] \in Task
         /\ \A x \in Socket \ {w} : IF pc[x] \in Broadcasting THEN task'[x] \in Task
                                                                ELSE task'[x] = NoTask
         /\ log' \in Seq(Frame)
<1> DEFINE t == [frame |-> f, on |-> IF members = <<>> THEN 0 ELSE list, pos |-> 1,
                 audience |-> ToSet(members), disturbed |-> FALSE]
<1>1. list \in Nat /\ Cardinality(Socket) \in Nat
  BY ListsOfEnded
<1>2. t \in Task
  <2>1. ToSet(members) \subseteq Socket
    BY DEF ToSet
  <2> QED BY <1>1, <2>1 DEF Task
<1>3. task' = [others EXCEPT ![w] = t] /\ log' = Append(log, f)
  BY DEF Begin
<1>4. log' \in Seq(Frame)
  BY <1>3 DEF TypesHold, TypeOK
<1> HIDE DEF t
<1>5. /\ task' = [x \in Socket |-> task'[x]]
      /\ task'[w] = t
      /\ \A x \in Socket \ {w} : task'[x] = others[x]
  BY <1>3
<1> QED BY <1>2, <1>4, <1>5

(* No socket that ended starts again.                                      *)
LEMMA EndedGrows ==
  ASSUME TypesHold, Ended \subseteq Ended'
  PROVE  /\ Cardinality(Ended') \in Nat /\ Cardinality(Ended) <= Cardinality(Ended')
         /\ list <= Cardinality(Ended') + 1
<1>1. Ended' \subseteq Socket
  BY DEF Ended
<1>2. IsFiniteSet(Ended')
  BY <1>1, BoundsOK, FS_Subset
<1>3. Cardinality(Ended') \in Nat /\ Cardinality(Ended) <= Cardinality(Ended')
  BY <1>2, FS_Subset, FS_CardinalityType
<1> QED BY <1>3, ListsOfEnded DEF TypesHold

(* No step spoils the types.                                               *)
LEMMA NextTypesHold ==
  ASSUME TypesHold, PeersJoined, NewIsUnknown, NEW w \in Socket,
         \/ Rests(w) \/ Passes(w) \/ (\E p \in Socket : Send(w, p))
         \/ Join(w) \/ Relay(w) \/ Leaves(w)
  PROVE  TypesHold'
<1>0. /\ MaxMsg \in Nat
      /\ pc \in [Socket -> Broadcasting \union {"new", "receiving", "done", "dead"}]
      /\ conn \in [Socket -> {"absent", "open", "closed"}]
      /\ heard \in [Socket -> 0..MaxMsg]
      /\ delivered \in [Socket -> Seq(Frame)]
      /\ peers \in Seq(Socket) /\ log \in Seq(Frame) /\ list \in 1..(Cardinality(Socket) + 1)
      /\ task = [x \in Socket |-> task[x]]
      /\ \A x \in Socket : IF pc[x] \in Broadcasting THEN task[x] \in Task
                                                     ELSE task[x] = NoTask
      /\ \A x \in Socket : task[x] \in Task => task[x].pos \in Nat \ {0}
  BY BoundsOK DEF TypesHold, TypeOK, Task
<1>1. CASE Rests(w)
  <2>1. Ended \subseteq Ended'
    BY <1>0, <1>1 DEF Rests, Ended, Broadcasting
  <2>2. /\ pc' \in [Socket -> Broadcasting \union {"new", "receiving", "done", "dead"}]
        /\ conn' \in [Socket -> {"absent", "open", "closed"}]
        /\ heard' \in [Socket -> 0..MaxMsg]
    <3>1. pc'[w] \in Broadcasting \union {"new", "receiving", "done", "dead"}
      BY <1>0, <1>1 DEF Rests
    <3>2. conn'[w] \in {"absent", "open", "closed"}
      BY <1>0, <1>1 DEF Rests
    <3>3. heard[w] \in 0..MaxMsg /\ heard'[w] \in heard[w]..MaxMsg
      BY <1>0, <1>1 DEF Rests
    <3>4. heard'[w] \in 0..MaxMsg
      BY <1>0, <3>3
    <3>5. /\ pc' = [pc EXCEPT ![w] = pc'[w]] /\ conn' = [conn EXCEPT ![w] = conn'[w]]
          /\ heard' = [heard EXCEPT ![w] = heard'[w]]
      BY <1>1 DEF Rests
    <3> QED BY <1>0, <3>1, <3>2, <3>4, <3>5
  <2>3. /\ task' = [x \in Socket |-> task'[x]]
        /\ \A x \in Socket : IF pc'[x] \in Broadcasting THEN task'[x] \in Task
                                                        ELSE task'[x] = NoTask
    BY <1>0, <1>1 DEF Rests, Broadcasting
  <2> QED BY <1>0, <1>1, <2>1, <2>2, <2>3, EndedGrows DEF Rests, TypesHold, TypeOK
<1>2. ASSUME task' = [task EXCEPT ![w].pos = @ + 1], pc[w] \in Broadcasting
      PROVE  /\ task' = [x \in Socket |-> task'[x]]
             /\ \A x \in Socket : IF pc[x] \in Broadcasting THEN task'[x] \in Task
                                                            ELSE task'[x] = NoTask
  <2>1. [task[w] EXCEPT !.pos = @ + 1] \in Task
    <3>1. task[w] \in Task /\ task[w].pos \in Nat
      BY <1>0, <1>2
    <3>2. task[w].pos + 1 \in Nat \ {0}
      BY <3>1
    <3> QED BY <3>1, <3>2 DEF Task
  <2>2. task' = [x \in Socket |-> IF x = w THEN [task[w] EXCEPT !.pos = @ + 1] ELSE task[x]]
    BY <1>0, <1>2
  <2> QED BY <1>0, <1>2, <2>1, <2>2
<1>3. CASE Passes(w)
  <2>1. /\ UNCHANGED <<conn, pc, peers, list, heard, log, delivered>>
        /\ pc[w] \in Broadcasting /\ task' = [task EXCEPT ![w].pos = @ + 1]
    BY <1>3 DEF Passes, Skip, SendIntoVoid, Sending, Advance
  <2>2. Ended' = Ended
    BY <2>1 DEF Ended
  <2> QED BY <1>0, <1>2, <2>1, <2>2 DEF TypesHold, TypeOK
<1>4. ASSUME NEW p \in Socket, Send(w, p) PROVE TypesHold'
  <2>1. /\ UNCHANGED <<conn, pc, peers, list, heard, log>>
        /\ pc[w] \in Broadcasting /\ task' = [task EXCEPT ![w].pos = @ + 1]
        /\ delivered' = [delivered EXCEPT ![p] = Append(@, task[w].frame)]
    BY <1>4 DEF Send, Sending, Advance
  <2>2. Ended' = Ended
    BY <2>1 DEF Ended
  <2>3. delivered' \in [Socket -> Seq(Frame)]
    <3>1. task[w].frame \in Frame
      BY <1>0, <2>1 DEF Task
    <3>2. Append(delivered[p], task[w].frame) \in Seq(Frame)
      BY <1>0, <3>1
    <3> QED BY <1>0, <2>1, <3>2
  <2> QED BY <1>0, <1>2, <2>1, <2>2, <2>3 DEF TypesHold, TypeOK
<1>5. CASE Join(w)
  <2>1. /\ pc[w] = "new" /\ pc' = [pc EXCEPT ![w] = "greeting"]
        /\ conn' = [conn EXCEPT ![w] = "open"] /\ peers' = Append(peers, w)
        /\ Begin(w, Joined(w), Append(peers, w), task)
        /\ UNCHANGED <<list, heard, delivered>>
    BY <1>5 DEF Join
  <2>2. w \notin Ended /\ Ended' = Ended
    BY <1>0, <2>1 DEF Ended
  <2>3. Joined(w) \in Frame /\ Append(peers, w) \in Seq(Socket)
    BY <1>0 DEF Joined, Frame
  <2>4. /\ task' = [x \in Socket |-> task'[x]]
        /\ \A x \in Socket : IF pc'[x] \in Broadcasting THEN task'[x] \in Task
                                                        ELSE task'[x] = NoTask
        /\ log' \in Seq(Frame)
    <3>1. /\ task' = [x \in Socket |-> task'[x]]
          /\ task'[w] \in Task
          /\ \A x \in Socket \ {w} : IF pc[x] \in Broadcasting THEN task'[x] \in Task
                                                                 ELSE task'[x] = NoTask
          /\ log' \in Seq(Frame)
      BY <1>0, <2>1, <2>2, <2>3, BeginTypes, ListsOfEnded
    <3> QED BY <1>0, <2>1, <3>1 DEF Broadcasting
  <2>5. /\ pc' \in [Socket -> Broadcasting \union {"new", "receiving", "done", "dead"}]
        /\ conn' \in [Socket -> {"absent", "open", "closed"}]
    BY <1>0, <2>1 DEF Broadcasting
  <2> QED BY <1>0, <2>1, <2>2, <2>3, <2>4, <2>5 DEF TypesHold, TypeOK
<1>6. CASE Relay(w)
  <2> DEFINE f == [from |-> w, n |-> heard[w] + 1]
  <2>1. /\ pc[w] = "receiving" /\ pc' = [pc EXCEPT ![w] = "relaying"]
        /\ heard' = [heard EXCEPT ![w] = @ + 1] /\ heard[w] < MaxMsg
        /\ Begin(w, f, peers, task)
        /\ UNCHANGED <<conn, peers, list, delivered>>
    BY <1>6 DEF Relay, MayHear
  <2>2. w \notin Ended /\ Ended' = Ended
    BY <1>0, <2>1 DEF Ended
  <2>3. f \in Frame
    BY <1>0, <2>1 DEF Frame
  <2> HIDE DEF f
  <2>4. /\ task' = [x \in Socket |-> task'[x]]
        /\ \A x \in Socket : IF pc'[x] \in Broadcasting THEN task'[x] \in Task
                                                        ELSE task'[x] = NoTask
        /\ log' \in Seq(Frame)
    <3>1. /\ task' = [x \in Socket |-> task'[x]]
          /\ task'[w] \in Task
          /\ \A x \in Socket \ {w} : IF pc[x] \in Broadcasting THEN task'[x] \in Task
                                                                 ELSE task'[x] = NoTask
          /\ log' \in Seq(Frame)
      BY <1>0, <2>1, <2>2, <2>3, BeginTypes, ListsOfEnded
    <3> QED BY <1>0, <2>1, <3>1 DEF Broadcasting
  <2>5. /\ pc' \in [Socket -> Broadcasting \union {"new", "receiving", "done", "dead"}]
        /\ heard' \in [Socket -> 0..MaxMsg]
    BY <1>0, <2>1 DEF Broadcasting
  <2> QED BY <1>0, <2>1, <2>2, <2>4, <2>5 DEF TypesHold, TypeOK
<1>7. CASE Leaves(w)
  <2> DEFINE rest == RemoveFirst(peers, w)
             told == [x \in Socket |-> IF pc[x] \in Broadcasting /\ task[x].on = list
                                      THEN [task[x] EXCEPT !.disturbed = TRUE] ELSE task[x]]
  <2>1. /\ pc[w] \in {"receiving", "relaying"} /\ pc' = [pc EXCEPT ![w] = "parting"]
        /\ peers' = rest /\ list' = IF rest = <<>> THEN list + 1 ELSE list
        /\ Begin(w, Left(w), rest, told)
        /\ UNCHANGED <<conn, heard, delivered>>
    BY <1>7 DEF Leaves, Leave
  <2>2. w \notin Ended /\ Ended' = Ended \cup {w}
    BY <1>0, <2>1 DEF Ended
  <2>3. /\ Cardinality(Ended') = Cardinality(Ended) + 1 /\ list <= Cardinality(Socket)
        /\ Cardinality(Ended) \in Nat /\ Cardinality(Socket) \in Nat
    BY <2>2, ListsOfEnded
  <2>4. list' \in 1..(Cardinality(Socket) + 1) /\ list' <= Cardinality(Ended') + 1
    BY <1>0, <2>1, <2>3 DEF TypesHold
  <2>5. rest \in Seq(Socket)
    BY <1>0, RemoveFirstIsShift DEF PeersJoined
  <2>6. Left(w) \in Frame
    BY <1>0 DEF Left, Frame
  <2>7. /\ told = [x \in Socket |-> told[x]]
        /\ \A x \in Socket : IF pc[x] \in Broadcasting THEN told[x] \in Task
                                                       ELSE told[x] = NoTask
    BY <1>0 DEF Task
  <2> HIDE DEF rest, told
  <2>8. /\ task' = [x \in Socket |-> task'[x]]
        /\ \A x \in Socket : IF pc'[x] \in Broadcasting THEN task'[x] \in Task
                                                        ELSE task'[x] = NoTask
        /\ log' \in Seq(Frame)
    <3>1. /\ task' = [x \in Socket |-> task'[x]]
          /\ task'[w] \in Task
          /\ \A x \in Socket \ {w} : IF pc[x] \in Broadcasting THEN task'[x] \in Task
                                                                 ELSE task'[x] = NoTask
          /\ log' \in Seq(Frame)
      BY <2>1, <2>3, <2>5, <2>6, <2>7, BeginTypes
    <3> QED BY <1>0, <2>1, <3>1 DEF Broadcasting
  <2>9. pc' \in [Socket -> Broadcasting \union {"new", "receiving", "done", "dead"}]
    BY <1>0, <2>1 DEF Broadcasting
  <2> QED BY <1>0, <2>1, <2>4, <2>5, <2>8, <2>9 DEF TypesHold, TypeOK
<1> QED BY <1>1, <1>3, <1>4, <1>5, <1>6, <1>7

-----------------------------------------------------------------------------
(* The walk of w moves on, past a peer that is not owed its frame, is gone *)
(* or has just been sent it.                                               *)
Moves(w) ==
  LET p == peers[task[w].pos] IN
  /\ UNCHANGED <<conn, pc, peers, list, heard, log>>
  /\ pc[w] \in Broadcasting /\ task[w].on = list /\ task[w].pos \in DOMAIN peers
  /\ task' = [task EXCEPT ![w].pos = @ + 1]
  /\ \/ delivered' = delivered /\ (p \in Excluded(w) \/ conn[p] = "closed")
     \/ delivered' = [delivered EXCEPT ![p] = Append(@, task[w].frame)]

(* A step of a walk is such a move.                                        *)
LEMMA StepsMove ==
  ASSUME TypesHold, NEW w \in Socket, Passes(w) \/ \E p \in Socket : Send(w, p)
  PROVE  Moves(w)
<1>0. /\ peers \in Seq(Socket)
      /\ pc[w] \in Broadcasting => task[w].pos \in Nat \ {0}
  BY DEF TypesHold, TypeOK, Task
<1>1. pc[w] \in Broadcasting /\ ~AtEnd(w)
  BY DEF Passes, Skip, SendIntoVoid, Send, Sending
<1>2. /\ task[w].on = list /\ task[w].pos \in DOMAIN peers
      /\ Target(w) = peers[task[w].pos]
  BY <1>0, <1>1 DEF AtEnd, Walked, Target
<1>3. CASE Skip(w)
  BY <1>1, <1>2, <1>3 DEF Moves, Skip, Advance
<1>4. ASSUME NEW p \in Socket, SendIntoVoid(w, p) PROVE Moves(w)
  BY <1>1, <1>2, <1>4 DEF Moves, SendIntoVoid, Sending, Advance
<1>5. ASSUME NEW p \in Socket, Send(w, p) PROVE Moves(w)
  BY <1>1, <1>2, <1>5 DEF Moves, Send, Sending, Advance
<1> QED BY <1>3, <1>4, <1>5 DEF Passes

(* What a move does to the tasks.                                          *)
LEMMA MovedTasks ==
  ASSUME TypesHold, NEW w \in Socket, Moves(w)
  PROVE  /\ \A x \in Socket : /\ task'[x].frame = task[x].frame /\ task'[x].on = task[x].on
                             /\ task'[x].audience = task[x].audience
                             /\ task'[x].disturbed = task[x].disturbed
         /\ \A x \in Socket \ {w} : task'[x] = task[x]
         /\ task'[w].pos = task[w].pos + 1 /\ task[w].pos \in Nat
<1>1. /\ task = [x \in Socket |-> task[x]] /\ task[w] \in Task
      /\ task' = [task EXCEPT ![w].pos = @ + 1]
  BY DEF Moves, TypesHold, TypeOK
<1>2. task' = [x \in Socket |-> IF x = w THEN [task[w] EXCEPT !.pos = @ + 1] ELSE task[x]]
  BY <1>1
<1>3. /\ \A x \in Socket \ {w} : task'[x] = task[x]
      /\ task'[w] = [task[w] EXCEPT !.pos = @ + 1]
  BY <1>2
<1>4. /\ task'[w].frame = task[w].frame /\ task'[w].on = task[w].on
      /\ task'[w].audience = task[w].audience /\ task'[w].disturbed = task[w].disturbed
      /\ task'[w].pos = task[w].pos + 1 /\ task[w].pos \in Nat
  BY <1>1, <1>3 DEF Task
<1> QED BY <1>3, <1>4

(* A broadcast of w begins: a frame later than all of its others, to the   *)
(* list as it is after w has joined it, left it, or neither.               *)
Begins(w, f) ==
  /\ f \in Frame /\ f.from = w
  /\ \A i \in DOMAIN log : log[i].from = w => log[i].n < f.n
  /\ log' = Append(log, f) /\ delivered' = delivered
  /\ pc[w] \in {"new", "receiving", "relaying"} /\ pc'[w] \in Broadcasting
  /\ \A x \in Socket \ {w} : pc'[x] = pc[x] /\ conn'[x] = conn[x] /\ heard'[x] = heard[x]
  /\ heard'[w] \in Nat
  /\ pc[w] # "new" => conn'[w] = conn[w]
  /\ pc'[w] = "parting" \/ (f.n <= heard'[w] /\ f # Left(w))
  /\ peers' \in Seq(Socket) /\ Distinct(peers')
  /\ pc'[w] = "parting" => w \notin ToSet(peers')
  /\ \A k \in DOMAIN peers' :
       \/ \E l \in DOMAIN peers : l >= k /\ peers[l] = peers'[k]
       \/ peers'[k] = w /\ pc[w] = "new"
  /\ list' \in {list, list + 1}
  /\ peers' # <<>> => list' = list
  /\ task'[w] = [frame |-> f, on |-> IF peers' = <<>> THEN 0 ELSE list, pos |-> 1,
                 audience |-> ToSet(peers'), disturbed |-> FALSE]
  /\ \A x \in Socket \ {w} :
       /\ task'[x].frame = task[x].frame /\ task'[x].on = task[x].on
       /\ task'[x].pos = task[x].pos /\ task'[x].audience = task[x].audience
       /\ task'[x] = task[x] \/ task'[x].disturbed
       /\ pc[x] \in Broadcasting /\ task[x].on = list /\ ~task'[x].disturbed =>
            list' = list /\ \A k \in DOMAIN peers : k \in DOMAIN peers' /\ peers'[k] = peers[k]

(* Joining, relaying and leaving begin a broadcast.                        *)
LEMMA StepsBegin ==
  ASSUME TypesHold, PeersJoined, NewIsUnknown, LogNumbered,
         NEW w \in Socket, Join(w) \/ Relay(w) \/ Leaves(w)
  PROVE  \E f \in Frame : Begins(w, f)
<1>0. /\ MaxMsg \in Nat /\ list \in Nat
      /\ DOMAIN pc = Socket /\ DOMAIN conn = Socket /\ DOMAIN heard = Socket
      /\ heard[w] \in 0..MaxMsg
      /\ peers \in Seq(Socket) /\ log \in Seq(Frame)
      /\ task = [x \in Socket |-> task[x]] /\ DOMAIN task = Socket
      /\ \A x \in Socket : pc[x] \in Broadcasting => task[x] \in Task
  BY BoundsOK DEF TypesHold, TypeOK
<1>1. CASE Join(w)
  <2> DEFINE f == Joined(w)
  <2>1. /\ pc[w] = "new" /\ pc' = [pc EXCEPT ![w] = "greeting"]
        /\ conn' = [conn EXCEPT ![w] = "open"] /\ peers' = Append(peers, w)
        /\ Begin(w, f, Append(peers, w), task)
        /\ UNCHANGED <<list, heard, delivered>>
    BY <1>1 DEF Join
  <2>2. f \in Frame /\ f.from = w /\ f.n = 0 /\ f # Left(w)
    BY <1>0 DEF Joined, Frame, Left
  <2>3. \A i \in DOMAIN log : log[i].from # w
    BY <1>0, <2>1 DEF LogNumbered
  <2>4. /\ peers' \in Seq(Socket) /\ peers' # <<>>
        /\ Len(peers') = Len(peers) + 1 /\ peers'[Len(peers) + 1] = w
        /\ \A k \in DOMAIN peers : k \in DOMAIN peers' /\ peers'[k] = peers[k]
        /\ \A k \in DOMAIN peers' : k \in DOMAIN peers \/ k = Len(peers) + 1
    BY <1>0, <2>1
  <2>5. w \notin ToSet(peers)
    BY <2>1 DEF PeersJoined
  <2>6. Distinct(peers')
    BY <2>4, <2>5 DEF PeersJoined, Distinct, ToSet
  <2>7. \A k \in DOMAIN peers' :
          \/ \E l \in DOMAIN peers : l >= k /\ peers[l] = peers'[k]
          \/ peers'[k] = w /\ pc[w] = "new"
    BY <1>0, <2>1, <2>4
  <2> HIDE DEF f
  <2>8. /\ task'[w] = [frame |-> f, on |-> IF peers' = <<>> THEN 0 ELSE list, pos |-> 1,
                       audience |-> ToSet(peers'), disturbed |-> FALSE]
        /\ \A x \in Socket \ {w} : task'[x] = task[x]
        /\ log' = Append(log, f)
    BY <1>0, <2>1 DEF Begin
  <2>9. /\ pc'[w] = "greeting" /\ pc'[w] \in Broadcasting
        /\ \A x \in Socket \ {w} : pc'[x] = pc[x] /\ conn'[x] = conn[x] /\ heard'[x] = heard[x]
        /\ heard'[w] = heard[w]
    BY <1>0, <2>1 DEF Broadcasting
  <2>10. list' \in {list, list + 1} /\ (peers' # <<>> => list' = list)
    BY <2>1
  <2>11. f.n <= heard'[w] /\ heard'[w] \in Nat
    BY <1>0, <2>2, <2>9
  <2>12. Begins(w, f)
    BY ONLY <2>1, <2>2, <2>3, <2>4, <2>6, <2>7, <2>8, <2>9, <2>10, <2>11, w \in Socket DEF Begins
  <2> QED BY <2>2, <2>12
<1>2. CASE Relay(w)
  <2> DEFINE f == [from |-> w, n |-> heard[w] + 1]
  <2>1. /\ pc[w] = "receiving" /\ pc' = [pc EXCEPT ![w] = "relaying"]
        /\ heard' = [heard EXCEPT ![w] = @ + 1] /\ heard[w] < MaxMsg
        /\ Begin(w, f, peers, task)
        /\ UNCHANGED <<conn, peers, list, delivered>>
    BY <1>2 DEF Relay, MayHear
  <2>2. f \in Frame /\ f.from = w /\ f.n = heard[w] + 1 /\ f # Left(w)
    BY <1>0, <2>1 DEF Frame, Left
  <2>3. \A i \in DOMAIN log : log[i].from = w => log[i].n < f.n
    <3> SUFFICES ASSUME NEW i \in DOMAIN log, log[i].from = w PROVE log[i].n < f.n
      OBVIOUS
    <3>1. log[i].n <= heard[w]
      BY <2>1 DEF LogNumbered
    <3>2. log[i] \in Frame
      BY <1>0
    <3>3. log[i].n \in Nat
      BY <1>0, <3>2 DEF Frame
    <3> QED BY <1>0, <2>2, <3>1, <3>3
  <2> HIDE DEF f
  <2>4. /\ task'[w] = [frame |-> f, on |-> IF peers' = <<>> THEN 0 ELSE list, pos |-> 1,
                       audience |-> ToSet(peers'), disturbed |-> FALSE]
        /\ \A x \in Socket \ {w} : task'[x] = task[x]
        /\ log' = Append(log, f)
    BY <1>0, <2>1 DEF Begin
  <2>5. /\ pc'[w] = "relaying" /\ pc'[w] \in Broadcasting /\ heard'[w] = heard[w] + 1
        /\ \A x \in Socket \ {w} : pc'[x] = pc[x] /\ conn'[x] = conn[x] /\ heard'[x] = heard[x]
    BY <1>0, <2>1 DEF Broadcasting
  <2>6. \A k \in DOMAIN peers' : \E l \in DOMAIN peers : l >= k /\ peers[l] = peers'[k]
    BY <1>0, <2>1
  <2>7. Distinct(peers') /\ peers' \in Seq(Socket)
    BY <1>0, <2>1 DEF PeersJoined
  <2>8. list' = list /\ \A k \in DOMAIN peers : k \in DOMAIN peers' /\ peers'[k] = peers[k]
    BY <2>1
  <2>9. f.n <= heard'[w] /\ heard'[w] \in Nat
    BY <1>0, <2>2, <2>5
  <2>10. Begins(w, f)
    BY ONLY <2>1, <2>2, <2>3, <2>4, <2>5, <2>6, <2>7, <2>8, <2>9, w \in Socket DEF Begins
  <2> QED BY <2>2, <2>10
<1>3. CASE Leaves(w)
  <2> DEFINE f == Left(w)
             rest == RemoveFirst(peers, w)
             told == [x \in Socket |-> IF pc[x] \in Broadcasting /\ task[x].on = list
                                      THEN [task[x] EXCEPT !.disturbed = TRUE] ELSE task[x]]
  <2>1. /\ pc[w] \in {"receiving", "relaying"} /\ pc' = [pc EXCEPT ![w] = "parting"]
        /\ peers' = rest /\ list' = IF rest = <<>> THEN list + 1 ELSE list
        /\ Begin(w, f, rest, told)
        /\ UNCHANGED <<conn, heard, delivered>>
    BY <1>3 DEF Leaves, Leave
  <2>2. f \in Frame /\ f.from = w /\ f.n = MaxMsg + 1
    BY <1>0 DEF Left, Frame
  <2>3. \A i \in DOMAIN log : log[i].from = w => log[i].n < f.n
    <3> SUFFICES ASSUME NEW i \in DOMAIN log, log[i].from = w PROVE log[i].n < f.n
      OBVIOUS
    <3>1. log[i].n <= heard[w]
      BY <2>1 DEF LogNumbered
    <3>2. log[i] \in Frame
      BY <1>0
    <3>3. log[i].n \in Nat
      BY <1>0, <3>2 DEF Frame
    <3> QED BY <1>0, <2>2, <3>1, <3>3
  <2>4. /\ rest \in Seq(Socket) /\ Distinct(rest) /\ w \notin ToSet(rest)
        /\ \A k \in DOMAIN rest : \E l \in DOMAIN peers : l >= k /\ peers[l] = rest[k]
    BY <1>0, RemoveFirstIsShift DEF PeersJoined
  <2>5. \A x \in Socket :
          /\ told[x].frame = task[x].frame /\ told[x].on = task[x].on
          /\ told[x].pos = task[x].pos /\ told[x].audience = task[x].audience
          /\ told[x] = task[x] \/ told[x].disturbed
          /\ pc[x] \in Broadcasting /\ task[x].on = list => told[x].disturbed
    BY <1>0 DEF Task
  <2>6. DOMAIN told = Socket
    OBVIOUS
  <2> HIDE DEF f, rest, told
  <2>7. /\ task'[w] = [frame |-> f, on |-> IF peers' = <<>> THEN 0 ELSE list, pos |-> 1,
                       audience |-> ToSet(peers'), disturbed |-> FALSE]
        /\ \A x \in Socket \ {w} : task'[x] = told[x]
        /\ log' = Append(log, f)
    BY <2>1, <2>6 DEF Begin
  <2>8. /\ pc'[w] = "parting" /\ pc'[w] \in Broadcasting
        /\ \A x \in Socket \ {w} : pc'[x] = pc[x] /\ conn'[x] = conn[x] /\ heard'[x] = heard[x]
    BY <1>0, <2>1 DEF Broadcasting
  <2>9. list' \in {list, list + 1} /\ (peers' # <<>> => list' = list) /\ heard'[w] \in Nat
    BY <1>0, <2>1
  <2>10. Begins(w, f)
    BY ONLY <2>1, <2>2, <2>3, <2>4, <2>5, <2>7, <2>8, <2>9, w \in Socket DEF Begins
  <2> QED BY <2>2, <2>10
<1> QED BY <1>1, <1>2, <1>3

-----------------------------------------------------------------------------
(* Appending adds one element, at the end.                                 *)
LEMMA AppendAddsOne ==
  ASSUME NEW S, NEW s \in Seq(S), NEW e \in S
  PROVE  /\ Append(s, e) \in Seq(S)
         /\ ToSet(Append(s, e)) = ToSet(s) \cup {e}
         /\ DOMAIN Append(s, e) = DOMAIN s \cup {Len(s) + 1}
         /\ \A i \in DOMAIN s : Append(s, e)[i] = s[i] /\ i \in 1..Len(s)
         /\ Append(s, e)[Len(s) + 1] = e
         /\ Len(s) \in Nat
<1> DEFINE t == Append(s, e)
<1>1. /\ t \in Seq(S) /\ DOMAIN t = DOMAIN s \cup {Len(s) + 1} /\ Len(s) \in Nat
      /\ \A i \in DOMAIN s : t[i] = s[i] /\ i \in 1..Len(s)
      /\ t[Len(s) + 1] = e
  OBVIOUS
<1> HIDE DEF t
<1>2. ToSet(t) = ToSet(s) \cup {e}
  BY <1>1 DEF ToSet
<1> QED BY <1>1, <1>2 DEF t

Shaped(w) == Rests(w) \/ Moves(w) \/ \E f \in Frame : Begins(w, f)

(* What a broadcast that begins adds to the log.                           *)
LEMMA BegunLog ==
  ASSUME TypesHold, NEW w \in Socket, NEW f \in Frame, Begins(w, f)
  PROVE  /\ ToSet(log') = ToSet(log) \cup {f}
         /\ f \notin ToSet(log)
         /\ DOMAIN log' = DOMAIN log \cup {Len(log) + 1}
         /\ \A i \in DOMAIN log : log'[i] = log[i] /\ i \in 1..Len(log)
         /\ log'[Len(log) + 1] = f
         /\ Len(log) \in Nat
<1>1. log \in Seq(Frame)
  BY DEF TypesHold, TypeOK
<1>2. f \notin ToSet(log)
  <2>1. f.n \in Nat
    BY BoundsOK DEF Frame
  <2> QED BY <1>1, <2>1 DEF Begins, ToSet
<1> QED BY <1>1, <1>2, AppendAddsOne DEF Begins

(* Nobody is on the list twice, nor after leaving.                         *)
LEMMA NextPeersJoined ==
  ASSUME TypesHold, PeersJoined, NEW w \in Socket, Shaped(w)
  PROVE  PeersJoined'
<1>0. DOMAIN pc = Socket /\ ToSet(peers) \subseteq Socket
  BY DEF TypesHold, TypeOK, ToSet
<1>1. CASE Rests(w)
  BY <1>0, <1>1 DEF Rests, PeersJoined, Distinct, ToSet
<1>2. CASE Moves(w)
  BY <1>0, <1>2 DEF Moves, PeersJoined, Distinct, ToSet
<1>3. ASSUME NEW f \in Frame, Begins(w, f) PROVE PeersJoined'
  <2>1. Distinct(peers)'
    BY <1>3 DEF Begins, Distinct
  <2>2. ASSUME NEW x \in ToSet(peers') PROVE pc'[x] \notin {"new", "parting", "done"}
    <3>1. x \in Socket /\ (x \in ToSet(peers) \/ x = w)
      <4>1. PICK k \in DOMAIN peers' : x = peers'[k]
        BY DEF ToSet
      <4>2. x \in Socket
        BY <1>3, <4>1 DEF Begins
      <4> QED BY <1>3, <4>1, <4>2 DEF Begins, ToSet
    <3>2. CASE x = w
      BY <1>3, <3>2 DEF Begins, Broadcasting
    <3>3. CASE x # w
      BY <1>3, <3>1, <3>3 DEF Begins, PeersJoined
    <3> QED BY <3>2, <3>3
  <2>3. \A x \in ToSet(peers)' : pc'[x] \notin {"new", "parting", "done"}
    BY <2>2 DEF ToSet
  <2> QED BY <2>1, <2>3 DEF PeersJoined
<1> QED BY <1>1, <1>2, <1>3 DEF Shaped

(* Who has not joined stays out of everything.                             *)
LEMMA NextNewIsUnknown ==
  ASSUME TypesHold, PeersJoined, NewIsUnknown, NEW w \in Socket, Shaped(w)
  PROVE  NewIsUnknown'
<1>0. /\ DOMAIN pc = Socket /\ DOMAIN conn = Socket /\ DOMAIN heard = Socket
      /\ DOMAIN task = Socket /\ DOMAIN delivered = Socket
      /\ ToSet(peers) \subseteq Socket /\ NoTask.audience = {}
  BY DEF TypesHold, TypeOK, ToSet, NoTask
<1> SUFFICES ASSUME NEW x \in Socket, pc'[x] = "new"
             PROVE  /\ conn'[x] = "absent" /\ delivered'[x] = <<>> /\ heard'[x] = 0
                    /\ \A y \in Socket : x \notin task'[y].audience
  BY DEF NewIsUnknown
<1>1. CASE Rests(w)
  <2>1. x # w /\ pc[x] = "new"
    BY <1>0, <1>1 DEF Rests
  <2>2. conn'[x] = "absent" /\ delivered'[x] = <<>> /\ heard'[x] = 0
    BY <1>0, <1>1, <2>1 DEF Rests, NewIsUnknown
  <2>3. \A y \in Socket : task'[y] \in {task[y], NoTask}
    BY <1>0, <1>1 DEF Rests
  <2> QED BY <1>0, <2>1, <2>2, <2>3 DEF NewIsUnknown
<1>2. CASE Moves(w)
  <2>1. pc[x] = "new" /\ conn'[x] = conn[x] /\ heard'[x] = heard[x]
    BY <1>2 DEF Moves
  <2>2. x # peers[task[w].pos]
    BY <1>2, <2>1 DEF Moves, PeersJoined, ToSet
  <2>3. delivered'[x] = delivered[x]
    BY <1>0, <1>2, <2>2 DEF Moves
  <2> QED BY <1>2, <2>1, <2>3, MovedTasks DEF NewIsUnknown
<1>3. ASSUME NEW f \in Frame, Begins(w, f)
      PROVE  /\ conn'[x] = "absent" /\ delivered'[x] = <<>> /\ heard'[x] = 0
             /\ \A y \in Socket : x \notin task'[y].audience
  <2>1. x # w /\ pc[x] = "new"
    BY <1>3 DEF Begins, Broadcasting
  <2>2. conn'[x] = "absent" /\ delivered'[x] = <<>> /\ heard'[x] = 0
    BY <1>3, <2>1 DEF Begins, NewIsUnknown
  <2>3. x \notin task'[w].audience
    <3>1. task'[w].audience = ToSet(peers')
      BY <1>3 DEF Begins
    <3>2. x \notin ToSet(peers')
      BY <1>3, <2>1 DEF Begins, PeersJoined, ToSet
    <3> QED BY <3>1, <3>2
  <2>4. \A y \in Socket \ {w} : x \notin task'[y].audience
    BY <1>3, <2>1 DEF Begins, NewIsUnknown
  <2> QED BY <2>2, <2>3, <2>4
<1> QED BY <1>1, <1>2, <1>3 DEF Shaped

(* The log stays numbered.                                                 *)
LEMMA NextLogNumbered ==
  ASSUME TypesHold, PeersJoined, LogNumbered, NEW w \in Socket, Shaped(w)
  PROVE  LogNumbered'
<1>0. /\ DOMAIN pc = Socket /\ DOMAIN heard = Socket /\ log \in Seq(Frame)
      /\ \A i \in DOMAIN log : log[i] \in Frame /\ log[i].from \in Socket /\ log[i].n \in Nat
      /\ \A x \in Socket : heard[x] \in Nat
      /\ MaxMsg \in Nat
  <2>1. log \in Seq(Frame) /\ MaxMsg \in Nat /\ \A i \in DOMAIN log : log[i] \in Frame
    BY BoundsOK DEF TypesHold, TypeOK
  <2> QED BY <2>1 DEF TypesHold, TypeOK, Frame
<1>1. CASE Rests(w)
  <2>1. log' = log /\ peers' = peers
    BY <1>1 DEF Rests
  <2>2. \A x \in Socket : /\ pc'[x] = "new" => pc[x] = "new"
                          /\ heard[x] <= heard'[x] /\ heard'[x] \in Nat
                          /\ pc'[x] \in {"greeting", "receiving", "relaying"} =>
                               pc[x] \in {"greeting", "receiving", "relaying"}
    BY <1>0, <1>1 DEF Rests
  <2>3. Distinct(log)'
    BY <2>1 DEF LogNumbered, Distinct
  <2>4. \A i \in DOMAIN log : LET x == log[i].from IN
          /\ pc'[x] # "new"
          /\ pc'[x] \in {"greeting", "receiving", "relaying"} => log[i].n <= heard'[x]
          /\ log[i] = Left(x) => x \notin ToSet(peers)
    BY <1>0, <2>2 DEF LogNumbered
  <2> QED BY <2>1, <2>3, <2>4 DEF LogNumbered, ToSet, Left
<1>2. CASE Moves(w)
  BY <1>2 DEF Moves, LogNumbered, Distinct, ToSet, Left
<1>3. ASSUME NEW f \in Frame, Begins(w, f) PROVE LogNumbered'
  <2>1. Distinct(log)'
    BY <1>3, BegunLog DEF LogNumbered, Distinct, ToSet
  <2>2. ASSUME NEW i \in DOMAIN log
        PROVE  LET x == log[i].from IN
                 /\ pc'[x] # "new"
                 /\ pc'[x] \in {"greeting", "receiving", "relaying"} => log[i].n <= heard'[x]
                 /\ log[i] = Left(x) => x \notin ToSet(peers')
    <3> DEFINE x == log[i].from
    <3>1. CASE x = w
      <4>1. log[i].n < f.n /\ f.n \in Nat /\ f.n <= MaxMsg + 1
        BY <1>0, <1>3, <3>1 DEF Begins, Frame
      <4>2. pc'[x] # "new"
        BY <1>3, <3>1 DEF Begins, Broadcasting
      <4>3. pc'[x] # "parting" => log[i].n <= heard'[x]
        <5>1. heard'[w] = heard'[x] /\ (pc'[w] # "parting" => f.n <= heard'[w])
          BY <1>3, <3>1 DEF Begins
        <5> SUFFICES ASSUME pc'[x] # "parting" PROVE log[i].n <= heard'[x]
          OBVIOUS
        <5>2. heard'[w] \in Nat
          BY <1>3 DEF Begins
        <5> QED BY <1>0, <3>1, <4>1, <5>1, <5>2
      <4>4. log[i] # Left(x)
        BY <1>0, <4>1 DEF Left
      <4> QED BY <4>2, <4>3, <4>4
    <3>2. CASE x # w
      <4>1. x \in Socket \ {w} /\ pc'[x] = pc[x] /\ heard'[x] = heard[x]
        BY <1>0, <1>3, <3>2 DEF Begins
      <4>2. x \in ToSet(peers') => x \in ToSet(peers)
        BY <1>3, <3>2 DEF Begins, ToSet
      <4> QED BY <4>1, <4>2 DEF LogNumbered
    <3> QED BY <3>1, <3>2
  <2>3. /\ pc'[w] # "new"
        /\ pc'[w] \in {"greeting", "receiving", "relaying"} => f.n <= heard'[w]
        /\ f = Left(w) => w \notin ToSet(peers')
    BY <1>3 DEF Begins, Broadcasting
  <2>4. f.from = w
    BY <1>3 DEF Begins
  <2>5. \A i \in DOMAIN log' : LET x == log'[i].from IN
          /\ pc'[x] # "new"
          /\ pc'[x] \in {"greeting", "receiving", "relaying"} => log'[i].n <= heard'[x]
          /\ log'[i] = Left(x) => x \notin ToSet(peers')
    BY <1>3, <2>2, <2>3, <2>4, BegunLog
  <2> QED BY <2>1, <2>5 DEF LogNumbered, ToSet, Left
<1> QED BY <1>1, <1>2, <1>3 DEF Shaped

(* What is delivered was recorded before.                                  *)
LEMMA NextDeliveredIsLogged ==
  ASSUME TypesHold, TaskIsLast, DeliveredIsLogged, NEW w \in Socket, Shaped(w)
  PROVE  DeliveredIsLogged'
<1>0. /\ delivered \in [Socket -> Seq(Frame)]
      /\ pc[w] \in Broadcasting => task[w].frame \in Frame
  BY DEF TypesHold, TypeOK, Task
<1>1. CASE Rests(w)
  BY <1>1 DEF Rests, DeliveredIsLogged, ToSet
<1>2. CASE Moves(w)
  <2> DEFINE p == peers[task[w].pos]
             f == task[w].frame
  <2>1. log' = log /\ f \in ToSet(log) /\ f \in Frame
    BY <1>0, <1>2 DEF Moves, TaskIsLast
  <2> SUFFICES ASSUME NEW q \in Socket PROVE ToSet(delivered'[q]) \subseteq ToSet(log)
    BY <2>1 DEF DeliveredIsLogged, ToSet
  <2>2. ToSet(delivered'[q]) \subseteq ToSet(delivered[q]) \cup {f}
    <3>1. CASE delivered' = delivered
      BY <3>1
    <3>2. CASE delivered' = [delivered EXCEPT ![p] = Append(@, f)]
      <4>1. delivered'[q] = delivered[q] \/ delivered'[q] = Append(delivered[q], f)
        BY <1>0, <3>2
      <4>2. ToSet(Append(delivered[q], f)) = ToSet(delivered[q]) \cup {f}
        BY <1>0, <2>1, AppendAddsOne
      <4> QED BY <4>1, <4>2
    <3> QED BY <1>2, <3>1, <3>2 DEF Moves
  <2> QED BY <2>1, <2>2 DEF DeliveredIsLogged
<1>3. ASSUME NEW f \in Frame, Begins(w, f) PROVE DeliveredIsLogged'
  <2>1. delivered' = delivered /\ ToSet(log) \subseteq ToSet(log')
    BY <1>3, BegunLog DEF Begins
  <2>2. \A p \in Socket : ToSet(delivered'[p]) \subseteq ToSet(log')
    BY <2>1 DEF DeliveredIsLogged
  <2> QED BY <2>2 DEF DeliveredIsLogged, ToSet
<1> QED BY <1>1, <1>2, <1>3 DEF Shaped

(* A broadcast stays that of its socket's last frame.                      *)
LEMMA NextTaskIsLast ==
  ASSUME TypesHold, TaskIsLast, NEW w \in Socket, Shaped(w)
  PROVE  TaskIsLast'
<1>0. /\ DOMAIN pc = Socket /\ DOMAIN task = Socket /\ list \in Nat
      /\ \A i \in DOMAIN log : log[i].n \in Nat
      /\ \A x \in Socket : pc[x] \in Broadcasting => task[x].on \in Nat
  <2>1. \A i \in DOMAIN log : log[i].n \in Nat
    <3>1. MaxMsg \in Nat /\ \A i \in DOMAIN log : log[i] \in Frame
      BY BoundsOK DEF TypesHold, TypeOK
    <3> QED BY <3>1 DEF Frame
  <2>2. Cardinality(Socket) \in Nat /\ list \in Nat
    BY ListsOfEnded
  <2> QED BY <2>1, <2>2 DEF TypesHold, TypeOK, Task
<1> SUFFICES ASSUME NEW x \in Socket, pc'[x] \in Broadcasting
             PROVE  /\ task'[x].frame.from = x /\ task'[x].frame \in ToSet(log')
                    /\ task'[x].on <= list'
                    /\ \A i \in DOMAIN log' : log'[i].from = x => log'[i].n <= task'[x].frame.n
  BY DEF TaskIsLast, ToSet
<1>1. CASE Rests(w)
  <2>1. pc[x] \in Broadcasting /\ task'[x] = task[x] /\ list' = list /\ log' = log
    BY <1>0, <1>1 DEF Rests, Broadcasting
  <2> QED BY <2>1 DEF TaskIsLast, ToSet
<1>2. CASE Moves(w)
  <2>1. pc[x] \in Broadcasting /\ list' = list /\ log' = log
    BY <1>2 DEF Moves
  <2>2. task'[x].frame = task[x].frame /\ task'[x].on = task[x].on
    BY <1>2, MovedTasks
  <2> QED BY <2>1, <2>2 DEF TaskIsLast, ToSet
<1>3. ASSUME NEW f \in Frame, Begins(w, f)
      PROVE  /\ task'[x].frame.from = x /\ task'[x].frame \in ToSet(log')
             /\ task'[x].on <= list'
             /\ \A i \in DOMAIN log' : log'[i].from = x => log'[i].n <= task'[x].frame.n
  <2>1. f.from = w /\ f.n \in Nat
    BY <1>3, BoundsOK DEF Begins, Frame
  <2>2. CASE x = w
    <3>1. task'[x].frame = f /\ task'[x].on \in {0, list} /\ list' \in {list, list + 1}
      BY <1>3, <2>2 DEF Begins
    <3>2. \A i \in DOMAIN log : log[i].from = w => log[i].n < f.n
      BY <1>3 DEF Begins
    <3> QED BY <1>0, <1>3, <2>1, <2>2, <3>1, <3>2, BegunLog
  <2>3. CASE x # w
    <3>1. /\ pc[x] \in Broadcasting /\ task'[x].frame = task[x].frame
          /\ task'[x].on = task[x].on /\ list' \in {list, list + 1}
      BY <1>3, <2>3 DEF Begins
    <3>2. /\ task[x].frame.from = x /\ task[x].frame \in ToSet(log) /\ task[x].on <= list
          /\ \A i \in DOMAIN log : log[i].from = x => log[i].n <= task[x].frame.n
      BY <3>1 DEF TaskIsLast
    <3> QED BY <1>0, <1>3, <2>1, <2>3, <3>1, <3>2, BegunLog
  <2> QED BY <2>2, <2>3
<1> QED BY <1>1, <1>2, <1>3 DEF Shaped

(* What is ahead of a walk stays deaf to its frame: peers move up but      *)
(* never down the list, and who joins has heard nothing.                   *)
LEMMA NextAheadIsDeaf ==
  ASSUME TypesHold, PeersJoined, NewIsUnknown, DeliveredIsLogged, TaskIsLast, AheadIsDeaf,
         NEW w \in Socket, Shaped(w)
  PROVE  AheadIsDeaf'
<1>0. /\ DOMAIN pc = Socket /\ DOMAIN task = Socket /\ list \in Nat \ {0}
      /\ peers \in Seq(Socket)
      /\ delivered \in [Socket -> Seq(Frame)]
      /\ \A x \in Socket : pc[x] \in Broadcasting =>
           task[x].on \in Nat /\ task[x].pos \in Nat /\ task[x].frame \in Frame
  <2>1. Cardinality(Socket) \in Nat /\ list \in Nat
    BY ListsOfEnded
  <2> QED BY <2>1 DEF TypesHold, TypeOK, Task
<1> SUFFICES ASSUME NEW x \in Socket, pc'[x] \in Broadcasting, task'[x].on = list',
                    NEW k \in DOMAIN peers', k >= task'[x].pos
             PROVE  task'[x].frame \notin ToSet(delivered'[peers'[k]])
  BY DEF AheadIsDeaf, ToSet
<1>1. CASE Rests(w)
  <2>1. /\ pc[x] \in Broadcasting /\ task'[x] = task[x] /\ list' = list /\ peers' = peers
        /\ delivered' = delivered
    BY <1>0, <1>1 DEF Rests, Broadcasting
  <2> QED BY <2>1 DEF AheadIsDeaf
<1>2. CASE Moves(w)
  <2> DEFINE q == peers[task[w].pos]
             f == task[w].frame
  <2>1. /\ pc[x] \in Broadcasting /\ list' = list /\ peers' = peers
        /\ task'[x].frame = task[x].frame /\ task'[x].on = task[x].on
        /\ task[w].pos \in DOMAIN peers /\ pc[w] \in Broadcasting
    BY <1>2, MovedTasks DEF Moves
  <2>2. k >= task[x].pos /\ (x = w => k # task[w].pos)
    BY <1>0, <1>2, <2>1, MovedTasks
  <2>3. task[x].frame \notin ToSet(delivered[peers[k]]) /\ peers[k] \in Socket
    BY <1>0, <2>1, <2>2 DEF AheadIsDeaf
  <2>4. CASE delivered'[peers[k]] = delivered[peers[k]]
    BY <2>1, <2>3, <2>4
  <2>5. CASE delivered'[peers[k]] # delivered[peers[k]]
    <3>1. delivered' = [delivered EXCEPT ![q] = Append(@, f)]
      BY <1>2, <2>5 DEF Moves
    <3>2. peers[k] = q /\ delivered'[q] = Append(delivered[q], f)
      BY <1>0, <2>3, <2>5, <3>1
    <3>3. x # w
      BY <2>1, <2>2, <3>2 DEF PeersJoined, Distinct
    <3>4. f # task[x].frame
      BY <2>1, <3>3 DEF TaskIsLast
    <3>5. ToSet(delivered'[q]) = ToSet(delivered[q]) \cup {f}
      BY <1>0, <2>1, <2>3, <3>2, AppendAddsOne
    <3> QED BY <2>1, <2>3, <3>2, <3>4, <3>5
  <2> QED BY <2>4, <2>5
<1>3. ASSUME NEW f \in Frame, Begins(w, f)
      PROVE  task'[x].frame \notin ToSet(delivered'[peers'[k]])
  <2>1. delivered' = delivered /\ peers'[k] \in Socket /\ k \in Nat
    BY <1>3 DEF Begins
  <2>2. CASE x = w
    <3>1. task'[x].frame = f /\ f \notin ToSet(log)
      BY <1>3, <2>2, BegunLog DEF Begins
    <3> QED BY <2>1, <3>1 DEF DeliveredIsLogged
  <2>3. CASE x # w
    <3>1. /\ pc[x] \in Broadcasting /\ task'[x].frame = task[x].frame
          /\ task'[x].on = task[x].on /\ task'[x].pos = task[x].pos
          /\ list' \in {list, list + 1}
      BY <1>3, <2>3 DEF Begins
    <3>2. task[x].on = list
      BY <1>0, <3>1 DEF TaskIsLast
    <3>3. \/ \E l \in DOMAIN peers : l >= k /\ peers[l] = peers'[k]
          \/ peers'[k] = w /\ pc[w] = "new"
      BY <1>3 DEF Begins
    <3>4. CASE \E l \in DOMAIN peers : l >= k /\ peers[l] = peers'[k]
      <4>1. PICK l \in DOMAIN peers : l >= k /\ peers[l] = peers'[k]
        BY <3>4
      <4>2. l >= task[x].pos
        BY <1>0, <2>1, <3>1, <4>1
      <4> QED BY <2>1, <3>1, <3>2, <4>1, <4>2 DEF AheadIsDeaf
    <3>5. CASE peers'[k] = w /\ pc[w] = "new"
      BY <2>1, <3>5 DEF NewIsUnknown, ToSet
    <3> QED BY <3>3, <3>4, <3>5
  <2> QED BY <2>2, <2>3
<1> QED BY <1>1, <1>2, <1>3 DEF Shaped

(* An undisturbed walk still has ahead of it whom it owes its frame.       *)
LEMMA NextOwedIsAhead ==
  ASSUME TypesHold, PeersJoined, NewIsUnknown, OwedIsAhead, NEW w \in Socket, Shaped(w)
  PROVE  OwedIsAhead'
<1>0. /\ DOMAIN pc = Socket /\ DOMAIN conn = Socket /\ DOMAIN task = Socket
      /\ peers \in Seq(Socket)
      /\ delivered \in [Socket -> Seq(Frame)]
      /\ \A x \in Socket : pc[x] \in Broadcasting =>
           task[x].pos \in Nat /\ task[x].frame \in Frame /\ task[x].audience \subseteq Socket
  BY DEF TypesHold, TypeOK, Task
<1> SUFFICES ASSUME NEW x \in Socket, pc'[x] \in Broadcasting, ~task'[x].disturbed,
                    NEW p \in Socket, p \in task'[x].audience, p \notin Excluded(x)',
                    conn'[p] = "open", task'[x].frame \notin ToSet(delivered'[p])
             PROVE  /\ task'[x].on = list'
                    /\ \E k \in DOMAIN peers' : k >= task'[x].pos /\ peers'[k] = p
  <2>1. ASSUME NEW x \in Socket, pc'[x] \in Broadcasting, ~task'[x].disturbed,
               NEW p \in (Owed(x) \ Reached(x))'
        PROVE  /\ p \in Socket /\ p \in task'[x].audience /\ p \notin Excluded(x)'
               /\ conn'[p] = "open" /\ task'[x].frame \notin ToSet(delivered'[p])
    <3>1. p \in task'[x].audience /\ p \notin Excluded(x)' /\ conn'[p] = "open"
      BY <2>1 DEF Owed
    <3>2. p \in Socket
      <4>1. CASE Rests(w) \/ Moves(w)
        <5>1. pc[x] \in Broadcasting /\ task'[x].audience = task[x].audience
          BY <1>0, <2>1, <4>1, MovedTasks DEF Rests, Moves, Broadcasting
        <5> QED BY <1>0, <3>1, <5>1
      <4>2. ASSUME NEW f \in Frame, Begins(w, f) PROVE p \in Socket
        <5>1. CASE x = w
          BY <3>1, <4>2, <5>1 DEF Begins, ToSet
        <5>2. CASE x # w
          BY <1>0, <2>1, <3>1, <4>2, <5>2 DEF Begins
        <5> QED BY <5>1, <5>2
      <4> QED BY <4>1, <4>2 DEF Shaped
    <3> QED BY <2>1, <3>1, <3>2 DEF Reached, ToSet
  <2> QED BY <2>1 DEF OwedIsAhead
<1>1. ASSUME pc[x] \in Broadcasting, ~task[x].disturbed, p \in task[x].audience,
             p \notin Excluded(x), conn[p] = "open", task[x].frame \notin ToSet(delivered[p])
      PROVE  task[x].on = list /\ \E k \in DOMAIN peers : k >= task[x].pos /\ peers[k] = p
  BY <1>1 DEF OwedIsAhead, Owed, Reached
<1>2. CASE Rests(w)
  <2>1. /\ pc[x] \in Broadcasting /\ pc'[x] = pc[x] /\ task'[x] = task[x]
        /\ list' = list /\ peers' = peers /\ delivered' = delivered
    BY <1>0, <1>2 DEF Rests, Broadcasting
  <2>2. conn[p] = "open" /\ p \notin Excluded(x)
    BY <1>0, <1>2, <2>1 DEF Rests, Excluded
  <2> QED BY <1>1, <2>1, <2>2
<1>3. CASE Moves(w)
  <2> DEFINE q == peers[task[w].pos]
             f == task[w].frame
  <2>1. /\ pc[x] \in Broadcasting /\ pc' = pc /\ conn' = conn /\ list' = list /\ peers' = peers
        /\ task'[x].frame = task[x].frame /\ task'[x].on = task[x].on
        /\ task'[x].audience = task[x].audience /\ task'[x].disturbed = task[x].disturbed
        /\ task[w].pos \in DOMAIN peers /\ q \in Socket
    BY <1>0, <1>3, MovedTasks DEF Moves
  <2>2. task[x].frame \notin ToSet(delivered[p])
    <3>1. CASE delivered'[p] = delivered[p]
      BY <2>1, <3>1
    <3>2. CASE delivered'[p] # delivered[p]
      <4>1. /\ delivered'[p] = Append(delivered[p], f) /\ pc[w] \in Broadcasting
        BY <1>0, <1>3, <3>2 DEF Moves
      <4>2. ToSet(delivered[p]) \subseteq ToSet(delivered'[p])
        BY <1>0, <4>1, AppendAddsOne
      <4> QED BY <2>1, <4>2
    <3> QED BY <3>1, <3>2
  <2>3. task[x].on = list /\ \E k \in DOMAIN peers : k >= task[x].pos /\ peers[k] = p
    BY <1>1, <2>1, <2>2 DEF Excluded
  <2>4. PICK k \in DOMAIN peers : k >= task[x].pos /\ peers[k] = p
    BY <2>3
  <2>5. CASE x # w
    BY <1>3, <2>1, <2>3, <2>5, MovedTasks
  <2>6. CASE x = w
    <3>1. p # q
      <4>1. ASSUME p = q PROVE FALSE
        <5>1. delivered' = [delivered EXCEPT ![q] = Append(@, f)]
          BY <1>3, <2>1, <2>6, <4>1 DEF Moves, Excluded
        <5>2. delivered'[p] = Append(delivered[p], f) /\ f \in Frame
          BY <1>0, <2>1, <2>6, <4>1, <5>1
        <5>3. f \in ToSet(delivered'[p])
          BY <1>0, <5>2, AppendAddsOne
        <5> QED BY <2>1, <2>6, <5>3
      <4> QED BY <4>1
    <3>2. k # task[w].pos
      BY <2>4, <3>1
    <3>3. task'[w].pos = task[w].pos + 1 /\ task[w].pos \in Nat /\ k \in Nat
      BY <1>0, <1>3, MovedTasks
    <3> QED BY <2>1, <2>3, <2>4, <2>6, <3>2, <3>3
  <2> QED BY <2>5, <2>6
<1>4. ASSUME NEW f \in Frame, Begins(w, f)
      PROVE  /\ task'[x].on = list'
             /\ \E k \in DOMAIN peers' : k >= task'[x].pos /\ peers'[k] = p
  <2>1. CASE x = w
    <3>1. PICK k \in DOMAIN peers' : peers'[k] = p
      BY <1>4, <2>1 DEF Begins, ToSet
    <3>2. peers' # <<>> /\ k \in Nat \ {0}
      BY <1>4, <3>1 DEF Begins
    <3>3. task'[x].pos = 1 /\ task'[x].on = list /\ list' = list
      BY <1>4, <2>1, <3>2 DEF Begins
    <3> QED BY <3>1, <3>2, <3>3
  <2>2. CASE x # w
    <3>1. /\ pc'[x] = pc[x] /\ pc[x] \in Broadcasting /\ ~task[x].disturbed
          /\ task'[x].frame = task[x].frame /\ task'[x].on = task[x].on
          /\ task'[x].pos = task[x].pos /\ p \in task[x].audience /\ delivered' = delivered
      BY <1>4, <2>2 DEF Begins
    <3>2. conn[p] = "open"
      <4>1. CASE p # w
        BY <1>4, <4>1 DEF Begins
      <4>2. CASE p = w
        BY <1>4, <3>1, <4>2 DEF Begins, NewIsUnknown
      <4> QED BY <4>1, <4>2
    <3>3. task[x].on = list /\ \E k \in DOMAIN peers : k >= task[x].pos /\ peers[k] = p
      BY <1>1, <3>1, <3>2 DEF Excluded
    <3>4. list' = list /\ \A k \in DOMAIN peers : k \in DOMAIN peers' /\ peers'[k] = peers[k]
      BY <1>4, <2>2, <3>1, <3>3 DEF Begins
    <3> QED BY <3>1, <3>3, <3>4
  <2> QED BY <2>1, <2>2
<1> QED BY <1>2, <1>3, <1>4 DEF Shaped

(* Frames of one socket arrive in order, each once.                        *)
LEMMA NextOrderedOnce ==
  ASSUME TypesHold, DeliveredIsLogged, TaskIsLast, AheadIsDeaf, OrderedOnce,
         NEW w \in Socket, Shaped(w)
  PROVE  OrderedOnce'
<1>0. /\ delivered \in [Socket -> Seq(Frame)] /\ peers \in Seq(Socket) /\ MaxMsg \in Nat
      /\ pc[w] \in Broadcasting => task[w].pos \in Nat /\ task[w].frame \in Frame
  BY BoundsOK DEF TypesHold, TypeOK, Task
<1>1. CASE delivered' = delivered
  BY <1>1 DEF OrderedOnce
<1>2. CASE Moves(w) /\ delivered' # delivered
  <2> DEFINE q == peers[task[w].pos]
             f == task[w].frame
  <2>1. /\ q \in Socket /\ f \in Frame /\ pc[w] \in Broadcasting
        /\ delivered' = [delivered EXCEPT ![q] = Append(@, f)]
    BY <1>0, <1>2 DEF Moves
  <2>2. f \notin ToSet(delivered[q])
    <3>1. /\ task[w].on = list /\ task[w].pos \in DOMAIN peers
          /\ task[w].pos >= task[w].pos /\ pc[w] \in Broadcasting
      BY <1>0, <1>2 DEF Moves
    <3> QED BY <3>1 DEF AheadIsDeaf
  <2>3. f.from = w /\ \A i \in DOMAIN log : log[i].from = w => log[i].n <= f.n
    BY <2>1 DEF TaskIsLast
  <2>4. \A i \in DOMAIN delivered[q] :
          delivered[q][i].from = f.from => delivered[q][i].n < f.n
    <3> SUFFICES ASSUME NEW i \in DOMAIN delivered[q], delivered[q][i].from = f.from
                 PROVE  delivered[q][i].n < f.n
      OBVIOUS
    <3> DEFINE g == delivered[q][i]
    <3>1. g \in ToSet(delivered[q]) /\ g \in ToSet(log) /\ g \in Frame
      <4>1. g \in ToSet(delivered[q])
        BY DEF ToSet
      <4>2. delivered[q] \in Seq(Frame)
        BY <1>0, <2>1
      <4>3. g \in Frame
        BY <4>2
      <4> QED BY <2>1, <4>1, <4>3 DEF DeliveredIsLogged
    <3>2. g.n <= f.n
      BY <2>3, <3>1 DEF ToSet
    <3>3. g # f
      BY <2>2, <3>1
    <3> HIDE DEF f, g
    <3>4. g.n # f.n /\ g.n \in Nat /\ f.n \in Nat
      <4>1. f \in Frame /\ g \in Frame /\ g.from = f.from
        BY <2>1, <3>1 DEF g
      <4>2. g.n \in Nat /\ f.n \in Nat
        BY <1>0, <4>1 DEF Frame
      <4>3. g.n = f.n => g = f
        BY <4>1 DEF Frame
      <4> QED BY <3>3, <4>2, <4>3
    <3> QED BY <3>2, <3>4 DEF g
  <2> HIDE DEF q, f
  <2> SUFFICES ASSUME NEW p \in Socket,
                      NEW i \in DOMAIN delivered'[p], NEW j \in DOMAIN delivered'[p],
                      i < j, delivered'[p][i].from = delivered'[p][j].from
               PROVE  delivered'[p][i].n < delivered'[p][j].n
    BY DEF OrderedOnce
  <2>5. CASE p # q
    BY <1>0, <2>1, <2>5 DEF OrderedOnce
  <2>6. CASE p = q
    <3> DEFINE d == delivered[q]
    <3>1. delivered'[p] = Append(d, f) /\ d \in Seq(Frame)
      BY <1>0, <2>1, <2>6
    <3>2. /\ DOMAIN Append(d, f) = DOMAIN d \cup {Len(d) + 1}
          /\ \A l \in DOMAIN d : Append(d, f)[l] = d[l] /\ l \in 1..Len(d)
          /\ Append(d, f)[Len(d) + 1] = f /\ Len(d) \in Nat
      BY <2>1, <3>1, AppendAddsOne
    <3>3. i \in DOMAIN d /\ delivered'[p][i] = d[i]
      BY <3>1, <3>2
    <3>4. CASE j \in DOMAIN d
      BY <2>1, <3>1, <3>2, <3>3, <3>4 DEF OrderedOnce
    <3>5. CASE j = Len(d) + 1
      BY <2>4, <3>1, <3>2, <3>3, <3>5
    <3> QED BY <3>1, <3>2, <3>4, <3>5
  <2> QED BY <2>5, <2>6
<1> QED BY <1>1, <1>2 DEF Shaped, Rests, Begins

(* A client whose departure is on record hears nothing more.               *)
LEMMA NextSilentAfterFarewell ==
  ASSUME TypesHold, LogNumbered, DeliveredIsLogged, TaskIsLast, SilentAfterFarewell,
         NEW w \in Socket, Shaped(w)
  PROVE  SilentAfterFarewell'
<1>0. /\ delivered \in [Socket -> Seq(Frame)] /\ peers \in Seq(Socket) /\ log \in Seq(Frame)
      /\ pc[w] \in Broadcasting => task[w].frame \in Frame
  BY DEF TypesHold, TypeOK, Task
<1> SUFFICES ASSUME NEW p \in Socket, NEW i \in DOMAIN log', NEW j \in DOMAIN log',
                    i <= j, log'[i] = Left(p)
             PROVE  log'[j] \notin ToSet(delivered'[p])
  BY DEF SilentAfterFarewell, ToSet, Left
<1>1. CASE log' = log /\ delivered' = delivered
  BY <1>1 DEF SilentAfterFarewell
<1>2. CASE Moves(w) /\ delivered' # delivered
  <2> DEFINE q == peers[task[w].pos]
             f == task[w].frame
  <2>1. /\ q \in ToSet(peers) /\ log' = log
        /\ delivered' = [delivered EXCEPT ![q] = Append(@, f)]
    BY <1>2 DEF Moves, ToSet
  <2>2. p # q
    BY <2>1 DEF LogNumbered, Left
  <2>3. delivered'[p] = delivered[p]
    BY <1>0, <2>1, <2>2
  <2> QED BY <2>1, <2>3 DEF SilentAfterFarewell
<1>3. ASSUME NEW f \in Frame, Begins(w, f) PROVE log'[j] \notin ToSet(delivered'[p])
  <2>1. delivered' = delivered /\ ToSet(delivered[p]) \subseteq ToSet(log)
    BY <1>3 DEF Begins, DeliveredIsLogged
  <2>2. CASE j \in DOMAIN log
    <3>1. i \in DOMAIN log /\ log'[i] = log[i] /\ log'[j] = log[j]
      BY <1>0, <1>3, <2>2, BegunLog
    <3> QED BY <2>1, <2>2, <3>1 DEF SilentAfterFarewell
  <2>3. CASE j = Len(log) + 1
    BY <1>3, <2>1, <2>3, BegunLog
  <2> QED BY <1>3, <2>2, <2>3, BegunLog
<1> QED BY <1>1, <1>2, <1>3 DEF Shaped, Rests, Moves

-----------------------------------------------------------------------------
(* The initial state satisfies the invariant.                              *)
LEMMA InitHubInv == Init => HubInv
<1> SUFFICES ASSUME Init PROVE HubInv
  OBVIOUS
<1> USE BoundsOK DEF Init
<1>1. TypesHold
  <2>1. Ended = {} /\ Cardinality(Ended) = 0
    BY FS_EmptySet DEF Ended
  <2>2. Cardinality(Socket) \in Nat
    BY FS_CardinalityType
  <2> QED BY <2>1, <2>2 DEF TypesHold, TypeOK, Broadcasting, NoTask
<1>2. PeersJoined /\ NewIsUnknown /\ LogNumbered /\ DeliveredIsLogged
  BY DEF PeersJoined, NewIsUnknown, LogNumbered, DeliveredIsLogged, Distinct, ToSet, NoTask
<1>3. TaskIsLast /\ AheadIsDeaf /\ OwedIsAhead
  BY DEF TaskIsLast, AheadIsDeaf, OwedIsAhead, Broadcasting
<1>4. OrderedOnce /\ SilentAfterFarewell
  BY DEF OrderedOnce, SilentAfterFarewell
<1> QED BY <1>1, <1>2, <1>3, <1>4 DEF HubInv

(* No step breaks the invariant.                                           *)
LEMMA NextHubInv == HubInv /\ [Next]_vars => HubInv'
<1> SUFFICES ASSUME HubInv, [Next]_vars PROVE HubInv'
  OBVIOUS
<1>0. /\ TypesHold /\ PeersJoined /\ NewIsUnknown /\ LogNumbered /\ DeliveredIsLogged
      /\ TaskIsLast /\ AheadIsDeaf /\ OwedIsAhead
      /\ OrderedOnce /\ SilentAfterFarewell
  BY DEF HubInv
<1>1. CASE Next
  <2>1. PICK w \in Socket : \/ Join(w) \/ Reject(w) \/ Disconnect(w)
                            \/ Relay(w) \/ BadFrame(w) \/ SeeDisconnect(w)
                            \/ BroadcastStep(w)
    BY <1>1 DEF Next
  <2>2. \/ Rests(w) \/ Passes(w) \/ (\E p \in Socket : Send(w, p))
        \/ Join(w) \/ Relay(w) \/ Leaves(w)
    BY <1>0, <2>1, StepsByShape
  <2>3. Shaped(w)
    BY <1>0, <2>2, StepsMove, StepsBegin DEF Shaped
  <2>4. TypesHold'
    BY <1>0, <2>2, NextTypesHold
  <2>5. PeersJoined' /\ NewIsUnknown' /\ LogNumbered' /\ DeliveredIsLogged' /\ TaskIsLast'
    BY <1>0, <2>3, NextPeersJoined, NextNewIsUnknown, NextLogNumbered, NextDeliveredIsLogged,
       NextTaskIsLast
  <2>6. AheadIsDeaf' /\ OwedIsAhead' /\ OrderedOnce' /\ SilentAfterFarewell'
    BY <1>0, <2>3, NextAheadIsDeaf, NextOwedIsAhead, NextOrderedOnce, NextSilentAfterFarewell
  <2> QED BY <2>4, <2>5, <2>6 DEF HubInv
<1>2. CASE UNCHANGED vars
  <2> USE <1>0, <1>2 DEF vars, ToSet, Distinct
  <2>1. TypesHold'
    BY DEF TypesHold, TypeOK, Ended
  <2>2. PeersJoined' /\ NewIsUnknown' /\ LogNumbered' /\ DeliveredIsLogged'
    BY DEF PeersJoined, NewIsUnknown, LogNumbered, DeliveredIsLogged
  <2>3. TaskIsLast' /\ AheadIsDeaf'
    BY DEF TaskIsLast, AheadIsDeaf
  <2>4. OwedIsAhead'
    BY DEF OwedIsAhead, Owed, Reached, Excluded
  <2>5. OrderedOnce' /\ SilentAfterFarewell'
    BY DEF OrderedOnce, SilentAfterFarewell
  <2> QED BY <2>1, <2>2, <2>3, <2>4, <2>5 DEF HubInv
<1> QED BY <1>1, <1>2

(* An undisturbed walk has ahead of it whoever it owes its frame.          *)
LEMMA MissedAreAhead ==
  ASSUME TypesHold, OwedIsAhead, NEW w \in Socket, pc[w] \in Broadcasting,
         ~task[w].disturbed, NEW p \in Owed(w) \ Reached(w)
  PROVE  p \in Ahead(w) /\ Walked(w) = peers /\ ~AtEnd(w)
<1>1. /\ task[w].on = list
      /\ \E k \in DOMAIN peers : k >= task[w].pos /\ peers[k] = p
  BY DEF OwedIsAhead
<1>2. Walked(w) = peers
  BY <1>1 DEF Walked
<1>3. PICK k \in DOMAIN peers : k >= task[w].pos /\ peers[k] = p
  BY <1>1
<1>4. task[w].pos \in Nat /\ peers \in Seq(Socket)
  BY DEF TypesHold, TypeOK, Task
<1>5. k \in task[w].pos..Len(peers)
  BY <1>3, <1>4
<1> QED BY <1>2, <1>3, <1>4, <1>5 DEF Ahead, AtEnd

(* The three steps that end a broadcast: its loop's end, where nobody is   *)
(* ahead, and the two that a send to a client that is gone ends in.        *)
LEMMA StepMissesBehind ==
  ASSUME HubInv, [Next]_vars, NEW w \in Socket, BroadcastOver(w), ~task[w].disturbed,
         NEW p \in Owed(w) \ Reached(w)
  PROVE  /\ Ahead(w) # {} /\ conn[Target(w)] = "closed"
         /\ p \in Ahead(w) \ {Target(w)}
<1>0. TypesHold /\ OwedIsAhead /\ pc[w] \in Broadcasting /\ pc'[w] # pc[w]
  BY DEF HubInv, BroadcastOver
<1>1. p \in Ahead(w) /\ ~AtEnd(w)
  BY <1>0, MissedAreAhead
<1>2. DOMAIN pc = Socket
  BY <1>0 DEF TypesHold, TypeOK
<1>3. \E q \in Socket : Sending(w, q) /\ conn[q] = "closed"
  <2>1. PICK v \in Socket : \/ Join(v) \/ Reject(v) \/ Disconnect(v)
                            \/ Relay(v) \/ BadFrame(v) \/ SeeDisconnect(v)
                            \/ BroadcastStep(v)
    BY <1>0 DEF Next, vars
  <2>2. ~(Join(v) \/ Reject(v) \/ Disconnect(v))
    BY <1>0, <1>2 DEF Join, Reject, Disconnect, Broadcasting
  <2>3. ~(Relay(v) \/ BadFrame(v) \/ SeeDisconnect(v))
    BY <1>0, <1>2 DEF Relay, BadFrame, SeeDisconnect, Die, Leave, Broadcasting
  <2>4. v = w
    BY <1>0, <1>2, <2>1, <2>2, <2>3
       DEF BroadcastStep, Skip, Send, SendIntoVoid, SendDisconnects, SendRaises, Finish,
           Die, Leave
  <2> QED
    BY <1>0, <1>1, <2>1, <2>2, <2>3, <2>4
       DEF BroadcastStep, Skip, Send, SendIntoVoid, SendDisconnects, SendRaises, Finish
<1>4. conn[Target(w)] = "closed"
  BY <1>3 DEF Sending
<1>5. conn[p] = "open"
  BY DEF Owed
<1> QED BY <1>1, <1>4, <1>5

(* The invariant holds in every state.                                     *)
LEMMA HubInvAlways == Spec => []HubInv
<1> QED BY InitHubInv, NextHubInv, PTL DEF Spec

(* The hub's variables have their types for any number of clients: the     *)
(* list is replaced at most once for every client that has left (leave).   *)
THEOREM HubTypeCorrect == Spec => []TypeOK
<1>1. HubInv => TypeOK
  BY DEF HubInv, TypesHold
<1> QED BY <1>1, HubInvAlways, PTL

(* Whatever joins, leaves and fails while broadcasts walk the live list,   *)
(* nobody hears a frame twice or two of one client's in the wrong order.   *)
THEOREM HeardInOrder == Spec => []OrderedOnce
<1>1. HubInv => OrderedOnce
  BY DEF HubInv
<1> QED BY <1>1, HubInvAlways, PTL

(* Who has been reported as gone is never sent anything reported later,    *)
(* even when the hub dropped a client that is still connected.             *)
THEOREM SilenceAfterFarewell == Spec => []SilentAfterFarewell
<1>1. HubInv => SilentAfterFarewell
  BY DEF HubInv
<1> QED BY <1>1, HubInvAlways, PTL

(* However a broadcast ends, by its loop's end or by a send that raises:   *)
(* if nobody left its list, the connected peers it misses stand behind a   *)
(* listed client that is gone.                                             *)
THEOREM MissedTheorem == Spec => MissedOnlyBehindTheGone
<1>1. HubInv /\ [Next]_vars =>
        [\A w \in Socket : BroadcastOver(w) /\ ~task[w].disturbed =>
           \A p \in Owed(w) \ Reached(w) :
             /\ Ahead(w) # {} /\ conn[Target(w)] = "closed"
             /\ p \in Ahead(w) \ {Target(w)}]_vars
  BY StepMissesBehind
<1> QED BY <1>1, HubInvAlways, PTL DEF Spec, MissedOnlyBehindTheGone
=============================================================================
