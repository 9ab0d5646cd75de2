------------------------------ MODULE SessionHub ------------------------------
(***************************************************************************)
(* The remote diagnostics hub, backend/app/websocket_remote.py: SessionHub *)
(* and the coroutine remote_session runs for every websocket.              *)
(*                                                                         *)
(* One remote session is modelled; sessions share no state but the dict    *)
(* that holds their peer lists.  Coroutines interleave at every await:     *)
(* accept, receive_text and each send_text of a broadcast.  A broadcast    *)
(* walks the LIVE list of peers by position, so joins and departures       *)
(* between two of its sends change what it walks.                          *)
(*                                                                         *)
(* A client leaves at any time and does not come back: a reconnect is a    *)
(* websocket of its own.                                                   *)
(***************************************************************************)
EXTENDS Naturals, Sequences, SequencesExt, FiniteSets, Functions

CONSTANTS
  Socket,   \* the websockets that connect during the session
  MaxMsg,   \* bound: frames one client sends
  MaxHeard, \* bound: frames all the clients send
  MaxGone,  \* bound: connections closed when a client goes away
  MaxWalks  \* bound: broadcasts under way at once

ASSUME BoundsOK ==
  IsFiniteSet(Socket) /\ {MaxMsg, MaxHeard, MaxGone, MaxWalks} \subseteq Nat

VARIABLES
  conn,       \* the connection of each socket, as its client has it
  pc,         \* where each socket's coroutine is
  peers,      \* the list in hub.sessions, <<>> when the key is absent
  list,       \* which list object that is: a deleted key gets a new one
  task,       \* the broadcast each coroutine is in, if any
  heard,      \* frames read from each client
  log,        \* the session's JSON-lines file
  delivered   \* what has been sent to each client, in order

vars == <<conn, pc, peers, list, task, heard, log, delivered>>

(* A frame and the socket that caused it.  Its number orders the frames of *)
(* one socket: peer_joined, what its client sends, peer_left.              *)
Frame == [from : Socket, n : 0..(MaxMsg + 1)]
Joined(w) == [from |-> w, n |-> 0]
Left(w)   == [from |-> w, n |-> MaxMsg + 1]

Broadcasting == {"greeting", "relaying", "parting"}

(* A broadcast: the frame, the list it walks, the next position, who was   *)
(* on the list when it began, and whether anybody left it since.           *)
NoTask == [frame |-> <<>>, on |-> 0, pos |-> 0, audience |-> {}, disturbed |-> FALSE]

Init ==
  /\ conn = [w \in Socket |-> "absent"]
  /\ pc = [w \in Socket |-> "new"]
  /\ peers = <<>> /\ list = 1
  /\ task = [w \in Socket |-> NoTask]
  /\ heard = [w \in Socket |-> 0]
  /\ log = <<>>
  /\ delivered = [w \in Socket |-> <<>>]

-----------------------------------------------------------------------------
MayWalk == Cardinality({w \in Socket : pc[w] \in Broadcasting}) < MaxWalks

(* broadcast up to its first await: the frame is recorded, then the walk   *)
(* of the list as it is now begins.  An absent key yields a list of its    *)
(* own that nobody ever joins.                                             *)
Begin(w, frame, members, others) ==
  /\ log' = Append(log, frame)
  /\ task' = [others EXCEPT ![w] =
       [frame |-> frame, on |-> IF members = <<>> THEN 0 ELSE list, pos |-> 1,
        audience |-> ToSet(members), disturbed |-> FALSE]]

(* Faulty variant of Join: the newcomer goes to the head of the list. *)
JoinAtHead(w) ==
  LET members == <<w>> \o peers IN
  /\ pc[w] = "new" /\ MayWalk
  /\ conn' = [conn EXCEPT ![w] = "open"]
  /\ pc' = [pc EXCEPT ![w] = "greeting"]
  /\ peers' = members
  /\ Begin(w, Joined(w), members, task)
  /\ UNCHANGED <<list, heard, delivered>>

(* remote_session for a token that is valid: accept, join, and the start   *)
(* of the broadcast that tells everybody, the joiner included.             *)
Join(w) ==
  LET members == Append(peers, w) IN
  /\ pc[w] = "new" /\ MayWalk
  /\ conn' = [conn EXCEPT ![w] = "open"]
  /\ pc' = [pc EXCEPT ![w] = "greeting"]
  /\ peers' = members
  /\ Begin(w, Joined(w), members, task)
  /\ UNCHANGED <<list, heard, delivered>>

(* An invalid token: the socket is closed before it joins.                 *)
Reject(w) ==
  /\ pc[w] = "new"
  /\ pc' = [pc EXCEPT ![w] = "done"]
  /\ conn' = [conn EXCEPT ![w] = "closed"]
  /\ UNCHANGED <<peers, list, task, heard, log, delivered>>

(* The client goes away, or the network does.                              *)
Disconnect(w) ==
  /\ conn[w] = "open"
  /\ Cardinality({x \in Socket : conn[x] = "closed"}) < MaxGone
  /\ conn' = [conn EXCEPT ![w] = "closed"]
  /\ UNCHANGED <<pc, peers, list, task, heard, log, delivered>>

(* Faulty variant of Die: the broadcast outlives its coroutine. *)
DieMidBroadcast(w, tasks) ==
  /\ pc' = [pc EXCEPT ![w] = "dead"]
  /\ conn' = [conn EXCEPT ![w] = "closed"]
  /\ task' = tasks

(* A coroutine that an exception ends: nothing takes its socket off the    *)
(* list, and the server closes the connection.                             *)
Die(w, tasks) ==
  /\ pc' = [pc EXCEPT ![w] = "dead"]
  /\ conn' = [conn EXCEPT ![w] = "closed"]
  /\ task' = [tasks EXCEPT ![w] = NoTask]

MayHear(w) == heard[w] < MaxMsg /\ SumFunction(heard) < MaxHeard

(* A frame of the client is read and relayed to everybody else.  It may    *)
(* have been sent before the client went away.                             *)
Relay(w) ==
  /\ pc[w] = "receiving"
  /\ MayHear(w) /\ MayWalk
  /\ heard' = [heard EXCEPT ![w] = @ + 1]
  /\ pc' = [pc EXCEPT ![w] = "relaying"]
  /\ Begin(w, [from |-> w, n |-> heard[w] + 1], peers, task)
  /\ UNCHANGED <<conn, peers, list, delivered>>

(* A frame that is not a JSON object: the exception is not caught.         *)
BadFrame(w) ==
  /\ pc[w] = "receiving"
  /\ MayHear(w)
  /\ heard' = [heard EXCEPT ![w] = @ + 1]
  /\ Die(w, task)
  /\ UNCHANGED <<peers, list, log, delivered>>

-----------------------------------------------------------------------------
(* Faulty variant of Leave: the longest-standing peer is dropped instead. *)
LeaveOldest(w) ==
  LET rest == IF peers = <<>> THEN <<>> ELSE Tail(peers) IN
  /\ peers' = rest
  /\ list' = IF rest = <<>> THEN list + 1 ELSE list
  /\ pc' = [pc EXCEPT ![w] = "parting"]
  /\ Begin(w, Left(w), rest, task)
  /\ UNCHANGED <<heard, delivered>>

(* leave, and the start of the broadcast that tells those who remain.      *)
Leave(w) ==
  LET rest == RemoveFirst(peers, w)
      told == [x \in Socket |-> IF pc[x] \in Broadcasting /\ task[x].on = list
                                THEN [task[x] EXCEPT !.disturbed = TRUE] ELSE task[x]]
  IN
  /\ peers' = rest
  /\ list' = IF rest = <<>> THEN list + 1 ELSE list
  /\ pc' = [pc EXCEPT ![w] = "parting"]
  /\ Begin(w, Left(w), rest, told)
  /\ UNCHANGED <<heard, delivered>>

(* receive_text raises WebSocketDisconnect.                                *)
SeeDisconnect(w) ==
  /\ pc[w] = "receiving"
  /\ conn[w] = "closed" /\ MayWalk
  /\ Leave(w)
  /\ UNCHANGED conn

-----------------------------------------------------------------------------
(* One turn of the loop of a broadcast.                                    *)

(* The list the broadcast walks, as it is now: one whose key was deleted   *)
(* had become empty.                                                       *)
Walked(w) == IF task[w].on = list THEN peers ELSE <<>>

(* Faulty variant of AtEnd: the walk stops one peer early. *)
AtEndEarly(w) == task[w].pos >= Len(Walked(w))

AtEnd(w) == task[w].pos > Len(Walked(w))

Target(w) == Walked(w)[task[w].pos]

Excluded(w) == IF pc[w] = "relaying" THEN {w} ELSE {}

Advance(w) == task' = [task EXCEPT ![w].pos = @ + 1]

(* The peer that caused the frame is passed over.                          *)
Skip(w) ==
  /\ pc[w] \in Broadcasting /\ ~AtEnd(w)
  /\ Target(w) \in Excluded(w)
  /\ Advance(w)
  /\ UNCHANGED <<conn, pc, peers, list, heard, log, delivered>>

Sending(w, p) ==
  /\ pc[w] \in Broadcasting /\ ~AtEnd(w)
  /\ Target(w) \notin Excluded(w)
  /\ p = Target(w)

Send(w, p) ==
  /\ Sending(w, p)
  /\ conn[p] = "open"
  /\ delivered' = [delivered EXCEPT ![p] = Append(@, task[w].frame)]
  /\ Advance(w)
  /\ UNCHANGED <<conn, pc, peers, list, heard, log>>

(* A send to a client that is gone may pass unnoticed...                   *)
SendIntoVoid(w, p) ==
  /\ Sending(w, p)
  /\ conn[p] = "closed"
  /\ Advance(w)
  /\ UNCHANGED <<conn, pc, peers, list, heard, log, delivered>>

(* ... or raise WebSocketDisconnect in the coroutine that sends.  While    *)
(* relaying it is taken for the sender's own departure.                    *)
SendDisconnects(w, p) ==
  /\ Sending(w, p)
  /\ conn[p] = "closed"
  /\ IF pc[w] = "relaying"
     THEN Leave(w) /\ UNCHANGED conn
     ELSE Die(w, task) /\ UNCHANGED <<peers, list, heard, log, delivered>>

(* ... or raise anything else, which nothing catches.                      *)
SendRaises(w, p) ==
  /\ Sending(w, p)
  /\ conn[p] = "closed"
  /\ Die(w, task)
  /\ UNCHANGED <<peers, list, heard, log, delivered>>

(* The loop ends.  Once the departure is told the coroutine returns and    *)
(* the server closes the connection.                                       *)
Finish(w) ==
  /\ pc[w] \in Broadcasting /\ AtEnd(w)
  /\ pc' = [pc EXCEPT ![w] = IF @ = "parting" THEN "done" ELSE "receiving"]
  /\ conn' = [conn EXCEPT ![w] = IF pc[w] = "parting" THEN "closed" ELSE @]
  /\ task' = [task EXCEPT ![w] = NoTask]
  /\ UNCHANGED <<peers, list, heard, log, delivered>>

BroadcastStep(w) ==
  \/ Skip(w)
  \/ \E p \in Socket : \/ Send(w, p) \/ SendIntoVoid(w, p)
                       \/ SendDisconnects(w, p) \/ SendRaises(w, p)
  \/ Finish(w)

Next ==
  \E w \in Socket :
    \/ Join(w) \/ Reject(w) \/ Disconnect(w)
    \/ Relay(w) \/ BadFrame(w) \/ SeeDisconnect(w)
    \/ BroadcastStep(w)

Spec == Init /\ [][Next]_vars

-----------------------------------------------------------------------------
Task == [frame : Frame, on : 0..Cardinality(Socket), pos : Nat \ {0},
         audience : SUBSET Socket, disturbed : BOOLEAN]

(* The variables have their types; a coroutine has a broadcast exactly     *)
(* while it is in one (the loops of remote_session and broadcast).         *)
TypeOK ==
  /\ conn \in [Socket -> {"absent", "open", "closed"}]
  /\ pc \in [Socket -> Broadcasting \union {"new", "receiving", "done", "dead"}]
  /\ peers \in Seq(Socket)
  /\ list \in 1..(Cardinality(Socket) + 1)
  /\ \A w \in Socket : IF pc[w] \in Broadcasting THEN task[w] \in Task
                                                 ELSE task[w] = NoTask
  /\ heard \in [Socket -> 0..MaxMsg]
  /\ log \in Seq(Frame)
  /\ delivered \in [Socket -> Seq(Frame)]

(* A client hears each frame of another client at most once, and in the    *)
(* order they were sent, however the list of peers shifts under the        *)
(* broadcasts that walk it (broadcast 46-50, join 37, leave 41-42).        *)
OrderedOnce ==
  \A p \in Socket : \A i, j \in DOMAIN delivered[p] :
    i < j /\ delivered[p][i].from = delivered[p][j].from
      => delivered[p][i].n < delivered[p][j].n

(* A client whose departure is on record hears nothing recorded after it,  *)
(* although the hub also drops senders that are still connected (leave 42, *)
(* remote_session 86-88).                                                  *)
SilentAfterFarewell ==
  \A p \in Socket : \A i, j \in DOMAIN log :
    i <= j /\ log[i] = Left(p) => log[j] \notin ToSet(delivered[p])

(* Who a broadcast owes its frame.                                         *)
Owed(w) == {p \in task[w].audience \ Excluded(w) : conn[p] = "open"}

Reached(w) == {p \in Socket : task[w].frame \in ToSet(delivered[p])}

AtLoopEnd(w) == pc[w] \in Broadcasting /\ AtEnd(w)

(* Whom a walk is at or has still to come to.                              *)
Ahead(w) == {Walked(w)[k] : k \in task[w].pos..Len(Walked(w))}

(* A broadcast's end, whichever way: its loop ran out, a failed send ended *)
(* the coroutine, or a failed send made it tell its own departure instead. *)
BroadcastOver(w) == pc[w] \in Broadcasting /\ pc'[w] # pc[w]

(* A broadcast whose list nobody has left misses no connected peer it owes *)
(* the frame, unless a send to a listed client that is gone raises; then   *)
(* those it misses all stand behind that client.  This is so however a     *)
(* broadcast ends: greeting, relaying or parting, by the end of its loop   *)
(* (broadcast 48-50) or by an exception (76-77, 85-88).                    *)
MissedOnlyBehindTheGone ==
  [][\A w \in Socket : BroadcastOver(w) /\ ~task[w].disturbed =>
       \A p \in Owed(w) \ Reached(w) :
         /\ Ahead(w) # {} /\ conn[Target(w)] = "closed"
         /\ p \in Ahead(w) \ {Target(w)}]_vars

(* What the module promises, "streams live data / CAN frames / DTC updates *)
(* to connected remote viewers" (websocket_remote.py 4-5): a broadcast     *)
(* that ends has reached every viewer that was on the list from its        *)
(* beginning to its end.                                                   *)
EveryStableViewerReached ==
  \A w \in Socket : AtLoopEnd(w) => Owed(w) \intersect ToSet(peers) \subseteq Reached(w)
=============================================================================
