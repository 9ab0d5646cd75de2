------------------------------ MODULE CloudSync ------------------------------
(***************************************************************************)
(* Offline-first cloud sync: OfflineCache and CloudSyncClient              *)
(* (src/cloud/sync.py) against PUT /sync/{table}/{record_id}               *)
(* (backend/app/routes_sync.py).                                           *)
(*                                                                         *)
(* Each client is one SQLite file.  Two processes use it: the diagnostic   *)
(* application, which upserts records, and the sync process, which runs    *)
(* flush_queue.  The server answers PUTs on a pool of worker threads, each *)
(* with a database session of its own, so the SELECT of a request and its  *)
(* commit are two steps.  Requests and answers are lost or outlive the     *)
(* client's timeout, tokens expire, and either process dies at any point.  *)
(*                                                                         *)
(* A payload is represented by who wrote it and which of that client's     *)
(* versions of the record it is.  Timestamps are readings of a common      *)
(* clock; a client's clock may run ahead of the server's by Skew[c].       *)
(***************************************************************************)
EXTENDS Naturals, FiniteSets

CONSTANTS
  Client,     \* devices, each with its own cache file
  Record,     \* records of a syncable table
  Rest,       \* the author of rows written through PUT /vehicles/{vin}
  Skew,       \* [Client -> Nat]: how far a client's clock is ahead
  Workers,    \* sync requests the server runs at once
  MaxVer,     \* bound: versions of a record a client writes
  MaxTime,    \* bound: the clock
  MaxFaults,  \* bound: timeouts, losses, crashes and token expiries
  MaxRest     \* bound: writes through PUT /vehicles/{vin}

ASSUME ConstantsOK ==
  /\ Rest \notin Client
  /\ Skew \in [Client -> Nat]
  /\ Workers \in Nat \ {0}
  /\ MaxVer \in Nat /\ MaxTime \in Nat /\ MaxFaults \in Nat /\ MaxRest \in Nat

VARIABLES
  now,        \* the server's time.time()
  faults,     \* faults so far; numbers the requests a client gave up on
  \* The cache file of each client (durable).
  local,      \* the row of each record
  queue,      \* sync_queue
  conflicts,  \* sync_conflicts
  \* The application and the sync process of each client (volatile).
  upserting,  \* {} or the change upsert has committed and not yet enqueued
  token,      \* access_token
  running,    \* flush_queue is executing
  todo,       \* items of its pending() snapshot not yet taken
  inflight,   \* {} or the item whose PUT is awaited, with the row it sent
  answer,     \* {} or the response that has reached the client
  \* The server.
  requests,   \* PUTs sent and not yet answered
  server,     \* the server's row of each record
  restWrites, \* writes made through PUT /vehicles/{vin}
  \* History.
  promised,   \* changes ever enqueued
  accepted    \* changes the server has committed

clientVars == <<local, queue, conflicts, upserting>>
flushVars  == <<token, running, todo, inflight, answer>>
serverVars == <<requests, server, restWrites>>
vars == <<now, faults, clientVars, flushVars, serverVars, promised, accepted>>

Row       == [ver : Nat, ts : Nat]
ServerRow == [cli : Client \cup {Rest}, ver : Nat, ts : Nat]
Entry     == [rec : Record, ver : Nat \ {0}]
Flight    == [entry : Entry, row : Row]
Reply     == [kind : {"ok", "conflict", "error"}, row : ServerRow]
Request   == [cli : Client, rec : Record, ver : Nat \ {0}, ts : Nat, auth : BOOLEAN,
              late : Nat, st : {"sent", "checked"}, seen : ServerRow]
Conflict  == [rec : Record, local : Row, remote : ServerRow]

NoRow       == [ver |-> 0, ts |-> 0]
NoServerRow == [cli |-> Rest, ver |-> 0, ts |-> 0]

Change(c, e) == <<c, e.rec, e.ver>>

Init ==
  /\ now = 1 /\ faults = 0
  /\ local = [c \in Client |-> [r \in Record |-> NoRow]]
  /\ queue = [c \in Client |-> {}]
  /\ conflicts = [c \in Client |-> {}]
  /\ upserting = [c \in Client |-> {}]
  /\ token = [c \in Client |-> "none"]
  /\ running = [c \in Client |-> FALSE]
  /\ todo = [c \in Client |-> {}]
  /\ inflight = [c \in Client |-> {}]
  /\ answer = [c \in Client |-> {}]
  /\ requests = {}
  /\ server = [r \in Record |-> NoServerRow]
  /\ restWrites = 0
  /\ promised = {} /\ accepted = {}

-----------------------------------------------------------------------------
(* The clock and the environment's faults.                                 *)

Tick ==
  /\ now < MaxTime
  /\ now' = now + 1
  /\ UNCHANGED <<faults, clientVars, flushVars, serverVars, promised, accepted>>

Fault == faults < MaxFaults /\ faults' = faults + 1

(* A token outlives its 8 hours: PUTs made with it are answered 401.       *)
TokenExpires(c) ==
  /\ Fault
  /\ token[c] = "valid"
  /\ token' = [token EXCEPT ![c] = "expired"]
  /\ UNCHANGED <<now, clientVars, running, todo, inflight, answer, serverVars,
                 promised, accepted>>

-----------------------------------------------------------------------------
(* The application process.                                                *)

(* upsert up to its commit: the new row, stamped with this device's clock. *)
UpsertRow(c, r) ==
  LET row == [ver |-> local[c][r].ver + 1, ts |-> now + Skew[c]] IN
  /\ upserting[c] = {}
  /\ local[c][r].ver < MaxVer
  /\ local' = [local EXCEPT ![c][r] = row]
  /\ upserting' = [upserting EXCEPT ![c] = {[rec |-> r, ver |-> row.ver]}]
  /\ UNCHANGED <<now, faults, queue, conflicts, flushVars, serverVars, promised,
                 accepted>>

(* The call of enqueue that ends upsert, a transaction of its own.         *)
Enqueue(c) ==
  \E e \in upserting[c] :
    /\ queue' = [queue EXCEPT ![c] = @ \cup {e}]
    /\ upserting' = [upserting EXCEPT ![c] = {}]
    /\ promised' = promised \cup {Change(c, e)}
    /\ UNCHANGED <<now, faults, local, conflicts, flushVars, serverVars, accepted>>

AppCrash(c) ==
  /\ Fault
  /\ upserting[c] # {}
  /\ upserting' = [upserting EXCEPT ![c] = {}]
  /\ UNCHANGED <<now, local, queue, conflicts, flushVars, serverVars, promised,
                 accepted>>

-----------------------------------------------------------------------------
(* The sync process: authenticate and flush_queue.                         *)

Authenticate(c) ==
  /\ token[c] # "valid"
  /\ token' = [token EXCEPT ![c] = "valid"]
  /\ UNCHANGED <<now, faults, clientVars, running, todo, inflight, answer,
                 serverVars, promised, accepted>>

(* flush_queue without a token returns at once; with one it snapshots      *)
(* pending().  Its SELECT has no ORDER BY: items may come in any order.    *)
StartFlush(c) ==
  /\ ~running[c]
  /\ token[c] # "none"
  /\ queue[c] # {}
  /\ running' = [running EXCEPT ![c] = TRUE]
  /\ todo' = [todo EXCEPT ![c] = queue[c]]
  /\ UNCHANGED <<now, faults, clientVars, token, inflight, answer, serverVars,
                 promised, accepted>>

(* One turn of the loop: read the CURRENT local row of the item's record.  *)
(* No row: dequeue the item.  Otherwise PUT the row.                       *)
TakeItem(c, e) ==
  LET row == local[c][e.rec] IN
  /\ running[c]
  /\ inflight[c] = {}
  /\ e \in todo[c]
  /\ todo' = [todo EXCEPT ![c] = @ \ {e}]
  /\ IF row.ver = 0
     THEN /\ queue' = [queue EXCEPT ![c] = @ \ {e}]
          /\ UNCHANGED <<inflight, requests>>
     ELSE /\ inflight' = [inflight EXCEPT ![c] = {[entry |-> e, row |-> row]}]
          /\ requests' = requests \cup
               {[cli |-> c, rec |-> e.rec, ver |-> row.ver, ts |-> row.ts,
                 auth |-> (token[c] = "valid"), late |-> 0, st |-> "sent",
                 seen |-> NoServerRow]}
          /\ UNCHANGED queue
  /\ UNCHANGED <<now, faults, local, conflicts, upserting, token, running, answer,
                 server, restWrites, promised, accepted>>

(* The response of the awaited PUT has the given kind; the loop goes on.   *)
Receive(c, kind) ==
  /\ \E a \in answer[c] : a.kind = kind
  /\ answer' = [answer EXCEPT ![c] = {}]
  /\ inflight' = [inflight EXCEPT ![c] = {}]
  /\ UNCHANGED <<now, faults, local, upserting, token, running, todo, serverVars,
                 promised, accepted>>

(* Faulty variant: every item of the record leaves the queue.              *)
ReceiveOkByRecord(c) ==
  /\ Receive(c, "ok")
  /\ queue' = [queue EXCEPT ![c] =
                 {e \in @ : \A f \in inflight[c] : e.rec # f.entry.rec}]
  /\ UNCHANGED conflicts

(* resp.ok: the item leaves the queue, by its own id.                      *)
ReceiveOk(c) ==
  /\ Receive(c, "ok")
  /\ queue' = [queue EXCEPT ![c] = @ \ {f.entry : f \in inflight[c]}]
  /\ UNCHANGED conflicts

(* Faulty variant: a refused item leaves the queue.                        *)
ReceiveConflictDrops(c) ==
  /\ Receive(c, "conflict")
  /\ conflicts' = [conflicts EXCEPT ![c] = @ \cup
       {[rec |-> f.entry.rec, local |-> f.row, remote |-> a.row] :
          f \in inflight[c], a \in answer[c]}]
  /\ queue' = [queue EXCEPT ![c] = @ \ {f.entry : f \in inflight[c]}]

(* Faulty variant: a conflict ends the flush, items behind it starve.      *)
ReceiveConflictStops(c) ==
  /\ \E a \in answer[c] : a.kind = "conflict"
  /\ conflicts' = [conflicts EXCEPT ![c] = @ \cup
       {[rec |-> f.entry.rec, local |-> f.row, remote |-> a.row] :
          f \in inflight[c], a \in answer[c]}]
  /\ answer' = [answer EXCEPT ![c] = {}]
  /\ inflight' = [inflight EXCEPT ![c] = {}]
  /\ todo' = [todo EXCEPT ![c] = {}]
  /\ running' = [running EXCEPT ![c] = FALSE]
  /\ UNCHANGED <<now, faults, local, queue, upserting, token, serverVars, promised,
                 accepted>>

(* 409: the conflict is recorded and the item stays queued.                *)
ReceiveConflict(c) ==
  /\ Receive(c, "conflict")
  /\ conflicts' = [conflicts EXCEPT ![c] = @ \cup
       {[rec |-> f.entry.rec, local |-> f.row, remote |-> a.row] :
          f \in inflight[c], a \in answer[c]}]
  /\ UNCHANGED queue

(* Any other status counts as failed.                                      *)
ReceiveError(c) ==
  /\ Receive(c, "error")
  /\ UNCHANGED <<queue, conflicts>>

(* Faulty variant: the loop goes on until the queue is empty.              *)
FinishFlushWhenDrained(c) ==
  /\ running[c]
  /\ queue[c] = {}
  /\ inflight[c] = {}
  /\ running' = [running EXCEPT ![c] = FALSE]
  /\ UNCHANGED <<now, faults, clientVars, token, todo, inflight, answer, serverVars,
                 promised, accepted>>

FinishFlush(c) ==
  /\ running[c]
  /\ todo[c] = {}
  /\ inflight[c] = {}
  /\ running' = [running EXCEPT ![c] = FALSE]
  /\ UNCHANGED <<now, faults, clientVars, token, todo, inflight, answer, serverVars,
                 promised, accepted>>

Live(c) == {q \in requests : q.cli = c /\ q.late = 0}

(* The client no longer waits for its PUT.  The request is lost (or the    *)
(* worker serving it died), or it goes on towards the server.              *)
Abandon(c) ==
  \/ requests' = requests \ Live(c)
  \/ /\ Live(c) # {}
     /\ requests' = (requests \ Live(c)) \cup
                      {[q EXCEPT !.late = faults + 1] : q \in Live(c)}

(* requests.RequestException: the connection failed, or ten seconds passed *)
(* without a response, which may be one that was lost on its way back.     *)
PutFails(c) ==
  /\ Fault
  /\ inflight[c] # {}
  /\ Abandon(c)
  /\ inflight' = [inflight EXCEPT ![c] = {}]
  /\ answer' = [answer EXCEPT ![c] = {}]
  /\ UNCHANGED <<now, clientVars, token, running, todo, server, restWrites,
                 promised, accepted>>

SyncCrash(c) ==
  /\ Fault
  /\ running[c]
  /\ Abandon(c)
  /\ running' = [running EXCEPT ![c] = FALSE]
  /\ token' = [token EXCEPT ![c] = "none"]
  /\ todo' = [todo EXCEPT ![c] = {}]
  /\ inflight' = [inflight EXCEPT ![c] = {}]
  /\ answer' = [answer EXCEPT ![c] = {}]
  /\ UNCHANGED <<now, clientVars, server, restWrites, promised, accepted>>

-----------------------------------------------------------------------------
(* The server: sync_upsert, and upsert_vehicle beside it.                  *)

(* A response reaches the client unless it has given up on the request.    *)
Respond(q, kind, row) ==
  /\ requests' = requests \ {q}
  /\ answer' = IF q.late = 0
               THEN [answer EXCEPT ![q.cli] = {[kind |-> kind, row |-> row]}]
               ELSE answer

Deny(q) ==
  /\ q.st = "sent" /\ ~q.auth
  /\ Respond(q, "error", NoServerRow)
  /\ UNCHANGED <<server, accepted>>

FreeWorker == Cardinality({q \in requests : q.st = "checked"}) < Workers

(* Faulty variant: an equal stamp counts as later.                         *)
NewerOrEqual(row, q) == row.ver # 0 /\ row.ts >= q.ts

(* The server's row is stamped later than the row sent.                    *)
Newer(row, q) == row.ver # 0 /\ row.ts > q.ts

(* Faulty variant: the 409 carries the client's own row.                   *)
RefuseWithOwnRow(q) ==
  /\ q.st = "sent" /\ q.auth /\ FreeWorker
  /\ Newer(server[q.rec], q)
  /\ Respond(q, "conflict", q)
  /\ UNCHANGED <<server, accepted>>

Refuse(q) ==
  /\ q.st = "sent" /\ q.auth /\ FreeWorker
  /\ Newer(server[q.rec], q)
  /\ Respond(q, "conflict", server[q.rec])
  /\ UNCHANGED <<server, accepted>>

Admit(q) ==
  /\ q.st = "sent" /\ q.auth /\ FreeWorker
  /\ ~Newer(server[q.rec], q)
  /\ requests' = (requests \ {q}) \cup
                   {[q EXCEPT !.st = "checked", !.seen = server[q.rec]]}
  /\ UNCHANGED <<server, answer, accepted>>

(* The INSERT of a record that another request inserted meanwhile: 500.    *)
Clash(q) ==
  /\ q.st = "checked"
  /\ q.seen.ver = 0 /\ server[q.rec].ver # 0
  /\ Respond(q, "error", NoServerRow)
  /\ UNCHANGED <<server, accepted>>

(* The commit.  The row is stamped with the server's clock.  The session   *)
(* writes the columns that differ from the row it read: a payload equal to *)
(* that one leaves the payload now in the table as it is.                  *)
Commit(q) ==
  LET same == q.seen.ver # 0 /\ q.seen.cli = q.cli /\ q.seen.ver = q.ver
      new  == [cli |-> q.cli, ver |-> q.ver, ts |-> now]
      row  == IF same THEN [server[q.rec] EXCEPT !.ts = now] ELSE new
  IN
  /\ q.st = "checked"
  /\ q.seen.ver # 0 \/ server[q.rec].ver = 0
  /\ server' = [server EXCEPT ![q.rec] = row]
  /\ accepted' = accepted \cup {Change(q.cli, q)}
  /\ Respond(q, "ok", row)

ServerStep(q) ==
  /\ Deny(q) \/ Refuse(q) \/ Admit(q) \/ Clash(q) \/ Commit(q)
  /\ UNCHANGED <<now, faults, clientVars, token, running, todo, inflight,
                 restWrites, promised>>

(* PUT /vehicles/{vin}: an unconditional overwrite, stamped now.  Its own  *)
(* SELECT decides only between an INSERT and an UPDATE; an INSERT that     *)
(* loses to another handler's answers 500 and changes nothing.             *)
RestPut(r) ==
  /\ restWrites < MaxRest
  /\ restWrites' = restWrites + 1
  /\ server' = [server EXCEPT ![r] = [cli |-> Rest, ver |-> restWrites + 1, ts |-> now]]
  /\ UNCHANGED <<now, faults, clientVars, flushVars, requests, promised, accepted>>

-----------------------------------------------------------------------------
FlushStep(c) ==
  \/ \E e \in todo[c] : TakeItem(c, e)
  \/ ReceiveOk(c) \/ ReceiveConflict(c) \/ ReceiveError(c)
  \/ FinishFlush(c)

Next ==
  \/ Tick
  \/ \E c \in Client :
       \/ \E r \in Record : UpsertRow(c, r)
       \/ Enqueue(c) \/ AppCrash(c)
       \/ Authenticate(c) \/ TokenExpires(c)
       \/ StartFlush(c) \/ FlushStep(c)
       \/ PutFails(c) \/ SyncCrash(c)
  \/ \E q \in requests : ServerStep(q)
  \/ \E r \in Record : RestPut(r)

Spec == Init /\ [][Next]_vars

(* What the environment owes the system.  The application's upsert runs to *)
(* its end unless it crashes; the sync process authenticates and flushes   *)
(* again and again ("on a schedule"), and its loop moves on; the worker    *)
(* pool serves every request in the end.  Faults are not fair: they are    *)
(* finitely many, and may stop at any time.                                *)
Fairness ==
  /\ \A c \in Client :
       /\ WF_vars(Enqueue(c))
       /\ WF_vars(Authenticate(c))
       /\ WF_vars(StartFlush(c))
       /\ WF_vars(FlushStep(c))
       /\ SF_vars(\E q \in Live(c) : ServerStep(q))
  /\ SF_vars(\E q \in requests : q.late > 0 /\ ServerStep(q))

FairSpec == Spec /\ Fairness

-----------------------------------------------------------------------------
(* Properties.                                                             *)

(* Every variable has its type.                                            *)
TypeOK ==
  /\ now \in Nat /\ faults \in Nat /\ restWrites \in Nat
  /\ local \in [Client -> [Record -> Row]]
  /\ queue \in [Client -> SUBSET Entry]
  /\ conflicts \in [Client -> SUBSET Conflict]
  /\ upserting \in [Client -> SUBSET Entry]
  /\ token \in [Client -> {"none", "valid", "expired"}]
  /\ running \in [Client -> BOOLEAN]
  /\ todo \in [Client -> SUBSET Entry]
  /\ inflight \in [Client -> SUBSET Flight]
  /\ answer \in [Client -> SUBSET Reply]
  /\ requests \subseteq Request
  /\ server \in [Record -> ServerRow]
  /\ promised \subseteq Client \X Record \X (Nat \ {0})
  /\ accepted \subseteq Client \X Record \X (Nat \ {0})

(* The queue seen from outside, as SyncContract describes it.              *)
Outbox == UNION {{Change(c, e) : e \in queue[c]} : c \in Client}

Contract == INSTANCE SyncContract WITH
              Version <- 1..MaxVer, outbox <- Outbox, stored <- accepted

(* Every step of the client, the network and the server is a step of the   *)
(* contract: nothing leaves a queue that the server has not stored in that *)
(* version or a later one of the same device.                              *)
ImplementsContract == Contract!Spec

(* No change that upsert enqueued is ever lost: it is on the queue, or the *)
(* server has committed it or a later version of it.  flush_queue reads    *)
(* the row when it sends, not when the change was queued, and dequeues by  *)
(* item id, so a newer change queued while a PUT is awaited survives.      *)
NoLostSync ==
  \A p \in promised :
    \/ [rec |-> p[2], ver |-> p[3]] \in queue[p[1]]
    \/ \E a \in accepted : a[1] = p[1] /\ a[2] = p[2] /\ a[3] >= p[3]

(* Whatever sync_conflicts asks a technician to review is real: the remote *)
(* row was committed on the server, and stamped later than the row sent.   *)
ConflictIsGenuine ==
  \A c \in Client : \A k \in conflicts[c] :
    /\ k.remote.ts > k.local.ts
    /\ k.remote.cli # Rest => Change(k.remote.cli, [rec |-> k.rec, ver |-> k.remote.ver]) \in accepted

(* Last write wins, as flush_queue documents it: a version of a record is  *)
(* never refused in favour of an EARLIER version by the same device.  The  *)
(* server's stamp is the time of the sync and not of the change, so the    *)
(* code breaks this.                                                       *)
LaterVersionWins ==
  \A c \in Client : \A k \in conflicts[c] :
    k.remote.cli = c => k.remote.ver >= k.local.ver

(* The server answers 409 "instead of blindly overwriting newer server     *)
(* data": a commit never replaces a row stamped later than the row sent.   *)
(* The check and the commit are two steps, so the code breaks this.        *)
NeverOverwritesNewer ==
  [][\A q \in requests :
       q \notin requests' /\ server'[q.rec] # server[q.rec]
         => ~Newer(server[q.rec], q)]_vars

(* A row that upsert committed is on its way to the queue or has reached   *)
(* it.  A crash between the two commits of upsert breaks this.             *)
EveryRowQueued ==
  \A c \in Client, r \in Record :
    LET e == [rec |-> r, ver |-> local[c][r].ver] IN
    e.ver > 0 => e \in upserting[c] \/ Change(c, e) \in promised

(* Whatever is queued is settled in the end: the server has it or a later  *)
(* version, or the conflict is recorded for a technician, or the device    *)
(* has a later version itself.                                             *)
Settled(c, e) ==
  \/ \E a \in accepted : a[1] = c /\ a[2] = e.rec /\ a[3] >= e.ver
  \/ \E k \in conflicts[c] : k.rec = e.rec /\ k.local.ver >= e.ver

SettlesEventually ==
  \A c \in Client, r \in Record, v \in 1..MaxVer :
    LET e == [rec |-> r, ver |-> v] IN e \in queue[c] ~> Settled(c, e)

(* flush_queue returns: it works on a snapshot, so what is queued while it *)
(* runs, and the conflicts it leaves queued, do not keep it going.         *)
FlushTerminates == \A c \in Client : running[c] ~> ~running[c]
=============================================================================
